# Kizu, specified and checked

This directory holds TLA+ specifications of the Kizu repository. One half is
about the parts where several actors meet: threads that share a round of work,
processes that share a cache directory, coroutines that share one stack of
turns, connections that share one poller. The other half is about the compiler:
what its checkers accept, what its passes preserve, what its backends emit, and
what its formatter writes. Each specification is model-checked with TLC on small
instances. For the thread pool, the build cache, the event loop, the HTTP server
and the wasm runtime every safety property the runs check is also proved with
TLAPS for every value of the constants; of the optimizer, that its dominator tree is
exact on every graph. `PROJECT.json` maps each definition to
the lines it was translated from, and lists runs, mutants, hazards, findings and
theorems.

Contents: [the system](#the-system) ·
[modules](#modules-and-the-code-they-model) · [runs](#runs) · [bounds](#bounds) ·
[fairness](#fairness) · [proofs](#proofs) · [findings](#findings) ·
[not modelled](#not-modelled) · [plan](#plan)

## The system

Kizu is a systems language: a compiler in Go (`cmd/kizu`, `internal/`), the same
compiler in Kizu (`compiler/`), a C runtime that every native program is linked
with (`internal/native/runtime/runtime.c`), and a standard library in Kizu
(`lib/kizu/std`). A program is compiled by one thread of one process: source is
scanned, parsed, type-checked, ownership-checked, lowered to SSA, optimized, and
emitted as LLVM IR or as a wasm binary. What is concurrent is the runtime
underneath a compiled program, the library's servers, and several `kizu`
processes at once on one machine.

### Components

| component | state it keeps | operations | who it meets | modules |
|---|---|---|---|---|
| thread pool (`runtime.c`, `std::thread`) | ticket (tag, batches, next), done, failure, mutex, two condition variables, helpers' stacks, scratch runs | `thread_pool_new`, `each`, `each_lane`, `close` | helper threads race the caller on one word | ThreadPool, ForkJoin |
| build cache (`internal/buildcache`) | a directory of `key.out`, `key.json`, `artifact-*` | `GetOrBuildArtifact`, `enforceLimit`, `Prune`, `Status` | processes, with no lock | BuildCache |
| native build driver (`internal/native`) | none of its own | `Executable`, `Build`, `runtimeObject`, `link` | calls the cache, nested: an executable asks for the runtime object it links | BuildCache |
| event loop and coroutines (`runtime.c`, `std::io`, `std::coro`) | tasks, parks, coroutine records, TaskSets, a stack each | `async`, `await`, `cancel`, `deinit`; `spawn`, `wait_one`, close of a set; a loop turn | a turn resumes workers that turn the loop themselves | EventLoop |
| http server (`std::http`) | open connections, `slot_of`, spare, retiring and settled tokens, `listening` | `first`, `next`, `accept` | poller, sockets, tls; the caller holds exchanges | HttpServer |
| wasm runtime (`internal/wasm`) | free list, bump offset, headers of arrays, maps, arenas and boxes | allocate, grow, release; each container's operations | containers share one heap | WasmHeap, WasmContainers |
| front end (`internal/lexer`, `parser`, `fmt`) | a text, its tokens, its tree | scan, parse, format | parser and formatter read the same tokens and never meet | Lexer, Parser, Formatter, Syntax |
| type checker (`internal/types`) | declarations, scopes, instances in progress and checked | collect, check a body, instantiate a generic | hands an accepted program to lowering | TypeDecls, TypeScope, TypeCheck, TypesRun |
| ownership checker (`internal/ownership`) | bindings with their moves, loans, defers; loops and exits | check a function | hands lowering the errdefers to retire | OwnershipState, Ownership, OwnershipRun |
| IR and optimizer (`internal/ir`) | a module in SSA form | `Verify`, lowering, 12 passes | each pass trusts what the others left | Backend, IRForm, IR, IRMachine, IRBuild, IRLower, IRPasses, IRReshape, IRPipeline |
| wasm backend (`internal/wasm`) | structured code, locals, frame | structure, hoist, emit, encode | takes the module of the last pass | Backend, WasmEmit, WasmEngine, WasmBinary |
| LLVM backend (`internal/llvm`) | text under construction: what each value is written as, where each block ends | emit a function, pass over its lines, verify | takes the module `Optimize` leaves, or the lowered one | LLVMText, LLVMEmit |
| http exchange, http client, tls | answered, persisted, owed; secrets and sequence numbers | read, answer, seal, open | server, sockets | in HttpServer only that tls buffers |
| poller and sockets | registrations | add, remove, wait | event loop, http | what they answer is nondeterministic |
| collections and allocators of the C runtime | hash index, entries, blocks | insert, remove, grow | sequential | not modelled; the wasm ones are |
| language server, project loading, CLI, state-machine export, self-hosted compiler, library algorithms, cryptography | none, or a cache keyed by a text | one pass | | not modelled |

### What is hard here, and what makes each part right

*Thread pool.* A batch is taken by a compare-and-swap on one word that also says
which round it belongs to. A helper may be put aside by the operating system at
any instruction and come back in a later round; a worker may fail while others
are about to start; caller and helpers put each other to sleep and wake each
other. It is right if every item is run once or, after a failure, skipped; if
nothing a call lends is touched after the call; if nobody sleeps through a wake;
and if every call returns.

*Build cache.* Each file-system call is atomic at best and there is no lock.
Builders, evictors and pruners of several processes interleave, and any of them
may be killed. It is right if a path that was returned can be used, every
artifact is accounted for, and the limit holds.

*Event loop.* There is one thread, but a worker that waits turns the loop from
where it stands. So a turn's walk over a table is suspended while a nested turn
changes that table, and the worker someone waits for may stand *below* the one
who waits. It is right if the tables agree with each other, a cancel arrives,
and a wait is answered with what happened.

*HTTP server.* The poller knows a connection by a number, the table by an index
that moves. Requests arrive ahead of the answers to the ones before; calls fail
half way and the next call carries on with the tables they left. It is right if
the names and the table agree, no request that is in hand is waited for, and a
connection that is being closed stays that way.

*Wasm runtime.* Growth is refused at any allocation, and an operation that needed
two has to leave the container as it was after the first. A map's index, control
bytes and entries are three structures that a removal refiles. It is right if
blocks tile the heap with one owner each and containers hold what the program
was told they hold.

*Checkers.* A rule is right only together with all the others: a type checker if
no accepted program goes wrong, an ownership checker if no accepted function
releases twice, leaks, or uses a reference whose place has changed. Exits in the
middle of an expression, branches that consume on one side, loops that run
again, and cleanups that lowering adds later are where a local rule forgets
something.

*Passes and backends.* A pass may rely on a fact that an earlier pass, or its own
earlier edit, has made stale: a dominator tree, a bound that was checked on
another path, a value a loop read before it began. Copies on an edge happen as
one although they are emitted in order. A pass is right if the program still
means what its source means.

*Formatter.* It works on tokens without a tree, so what a mark means is guessed
from its neighbours. It is right if the tree and the comments stay and a second
format changes nothing.

`PROJECT.json` lists the hazards line by line, with the property that covers
each.

## Modules and the code they model

### ThreadPool, and ForkJoin above it

`ThreadPool` is `runtime.c` from `kizu_pool_*` to `thread_pool_close`. Every
access to an atomic word, every lock, wait and signal is a step of its own, so
all interleavings are explored; memory is sequentially consistent. `ticket` is
the packed word (tag, batches, next), with its tag's width the constant `TagMod`;
`local[t]` is the copy a thread's compare-and-swap expects; `hand[t]` is the batch
it works on. A strided call gathers each lane into a scratch run. `fate`, `data`,
`claim` and `settled` record history (what was run and written, whose items are
whose). No guard that stands for code reads them.

`thread_pool_new` may fail at any helper (`StartHelperFails`), which closes what
was opened. `pthread_cond_wait` may return for no reason (`SpuriousWake`).

`ForkJoin` is the promise without the machinery: items start, end, are skipped
once something failed, and a call returns when none waits or runs.
`Promise == INSTANCE ForkJoin WITH ...` reads a settled item that was never
started as skipped, and `KeepsPromise == Promise!Spec` is a property of the pool.

### BuildCache

One action for each file-system call of `GetOrBuildArtifact`, `buildArtifact`,
`writeMeta`, `entries`, `enforceLimit` and `Prune`, and of the driver that asks
for an executable (`Ask`, `Compile`, `AskRuntime`, `Link`, `Use`). `os.WriteFile`
is two steps, a truncating open and a write, so another process can read an empty
entry, and two writers can leave a garbled one. `Fail(p)` is any call that fails,
`Kill(p)` the end of a process anywhere. A key is its place in the order that
`filepath.Glob` returns; `now` stands for the wall clock and only moves forward.

### EventLoop

`stack` is the chain of resumed coroutines, `Main` first, and only the last one
runs. `op[c]` is the runtime call in which context `c` turns the loop, with the
phase of the turn (check, run, poll, wake, reap) and the index its walk stands
at; a nested turn has an `op` of its own. A park settles by readiness, deadline
or failure (all `"io"`) or by a cancel; `answer` is what the wait that was just
resumed is told. The language's ownership rules are guards: a Future and a
TaskSet are used and released by the frame that made them, and a frame cannot
return before. They also borrow the Loop, which `main` can therefore release only when
none is left (`examples/negative/io_future_loop_released.kizu`); `LoopClose` has that
guard, and `kizu_loop_close_tasks` then finds nothing to cancel, which is the first part
of `TablesAgree`. Once a stack that is still in use has been freed the program's
behaviour is undefined; the model stops there (`Intact`).

### HttpServer

`Server.first`, `next` and `accept` of `http/server.kizu`, with everything they
call. `server` is the record of the server's own tables and of each exchange's
phase, token and unread heads. Several operators (`Claim`, `Retire`, `TakeOut`,
`Restore`, ...) are functions from tables to tables, named after the source's, and
the actions compose them in the source's order. `pc` is the place in
`wait_for_one`; each call that can fail has an action that fails, with what
`errdefer` does. `secure` is chosen in `Init`, so one run covers both plain and
TLS servers; over TLS a read may leave heads `inner`, inside the TLS connection.
What a peer sends and which sockets are ready is nondeterministic.

### WasmHeap and WasmContainers

The code the wasm backend writes into every module that allocates. `WasmHeap` is
`allocator.go`: the page allocator with its address-ordered free list, splitting
and coalescing; the bump allocator over a caller's buffer; a user's callbacks;
the dispatch between them. `WasmContainers` is `array.go`, `map.go`, `arena.go` and
`box.go` over it: a header is a record of the words the code keeps in linear
memory, and each method of a container is an action that ends in success or,
when an allocation is refused, in the error path the code takes. The map has its
control bytes, its groups, the slot-by-slot lookup, the ordered entries and the
refiling after a removal. `stored` is history: what the program was told.

### Lexer, Parser, Formatter, Syntax

An item of a text is a token or a comment with the white space in front of it.
`Lexer` makes items of words, `Parser` is `parser.go` form by form and returns the
tree and the place where it stopped (0 when it failed), and `Formatter` is `fmt.go`,
from the classification of `<`, `*`, `-` and `{` to the passes over imports and
blank lines. `Syntax` is the file between its author and `kizu fmt --write`:
`Write` adds one piece, `fmtCommand` refuses a text that does not parse and
rewrites one that does.

### TypeDecls, TypeScope, TypeCheck, TypesRun

`TypeDecls` is the shape of types, what each may be used for, and the collection of
declarations with the rules on layouts, C names, generics and recursion. `TypeScope`
has the scopes, the places and the single questions asked of a name, an operator or
a receiver, `TypeCheck` the check of statements, expressions, calls, methods, matches
and generic instances. `Check` threads a
state and stops at the first error, as the code does. `TypesRun` runs an accepted
program with no types in sight: every value carries what it is, and an operation
on the wrong kind of value is a fault.

### OwnershipState, Ownership, OwnershipRun

`OwnershipState` is what the checker of `checker.go` keeps (bindings with their moves,
partial moves, loans, defers and errdefers) with each single rule on it, and
`Ownership` the walk of one function: branches cloned and merged; loops walked;
owners checked at each exit. It also answers which errdefers are retired
at which exit. `OwnershipRun` is what such a function does when `internal/ir`
compiled it: order of evaluation, exits in the middle of a statement, cleanups in
the order lowering emits them, with every call free to fail. A token stands for
something to release; a reference ends when an access it excludes happens.

### Backend, IRForm, IR, IRMachine, IRBuild, IRLower, IRPasses, IRReshape, IRPipeline

`Backend` holds the two algorithms with no recursive operator, over plain numbers,
names and sequences, each loop of the code a recursive function of the turns it has
taken. One is the order of the blocks and their dominator tree: `reversePostorder`
opens and finishes blocks one a turn, `buildDominatorTree` repeats rounds until one
changes nothing, and the wasm emitter's `computeDominators` uses the same
`immediateDominators`. The other is the order of the phi copies on an edge
(`writePhiCopies`), which writes the first copy that is ready or parks a value.

`IRForm` is the SSA form and the rewriting every pass is made of, with the memory and
the values of a running module; `IR` is `Verify`. `IRMachine` says what a module does:
integers of `2 * IntLimit` values that wrap, objects in memory, panics, and a fault
for an access outside its object. `IRLower` is lowering (`lower.go`, `control.go`,
`slots.go`). `IRBuild` has the function it holds under construction, its environments
and its loop phis, and what the passes read off a function; `IRPasses` and `IRReshape`
hold the passes themselves, of `Optimize` (inlining, tail recursion, constant folding,
tables, copy propagation, field forwarding, bounds checks, branches, dead code, common
subexpressions) and of `ReshapeForEngine` (loop versioning, rotation). `IRPipeline` is
one program on its way through them, one action a pass, beside what its source tree
means without going through IR.

### WasmEmit, WasmEngine, WasmBinary

`WasmEmit` turns a function of IR into structured code: reverse postorder, the
blocks and loops of `structure.go`, the reads `hoist.go` takes out of loops, the
frame, the phi copies on an edge (in `Backend`'s turns) with their temporaries and
park slots, tagged values in locals. `WasmBinary` encodes it (indices for locals,
depths for labels, LEB128). `WasmEngine` is the engine that runs the result
(external). A loop reads the pointer and the length of an Array it does not change once,
in front of it, and the engine tells a pointer from before an append from one behind
it: every append moves the elements, as one that grows the storage does. What else an
operation on an array, a view or a reference does is left to `IRMachine`; the code for
it is what `WasmContainers` models.

### LLVMText, LLVMEmit

`LLVMText` is a line of LLVM text, the emitter that writes it and the short runs of
lines every operation uses; what clang refuses (`Sound`) and the machine that runs
the lines are its external part. `LLVMEmit` writes a function as such lines. A block
of the IR becomes several where an append, a get, a set, a `try` or a check branches;
blocks are written in the order the function holds them, so a phi names operands and
edges by marks that `resolvePhiPredecessors` fills in at the end. Then returns of a
union are joined (`unifyAggregateReturns`), phis of a union are split by field
(`splitAggregatePhis`), allocas move to the entry block, and `verifyEmittedText` looks
at the result. An Array is its header of three words here, and its growth is the C
runtime's `kizu_array_grow`. `MCIR` takes the module by `INSTANCE`, as it keeps the
names of the source and the wasm backend has some of them too.

### The MC modules

`MCThreadPool`, `MCBuildCache` and `MCWasmRuntime` hold sets, functions and
symmetries; the runs of `EventLoop` and `HttpServer` need a symmetry only, which those
modules define themselves. `MCSyntax`, `MCTypes`, `MCOwnership` and `MCIR` hold
the programs: templates whose holes are filled with every expression of a small
set, and programs written for one rule each. In these the constant operators
(`Parsed`, `Lowered`, `Verdict`, ...) are the module's own operators; they are
constants so that TLC evaluates them once per value. No configuration replaces a
definition.

## Runs

| run | configuration | instance | distinct states |
|---|---|---|---|
| `pool_rounds` | `PoolRounds.cfg` | two helpers, two batches, a one-bit tag, two calls, workers may fail | 1,022,733 |
| `pool_returns` | `PoolReturns.cfg` | two helpers, three batches, a one-bit tag, two calls, no failures | 46,399 |
| `cache_alone` | `CacheAlone.cfg` | one process, three keys, limit 3, two faults, five entries written | 82,945 |
| `cache_shared` | `CacheShared.cfg` | two processes, three keys, limit 3, no fault, three entries written | 524,328 |
| `loop_nested` | `LoopNested.cfg` | three workers, one TaskSet | 1,026,422 |
| `http_serve` | `HttpServe.cfg` | three connections, two admitted, one head ahead, three tokens | 1,044,070 |
| `wasm_runtime` | `WasmRuntime.cfg` | one array, map, arena and box in 480 bytes | 123,455 |
| `own_functions` | `OwnFunctions.cfg` | families of functions, each call failing or not | 10,570 |
| `own_retire` | `OwnRetire.cfg` | one family; a violation is expected | (stops at the violation) |
| `ir_passes` | `IRPasses.cfg` | 477 programs, five inputs each | 11,448 |
| `syntax_fmt` | `Syntax.cfg` | texts over every form of the grammar | 19,750 |
| `types_run` | `Types.cfg` | some seven thousand programs | 36,766 |

**`pool_rounds`** asks what races can do and what a round promises about memory.
With two batches and three threads one thread always comes too late, and with a
tag of one bit (24 in the code) a helper that sleeps through two rounds meets its
own tag again. The shapes are an empty slice, three chunks in two batches with a
short last chunk, and strided lanes. `EveryElementOnce`: on return each element was
written once, or not at all if its item was not started. `LentOnlyDuringRound`,
`NoLostStart`, `NoLostFinish`, the inductive invariant `RoundInv` whose proof is below
(it also says that a stack goes back only once its helper was joined), and
`KeepsPromise`: the pool implements `ForkJoin`. Helpers are symmetric: nothing tells
them apart.

**`pool_returns`** asks whether calls return. No symmetry (it is not sound for
liveness) and no failures: that a failing round's items are all counted is what
`NoLostFinish` and `Inv` show in `pool_rounds`.

**`cache_alone`** puts up to two faults at any call of a lone process.
`HandedPathReal`: what is returned is there when it is used, by the only process; with a
second one it is not so (see *Build cache* below). Two faults, so that a
fault can meet the remains of another. The three sizes (2, 1, 2) and the limit 3
make the runtime object fit beside one executable and not two, so eviction has to
choose.

**`cache_shared`** lets two processes interleave. `NoOrphan`: with no fault, every
artifact is accounted for when nobody is at work, which rests on removing the
entry before the artifact. `QuietFits`: so is the limit, although each process
enforces it on a listing others have changed since. `CacheInv` is the inductive invariant behind `NoOrphan`.
Three entries are written in all: two writers of one key and an eviction between
them.

**`loop_nested`** has three workers, enough for one to stand between the waiter
and the one waited for. `TablesAgree`, `CancelArrives`, `WaitsAnswered` (a wait is told
what ended it), `GivesUpOnlyBelow` (a call gives up only where the worker it waits
for stands below it).

**`http_serve`** has one connection more than the server admits. `TableAgrees`,
`NothingOverlooked` (the server never waits while a request is parsed or could be),
`HandedWhole`, `LingeringEnds`. One head ahead is the least with which a connection
pipelines; a third token lets one be leaked and two still be in use.

**`wasm_runtime`** runs operations of one array, one map, one arena and one box in any
order, with memory growth refused at any allocation. `HeapSound`: the blocks tile
the heap, the free list is ordered and coalesced, each block in use has one
owner. `ArrayHolds`, `MapHolds`: the containers hold what the program was told,
through growth, failed growth and removal. `HandlesResolve`: a handle opens only
the element its arena issued it for.

**`own_functions`** gives families of functions to the ownership checker and runs each
accepted one with each call failing or succeeding. `OwnersGoOnce`, `NothingLeaks`,
`BorrowsExclude`, `HandlesMatch`. The families leave out the shapes in the
disagreements below; **`own_retire`** is one of them, as a run.

**`ir_passes`** compares, for 477 programs and five inputs each, every module on the
way with what the source means: `SameMeaning`, with `Verified` (each intermediate
module satisfies `Verify`), `DominatorsExact` (the tree is the one paths define), and
`BinarySame` for the wasm binary. `NativeSame` says the same of the
LLVM text, and that clang takes it. Both backends get the module optimized and, as
without `--opt`, as it was lowered. Every pass changes some program: inlining most
of them, common subexpressions and rotation more than nine in ten, versioning a
fifth, tail recursion, folding and tables a few each; copy propagation never
does, as lowering leaves no copies. That is a fact of the code as well.

**`syntax_fmt`** formats texts over every form of the grammar, broken over lines and
commented in different ways: `SameTree`, `Settled`, `CommentsStay`. `Known` names the
five disagreements below, and a text that meets one is excused only from the
properties that one breaks.

**`types_run`** checks some seven thousand programs and runs those accepted on each
input. Among them are integer literals on either side of every type's bounds, in each
place a literal may stand; `NeverGoesWrong` tests a value against `InRange`, written
from the types' widths and not from the checker. A generic body is checked only where
it is instantiated, as in `Check`. 78 refused programs, most of them files of
`examples/negative`, stand beside the same program mended. `NeverGoesWrong`, `OnlyPermitted`,
`InstancesWereChecked`, `ExamplesAsTested`.

Deadlock is checked in the pool's and the server's runs: a pool's only end is
`Terminated`, and a server always has a step. In the cache's runs commands stop coming
(`MaxStamps`), in the event loop's the program ends or reaches undefined
behaviour, a compiler's run ends with its program, and the containers' with
their program of operations; there deadlock is not checked.

Every property of a passing run has a mutant: an operator beside the definition
it stands in for, marked `Mutant`, that changes it as a plausible mistake would,
and with which TLC refutes the property.

### Bounds

| constant | bounds | in the code |
|---|---|---|
| `MaxRounds` | calls on a pool | none |
| `TagMod` | values of the tag | 2^24 |
| `BatchesMax` | batches in one round | the width of the ticket's fields |
| `TakesPerThread` | batches per thread | the constant in `kizu_pool_each` |
| `MaxStamps` | entries written | none |
| `MaxFaults` | kills and failing calls | none |
| `MaxAhead` | heads one connection has sent ahead | the Reader's buffer |
| `MaxTokens` | tokens ever made | none |
| `HeapBase`, `PageSize`, `AddressLimit` (128, 64, 480) | linear memory | the data segment's end, 65536, 2^32 |
| `MaxRequest` (160) | the largest request | 2147483640 |
| `FixedCapacity` (104) | the caller's buffer | the caller's choice |
| `IndexFirst`, `IndexLimit` (4, 8), `EntriesFirst`, `EntriesLimit` (2, 160), `GroupWidth` (2) | the map's first and last sizes, control bytes a group | 8 slots, 2^27 - 1; 4 entries, 2^30 - 1 bytes; 8 |
| `MaxInstances`, `MaxElements` (2, 5) | arenas made, elements in each container | none |
| `MaxTurns` (2) | turns of a loop of an accepted function | none |
| `MaxFuel` (4), `MaxInstantiationDepth` (4) | calls and turns in a run; nesting of instances | none; 32 |
| `IntLimit` (8), `ArrayLimit` (4) | integers are -8 .. 7; elements of an array | 2^63; memory |
| `Fuel` (400) | steps of one run | none: a program that does not end means the same as one that runs out on both sides |
| `InlineLimit`, `RotateLimit` (8), `ForwardVisitLimit`, `VersionLimit`, `BranchSubtreeLimit` (64) | the limits the passes have | larger constants in the passes |

The map's sizes make the index grow once and the entries twice within five
elements, so every growth can fail after another succeeded. A loop that runs
twice has had every statement follow every other. Integers of four bits make
overflow, shifts past the width and division of the least number by -1 reachable
with the literals the programs use.

## Fairness

Only `pool_returns` assumes any. `RoundFairness` is what a call needs:

- weak fairness of the caller while it is in a call: a thread that can run is scheduled, and a worker
  returns;
- strong fairness of the caller's mutex operations and of the signal that follows
  a batch: a mutex that is asked for and released again and again is granted in
  the end;
- weak fairness of a helper only while it holds a batch, a signal to send, or the
  mutex.

A helper with nothing in hand may stop for ever, and the call must return all the
same: the code's comments claim so, and `RoundReturns` checks it. Closing joins the helpers, so
`CloseReturns` assumes besides that every helper is scheduled
(`HelpersScheduled`). Nothing is assumed about spurious wakes. The caller is not
required to make calls.

The cache, the loop and the server have no liveness property: a build may take
for ever, a peer may never send, and a worker may never return. The compiler's
components are functions; that they end is that TLC evaluates them.

## Proofs

Seven modules hold theorems, checked by TLAPS for all values of the constants that
satisfy the named assumptions. Each invariant below was checked by TLC as an
invariant of the component's run before it was proved. `PROJECT.json` lists the
theorems; the lemmas under them are stated once and cited by name.

The provers cannot instantiate an induction theorem with a property. Wherever an
argument goes by induction (the total size of a set of entries, an index that
grows entry by entry, a probe that goes on until a free slot, a list of blocks)
it is made about the *least* counterexample instead: a lemma (`Least`, `MinOf`) takes
the smallest member of a set of naturals, and the step that leads up to it gives the
contradiction.

### ThreadPoolProofs

Assumptions: `ThreadsAssumption` (finitely many helpers, the caller not among
them), `LimitsAssumption` (positive batch and tag limits), `FailuresAssumption` and
`ShapesAssumption` (lanes divide the slice, which `each_lane` requires of its caller).

| theorem | property |
|---|---|
| `Invariance` | `Inv` |
| `TypeCorrect` | `TypeOK` |
| `NothingOutlivesRound` | `LentOnlyDuringRound` |
| `AccountsBalance` | `Accounting` |
| `StartNotLost` | `NoLostStart` |
| `FinishNotLost` | `NoLostFinish` |

None of these is inductive. That a thread with a batch is inside the round needs
that `done` cannot reach `items` while somebody holds items, so `AccountInv` says
that claimed, settled and untaken items partition the round and `done` counts the
settled ones; that in turn needs to know what a hand covers (`HandInv`) and that
the batches cover the items with none to spare (`TicketInv`, from arithmetic on
rounding up). That no wake is lost needs the mutex's holder (`LockInv`), who is
counted as asleep (`SleepInv`), and the same claim one step earlier, for threads
that are about to sleep (`WakeInv`). `ScratchInv` ties the scratch runs to the call,
and `StackInv` a helper's stack to its thread.

Each part has a lemma (`LockStep`, `SleepStep`, `WakeStep`, `TicketStep`,
`HandStep`, `AccountStep`, `ScratchStep`, `StackStep`, `TypeStep`) with one step per
action, on top of lemmas about `CeilDiv`, intervals and cardinalities, and frame lemmas that say which
actions leave what alone. `StepInv` puts them together.

A helper that held a stale ticket through exactly `TagMod` rounds would see its
own tag; the proof does not exclude it by assuming that the tag is wide. The
compare-and-swap compares the whole word, and a word that is equal offers a batch
that nobody has taken, so the take is right whichever round the thread believes in.

The rounds of items rest on these and need no further assumption.

| theorem | property |
|---|---|
| `RoundInvariance` | `RoundInv` |
| `ElementsWrittenOnce` | `EveryElementOnce` |
| `ImplementsForkJoin` | `KeepsPromise` |

`RoundInv` adds to `Inv` the fate of each item (`FateInv`: an item that was claimed
is waiting, running or over according to where its holder stands) and the value of
each element (`DataInv`: an element has been worked on as often as the fate of its
one item says). What makes `DataInv` go through is that items are disjoint and
leave nothing out, for chunks and for strided lanes alike, which is arithmetic:
quotient and remainder are unique. The refinement is shown action by action: the
step that takes an item up starts it in `ForkJoin`, the one that finishes it ends it,
the caller's return is the return, and every other step stutters.

### BuildCacheProofs

Assumptions: `KeysAssumption`, `LimitsAssumption`.

| theorem | property |
|---|---|
| `CacheInvariance` | `CacheInv` |
| `CacheTypeCorrect` | `TypeOK` |
| `NothingOrphaned` | `NoOrphan` |
| `LimitKept` | `QuietFits` |
| `HandedPathKept` | `HandedPathReal`, for a lone process and artifacts that each fit the limit |

`NoOrphan` speaks of a cache at rest. `OwedInv` extends it to every state: an
artifact with no entry is *owed* by a process that is about to write the entry
(after its rename) or to remove the artifact (after it removed the entry). The critical step is one process that
removes the entry of a key that another has just placed: the remover then owes
the artifact, and removes it. `CallInv` and
`StampInv` say what a process in the middle of a call knows.

`QuietFits` needs an answer to who will put it right while the entries are over the
limit. `LimitInv` says that some process `Watches`: it is about to list the directory,
or is listing it and has seen or will see every valid entry, or has them all in
its listing. Only a writer can put the entries over, and it goes on to
list them; what others remove meanwhile leaves it nothing to overlook. The sum of
the sizes is `BytesSum`, with `BytesMonotone` for entries that vanish. The theorem,
like the property, is about runs with no fault: a process killed between its
write and its listing leaves the cache over the limit until the next build.

`HandedPathReal` has two hypotheses, and both are the code's. With a second process
another's `enforceLimit` may take the artifact (see the findings). An artifact larger
than the limit is removed by the `enforceLimit` of the very call that returns its path
(`cache.go:230`): entries go, the oldest first, until the rest fits, and the new
one does not fit alone. Otherwise `NewestSpared` shows that the entry just written is
never the victim: everything older goes first, and by then the sum is below the
limit. Faults are allowed anywhere.

### EventLoopProofs

Assumption: `ContextsAssumption` (finitely many workers, neither `Main` nor `None` among
them). Any number of workers and TaskSets, any depth of nested turns.

| theorem | property |
|---|---|
| `LoopInvariance` | `LoopInv` |
| `TablesAlwaysAgree` | `TablesAgree` |
| `CancelsArrive` | `CancelArrives` |
| `WaitsAreAnswered` | `WaitsAnswered` |
| `GivesUpBelow` | `GivesUpOnlyBelow` |

`LoopInv` has a part each for the chain of resumed coroutines (`StackInv`), whose
worker each is (`WorkerInv`), the tables (`TrackInv`), the parks (`ParkInv`), the calls in
progress and that whoever is not at the top has resumed something (`CallInv`), and
what a turn knows (`TurnInv`). The last is the heart of `GivesUpOnlyBelow`: a call
gives up after a turn in which nothing moved, and has to be right that nothing ever
will. `TurnOf` follows such a turn phase by phase: in front of the poll each live
worker is parked or stands on the stack; a poll with nothing to wait for has
settled all parks, and the loop behind it took them; what the reaping walked past
stays. All this is claimed of a turn that has resumed nothing, since a nested turn
may change every table under it. Parts that a freed stack would make
meaningless are claimed while the program is `Intact`.

That a released Loop tracks nobody needs `TreeInv` besides: everybody who is not freed
has a parent, the owner of its Future or the maker of its TaskSet, who has not
returned, and no set of workers contains all its members' parents. So whoever is left
hangs below `Main`, who has nothing. A worker is freed only where it has finished, and
so has no children, because a call that gives up frees one on the stack (`Stalled`).

### HttpServerProofs

Assumptions: `ConnsAssumption`, `BoundsAssumption`.

| theorem | property |
|---|---|
| `ServerInvariance` | `ServerInv` |
| `TheTableAgrees` | `TableAgrees` |
| `NobodyOverlooked` | `NothingOverlooked` |
| `HandsOutWhole` | `HandedWhole` |
| `LingeringIsTheEnd` | `LingeringEnds` |

`Slots`, `Tokens` and `Places` say of the tables that slot and place are inverse to each
other, that a token is of one connection or free once or lost, and that a live
connection is in the table, with the caller, or in the call's hands. `Looked` is why the
server may wait: whoever is in the table has been parsed, and a request that is
whole is among the settled tokens. `CallInv` says what the code relies on at each
place of `wait_for_one`. The operators from tables to tables (`Claim`, `Retire`,
`TakeOut`, `Restore`, ...) have a lemma each for what they keep, and the actions,
which compose them, have a step each on top.

### WasmHeapProofs, WasmContainersProofs

Assumptions: `HeapAssumption` (the base is aligned, the fixed buffer lies below it),
`ContainerAssumption` (sizes are natural numbers and the first ones not zero; a
hash's tag is below 128, as `map.go` takes seven bits) and `ProgramAssumption` (what a
program of operations is).

| theorem | what it says |
|---|---|
| `HeldRealloc` | a reallocation grows in place or moves all it holds, or refuses and leaves it |
| `GetIs` | both lookups answer exactly the entry of a stored key |
| `InsertWordHeld` | an insertion by word stores, or refuses and leaves the map as it was |
| `RemoveHeld` | a removal takes one key and leaves every other with its value |
| `ContainersInvariance` | `ContainersInv` |
| `TheHeapIsSound` | `HeapSound` |
| `TheArrayHolds` | `ArrayHolds` |
| `TheMapHolds` | `MapHolds` |
| `TheHandlesResolve` | `HandlesResolve` |

The *heap* comes first, with no container in sight. `Book` says that the free list is
ordered and coalesced and that free blocks and blocks in use tile the pages. A caller's view is
`Holding(h, O)`: `O` is a set of owners (a role, an allocator, an address, a size)
that are the blocks in use, one each. Each operation of each allocator gets a
lemma in these terms: a grant adds one owner whose block overlaps nobody's, a release removes
one, a reallocation replaces one, a refusal changes nothing; and the
data of all others stay (`Kept`).

The *map* is next. `Filed` says that each entry is in one slot of the index under its
tag, and that no slot on its probe's way is free. From this `GetIs` shows that a probe
which stops at a free slot has overlooked nothing, and that looking by groups of control
bytes answers as slot by slot does. Filing one entry keeps `Filed`
(growth and removal file them all again, from an empty index), and a full index is
never probed, since it is at most three quarters full. `MapHeld` puts the three
structures and the key copies together, beside the blocks of others, and each operation
keeps it, through every refusal.

The *containers* together are `World`: the owners are exactly the array's, arena's,
map's and box's blocks, and each container holds what history says. An
action touches one container, and the lemma about that container's operation
leaves the rest by `Kept`. `ContainersInv` adds that what is absent owns nothing and
that an arena's handles bear its own number (`HandlesOk`): `ArenaSpan` handles
are set aside for each arena, so none resolves in a later one.

### BackendProofs

No assumption on a constant: the theorems are about every graph of blocks, and about
every edge and whatever its copies say.

| theorem | what it says |
|---|---|
| `ReversePostorder` | the search lists exactly the blocks a path reaches, the entry first, none twice, and each other block after one with an edge to it |
| `RoundsSettle` | a round that changes nothing comes within as many rounds as there are pairs of blocks, with every block placed |
| `DominatorTreeExact` | over such an order, climbing the tree arrives at a block exactly if no path misses it |
| `DominatesExact` | `dominates` answers exactly that, for any two blocks of any graph, reachable or not |
| `PhiCopiesAtOnce` | the copies of an edge end, give each phi what its source said when control took the edge, and change nothing else but spares |
| `TradedThroughCasts` | two phis that trade values through sources that are no plain reads are never written |

The hypotheses of `DominatesExact` are what `IR` gives it: `Flow` (edges go to blocks of
the function) holds as `Targets` drops names that are none, and `Mirrors`
(predecessors are the edges the other way round) is `blockPredecessors`. No shape of
graph is assumed, reducible or otherwise.

The *search* (`Visiting`) is followed turn by turn. Open and done blocks are the visited
ones, each once (`Listed`); open blocks lead from the entry, each to the next
(`Chained`); a block that is done has an edge from one open or done after it
(`Followed`), and all its targets are visited (`Explored`). Two turns a block are enough,
as each opens one or finishes one (`Paced`).

The *rounds* need an invariant for the middle of a round, when some blocks have had
their turn and some have not (`Stands`). `Below`: a block is reached from its
immediate dominator through later blocks only. `Kept`: no dominator of a block is missing
from its ancestors, so what a round takes away was none. `Rising`: what the
predecessors of a block have in common lies above its immediate dominator, so that the
next meet can only rise. `Fresh`: an earlier predecessor already has the immediate
dominator of a block that has had its turn among its ancestors. Without the last two a
later meet could fall back, and the loop need not end. `Rising` makes each change
shrink `Room`, the places blocks may still move to, of which there are at most the
pairs of blocks. When a round changes nothing each block has the meet of its
predecessors (`Fixed`), so an ancestor is on every path, by the first place where a
path leaves it out; `Kept` is the other direction.

`DominatorsExact` says the same of the trees in `ir_passes`, with `IR`'s records around them.

The *copies* are over cells (locals, or slots in memory), expressions, and any function
`ev` that gives an expression a value in each state of the cells, as long as the value
depends only on what the expression reads and a plain read gives the cell's (`Edge`).
`Edge` says besides what the emitter's expressions are: each reads one cell at most, a
phi has one copy on an edge (`Verify` refuses another), and no spare is a phi. Several
phis may share a spare, as those of one wasm type do. The invariant is `Underway`: each
of the edge's copies either still waits, and says now what it said at first, or is
made. A copy that is ready changes nothing another reads. When none is ready, as
many phis are read as there are copies and each copy reads one, so each reads exactly
the phi that another assigns (`CirclesOf`): nothing waiting reads a spare, and
parking overwrites no value that is still wanted, however many circles share it.
Each turn lowers `Left`: it makes a copy, or parks a value after which one is ready.

That last step needs the readers of the parked phi to be redirected, and
`writePhiCopies` redirects only a source that *is* the read. So `Edge` has a rank for
each phi that no plain read raises and every other source lowers: no circle passes
through a source that is not a plain read. `TradedThroughCasts` shows the hypothesis is
needed, and finding 2 on the wasm backend below is the program that breaks it.
`BinarySame` runs the same operators inside the emitter on the programs of `ir_passes`.

### Model-checked only

`RoundReturns` and `CloseReturns`: liveness is out of the prover's reach. What the
checkers, the passes, the backends and the formatter compute (`Ownership`,
`IRPipeline`, `Syntax`, `TypesRun` and the modules under them) is written with RECURSIVE operators
over trees, with which the prover loses its arithmetic, so those modules stay with TLC and
its bounded programs. That a pass keeps the meaning of every program is an induction
over programs besides, which the provers cannot do. The dominator tree and the phi
copies could be taken out as a module without recursive operators because they are
over numbers and sequences.

## Findings

One run shows a statement of the repository that its code does not keep.

**`own_retire`**: consuming an owner retires its errdefer, "including the path where
the call that does the move itself fails" (`SPEC.md:502`). `returnTakesErrorPath`
(`internal/ownership/checker.go:1475`) looks at how the returned expression is
written, so `errdefer a.deinit(); return f(move a);` retires nothing, and lowering
runs the errdefers when the union that `f` returned is a failure: `a` is released
twice.

The rest were met while modelling and have no run of their own. The model does
what the code does; programs that meet one are kept out of the instances or, in
`syntax_fmt`, excused by name.

*Thread pool.* `std::thread` says "no chunk starts after it" of a failure
(`thread/thread.kizu:79`); a thread that checked before the failure was recorded
starts one more item. The comment on `kizu_pool_fail` (`runtime.c:4233`) says
batches already taken run to their end; a thread that sees the failure leaves the
rest of its batch.

*Build cache.* "The path handed to the toolchain always names a real file"
(`internal/buildcache/cache_test.go:37`) is true of a lone process; between `stat` and
the command that opens the path another process's `enforceLimit` may remove the
artifact (`cache.go:74`). Prune removes everything (`docs/perf.md:46`), except the
scratch files of killed builds and an artifact whose process was killed before it
wrote the entry (`cache.go:206`).

*Event loop.* "Releasing one finishes the worker first" (`io.kizu:126`): a Future's
owner that was resumed from a turn its own worker made stands above that worker,
and `task_close` frees the stack it is going to return into (`runtime.c:5033`).

*HTTP server.* "The tokens that are neither spare nor retiring are exactly the
connections that are" (`http/server.kizu:575`): when a call fails with an exchange in
hand, `errdefer` closes it and nobody retires its token (`server.kizu:357`); after
`max_connections` such failures the listener is never watched again. "What is
already in hand first, since no wait would mention it" (`server.kizu:541`): over TLS a
request may be in the connection's own buffers, which neither `settled` nor the
poller looks at. The comment on `settle_at` (`server.kizu:622`) says one peer's failure
is not handed up; over TLS the refusal itself may fail, and then it is.

*Ownership checker* (`internal/ownership/checker.go`).
1. An owner with a `defer` that is consumed in a branch that leaves is released
   twice (1412, 3123; `SPEC.md:497`).
2. A whole owner consumed on some arms of a match only is accepted (3871, 3941),
   against `SPEC.md:1667`.
3. A consumed `var` owner reassigned in a branch or loop stays moved after the
   merge, so the new value leaks (2941, 10250; `SPEC.md:1631`).
4. A method with a shared or by-value receiver on a partly consumed value is not
   refused (8625, 8741).
5. Returning a borrowed parameter skips `checkOwnersConsumed` (1549).
6. Reassigning a value that was taken apart leaves `fieldDeinit` set (2941).
7. A match that moves one arm's payload leaves another arm's unbound owner payload
   unreleased (`types/checker.go:822`).
8. By-value owner parameters are not checked when a void function falls off its
   end (801; `SPEC.md:1694`).

*Type checker* (`internal/types`).
1. `inlineTypeName` stops at every generic application, so `struct Node { p: Pair<Node> }`
   with `struct Pair<T> { a: T }` is accepted (`recursion.go:96` against its comment, 10).
2. The rule on raw pointers in structs is not applied to union payloads, or to a
   generic struct instantiated with a pointer.
3. Of the methods that change a container only swap, remove, truncate and clear are
   refused through a shared borrow (`checker.go:8349`; `SPEC.md:3440`).
4. A generic `unsafe fn` called with its type arguments needs no mark (6595).
5. `captureCondition` stays set for calls nested in a condition's arguments and
   inside the bodies they instantiate.
6. The rule on what `Map.get` copies is skipped for every type whose name starts in
   upper case (6388, 8711; `SPEC.md:3450`).
7. A function with static value parameters only can be called without them (7259),
   and its body is then never checked (1479).
8. In an instance `let x: T = v` and `cast<T>(v)` are refused, as the written type is
   not substituted.

*Lowering* (`internal/ir`).
1. Assignments inside the condition of a `while` are not among the loop's assigned
   names (`control.go:516`).
2. `scopeBlockBindings` saves a shadowed name's value where the block begins, so
   `i = 5; let i = 7;` loses the first assignment (`lower.go:1264`).
3. `break` and `continue` carry an inner binding that shadows to the outer phis
   (`control.go:653`).
4. Assignments on the right of `and`, `or`, `orelse` and `catch` leave a value that does
   not dominate; `Verify` refuses the module.
5. The slot of an else branch's error capture is emitted in the then branch's end.

*Wasm backend* (`internal/wasm`).
1. A temporary `%1` and a parameter `v1` have the same symbol (`types.go:192`), and the
   module is refused as having a duplicate local.
2. A circle of copies is broken by parking one phi's value (`control.go:899`), but
   `phiCopyRead` finds a read anywhere in a source (965) and only a source equal to the
   read is redirected (943). Casts are kept as expressions (160), so when two loop
   variables trade values through casts between an integer and a float
   (`let t = cast<i64>(a); a = cast<f64>(b); b = t;`) nothing becomes ready and
   the emitter does not end: `TradedThroughCasts`. Casts between integers of one
   wasm type are the read itself.
3. `phiTempTypes` (`control.go:984`) does not look through casts, so a loop that trades
   an i64 and a u64 parks in a local that is not declared.

*Formatter* (`internal/fmt/fmt.go`, "canonical, stable formatting", line 1).
1. `{ // note` and `}` on the next line: `}` is written behind the comment (606, 633).
2. `a < b >> c` becomes `a<b> > c`, which does not parse (69, 108).
3. A last match arm that ends in `;` without a comma gets one at the start of a new
   line, and the next format moves it (606, 691).
4. Sorting imports moves them past their comments (157, 227).
5. A comment behind several statements of one line stays behind the first.
6. Parser: a missing `>` after a nested generic is accepted (`parser.go:2138`).

## Not modelled

- *Weak memory.* The pool's atomics are relaxed, acquire and release operations; the model
  interleaves them as if they were sequentially consistent.
- *Allocation failure* in the event loop and in the server's arrays. The pool's is
  modelled (`OutOfMemory`, helpers that cannot start), and so is the wasm runtime's.
- *EventLoop*: the blocking Io, where a worker runs to its end inside `async`, and
  coroutines made with bare `std::coro`. A Future that is moved out of its frame.
- *HttpServer*: response framing, bodies beyond whether reading one succeeds,
  `Exchange.next` for blocking callers, `Server.deinit`; the http client and tls, whose
  handshake is specified in `src/spec` (Quint, Lean).
- *BuildCache*: a wall clock that is set back, and the command lines of clang.
- *Front end*: characters inside a word, wording and recovery of diagnostics, the
  move markers `cmd/kizu/fmt.go` inserts; a multi-line string is one line.
- *Type checker*: the primitives only std may name, `std::meta` and comptime, static
  arithmetic, the sources a borrow records.
- *Ownership checker*: tied allocators and futures, views, boxes and strings, generics,
  comptime, labels, array elements.
- *IR*: struct and union literals, cleanups, foreign calls, floats and narrower
  integers.
- *Wasm backend*: cleanups, floats and vectors, indirect calls, structs by value, view
  phis, the wasi file system, opcodes and the byte layout of sections.
- *LLVM backend*: values kept in memory, floats, unions and structs by value, maps,
  arenas, boxes, threads, the C ABI, `main` as C's entry point; `dropUnreachableTails`,
  which only an unconditional `panic` needs.
- *The C runtime's collections*: they share layout and growth with the wasm ones.
- *Self-hosted compiler*: a port of the Go compiler with the same components.
- *Out of reach or of little use here*: cryptography and other algorithms with test
  vectors, thin wrappers of system calls, the command line, project loading.
- *The language server* keeps an analysis for each document, keyed by that document's
  text (`lsp/analysis.go:16`). An edit to another module does not invalidate it, so
  diagnostics there stay until the document itself changes. One thread, one
  writer: a review finds this as easily as a model.

## Plan

Order so far: the thread pool first (every native program may run it, and its
bugs are the hardest to reproduce), its proofs, the build cache and its proof, the
event loop, the HTTP server; then the compiler from the inside out: the wasm
runtime, the ownership checker, the IR and its passes, the wasm backend, the
formatter, the type checker, the LLVM backend.

What was proved came in the same order: the pool's promise and its elements, the
cache's limit and its paths, the loop, the server, the wasm heap and the containers
over it, the dominator tree, and the phi copies.

Next, proofs about the compiler's other components, which declare RECURSIVE operators: a
core without recursion has to be taken out of each first, as `Backend` was out of
`IR` and `WasmEmit`. The candidates are the refiling of tokens by the formatter's line
passes and the joins of the ownership checker's branches.

Then, modules: `HttpExchange` with `reader.kizu` and `chunked.kizu` (a decoder that gives
the same result however its bytes are cut), composed with HttpServer;
`TlsRecord` against an abstract reliable stream; cleanups and struct values in the
IR.
