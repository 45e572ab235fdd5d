----------------------------- MODULE IRPipeline -----------------------------
(***************************************************************************)
(* A program through the compiler: lowering, then with --opt the passes of  *)
(* Optimize (internal/ir/optimize.go), one a step, which for a wasm target  *)
(* end with ReshapeForEngine; then the backend, LLVM text or a wasm binary. *)
(* Without --opt the backend takes the module as it was lowered.            *)
(*                                                                         *)
(* The compiler is a parameter: what it lowers a program to and what each  *)
(* pass makes of a module.  The module is compared after every step with   *)
(* what the source program means on each input, so the first pass that     *)
(* changes a meaning, or leaves a module Verify refuses, is the one named. *)
(***************************************************************************)
EXTENDS IRLower, WasmBinary

(***************************************************************************)
(* What a source program means, stated directly on its nodes: the          *)
(* reference that lowering and every pass are compared with.  Each local   *)
(* is a cell of memory that its name denotes until its block ends, a       *)
(* reference denotes the cell it was made from, operands are evaluated in  *)
(* order, and an exit (a return, a break, a panic) stops everything up to  *)
(* what takes it.  Nothing of blocks, phis, slots or environments is used. *)
(***************************************************************************)
Scalar(type) == type \in {"i64", "bool"}

FunctionOf(program, name) == program[CHOOSE f \in DOMAIN program : program[f].name = name]

\* The place the innermost binding of a name denotes.
PlaceOf(s, x) ==
    LET at == {i \in DOMAIN s.scope : s.scope[i][1] = x}
    IN  s.scope[CHOOSE i \in at : \A j \in at : j <= i][2]

Declare(s, x, n) ==
    [s EXCEPT !.mem = Append(@, <<n>>), !.scope = Append(@, <<x, (Len(s.mem) + 1) * Stride>>)]

Denote(s, x, place) == [s EXCEPT !.scope = Append(@, <<x, place>>)]

Gets(s, n) == [s EXCEPT !.value = n]

Exits(s, how, label) == [s EXCEPT !.exit = how, !.label = label]

Running(s) == s.exit = ""

Address(s, node) ==
    IF node.k = "field" THEN PlaceOf(s, node.es[1].s) + FieldCell(node.s) ELSE PlaceOf(s, node.s)

\* Whether an optional is of integers: a variable's is, and a call's by its type.
OfIntegers(program, node) == node.k = "var" \/ FunctionOf(program, node.s).ret = "?i64"

Absent(program, node) == IF OfIntegers(program, node) THEN Null ELSE 0

\* A capture of a reference denotes what the reference does.
Capture(program, s, node, x, n) ==
    IF node.k = "call" /\ FunctionOf(program, node.s).ret \in {"?&i64", "?&var i64"}
    THEN Denote(s, x, n) ELSE Declare(s, x, n)

RECURSIVE Meaning(_, _, _)
RECURSIVE MeansLoop(_, _, _, _, _)
RECURSIVE Calls(_, _, _, _)

\* Statements in order; the names they declare end with them.
MeansBlock(program, s, stmts) ==
    LET end == FoldHeld(LAMBDA t, node : IF Running(t) THEN Meaning(program, t, node) ELSE t,
                        s, stmts)
    IN  [end EXCEPT !.scope = SubSeq(@, 1, Len(s.scope))]

\* Arguments left to right: a place where a reference or view is taken.
Arguments(program, s, nodes, placed(_)) ==
    LET next(t, i) ==
            IF ~Running(t.s) THEN t
            ELSE IF placed(i) THEN [t EXCEPT !.args = Append(@, Address(t.s, nodes[i]))]
            ELSE LET e == Meaning(program, t.s, nodes[i])
                 IN  [s |-> e, args |-> Append(t.args, e.value)]
    IN  FoldHeld(next, [s |-> s, args |-> <<>>], [i \in DOMAIN nodes |-> i])

Primitive(s, op, type, args) ==
    LET run == Simple([env |-> <<>>, mem |-> s.mem, out |-> s.out, halt |-> "", value |-> 0,
                       at |-> 1, prev |-> 0],
                      Instr(Value("r", type), op, "", <<NoValue, NoValue>>, <<>>), args)
        after == [s EXCEPT !.mem = run.mem, !.out = run.out]
    IN  IF run.halt # "" THEN Exits(after, run.halt, "")
        ELSE Gets(after, IF "r" \in DOMAIN run.env THEN run.env["r"] ELSE 0)

MeansIf(program, s, node) ==
    LET c == Meaning(program, s, node.es[1])
        holds == CASE node.err # "" -> c.value < Failed
                   [] node.err = "" /\ node.cap # "" -> c.value # Absent(program, node.es[1])
                   [] OTHER -> c.value = 1
        bound == CASE holds /\ node.cap # "" -> Capture(program, c, node.es[1], node.cap, c.value)
                   [] ~holds /\ node.err # "" -> Declare(c, node.err, c.value)
                   [] OTHER -> c
        end == MeansBlock(program, bound, IF holds THEN node.body ELSE node.alt)
    IN  IF Running(c) THEN [end EXCEPT !.scope = s.scope] ELSE c

\* The turns of a loop from index i on, at most n of them.
MeansLoop(program, s, node, range, n) ==
    LET c == IF node.k = "for" THEN Gets(s, Truth(range[1] < range[2]))
             ELSE Meaning(program, s, node.es[1])
        again == IF node.cap # "" THEN c.value # Absent(program, node.es[1]) ELSE c.value = 1
        bound == CASE node.k = "for" -> Declare(c, node.s, range[1])
                   [] node.k # "for" /\ node.cap # "" ->
                        Capture(program, c, node.es[1], node.cap, c.value)
                   [] OTHER -> c
        turn == [MeansBlock(program, bound, node.body) EXCEPT !.scope = s.scope]
        mine == turn.label \in {"", node.err}
        next == Exits(turn, "", "")
    IN  CASE n = 0 -> Exits(s, "fuel", "")
          [] ~Running(c) \/ ~again -> c
          [] turn.exit = "break" /\ mine -> next
          [] Running(turn) \/ (turn.exit = "continue" /\ mine) ->
                MeansLoop(program, next, node, <<range[1] + 1, range[2]>>, n - 1)
          [] OTHER -> turn

Calls(program, s, name, args) ==
    LET fn == FunctionOf(program, name)
        enter(t, i) == IF Scalar(fn.params[i].type) THEN Declare(t, fn.params[i].name, args[i])
                       ELSE Denote(t, fn.params[i].name, args[i])
        entered == FoldHeld(enter, [s EXCEPT !.scope = <<>>], [i \in DOMAIN args |-> i])
        end == [MeansBlock(program, entered, fn.body) EXCEPT !.scope = s.scope]
    IN  CASE end.exit = "return" -> Exits(end, "", "")
          [] end.exit = "" -> Gets(end, 0)
          [] OTHER -> end

MeansBinary(program, s, node) ==
    LET l == Meaning(program, s, node.es[1])
        r == Meaning(program, l, node.es[2])
    IN  CASE ~Running(l) -> l
          [] Running(l) /\ ~Running(r) -> r
          [] Running(r) /\ node.s = "binary.<<" /\ r.value < 0 -> Exits(r, "shift_negative", "")
          [] OTHER -> Gets(r, BinaryResult(node.s, "i64", l.value, r.value))

MeansAssign(program, s, node) ==
    LET e == Meaning(program, s, Last(node.es))
        i == Meaning(program, e, node.es[1])
        place == PlaceOf(s, node.s)
        stored(t, address) == [t EXCEPT !.mem = Store(@, address, e.value)]
    IN  CASE ~Running(e) -> e
          [] Running(e) /\ node.k \in {"assign", "assign.deref"} -> stored(e, place)
          [] Running(e) /\ node.k = "assign.field" -> stored(e, place + FieldCell(node.cap))
          [] Running(e) /\ node.k = "assign.index" /\ ~Running(i) -> i
          [] OTHER -> IF InBounds(i.mem, place, i.value) THEN stored(i, place + i.value)
                      ELSE Exits(i, "bounds", "")

\* What an expression whose first operand is e1 does with it.
MeansAfter(program, s, node, e) ==
    CASE node.k = "return" -> Exits(e, "return", "")
      [] node.k = "let" -> Declare(e, node.s, e.value)
      [] node.k = "logical" ->
            IF e.value = (IF node.s = "and" THEN 1 ELSE 0) THEN Meaning(program, e, node.es[2]) ELSE e
      [] node.k = "orelse" ->
            IF e.value = Absent(program, node.es[1]) THEN Meaning(program, e, node.es[2]) ELSE e
      [] node.k = "catch" -> IF e.value >= Failed THEN Meaning(program, e, node.es[2]) ELSE e
      [] node.k = "orelse.guard" ->
            IF e.value = Absent(program, node.es[1]) THEN Meaning(program, e, node.body[1]) ELSE e
      [] node.k = "catch.guard" -> IF e.value >= Failed THEN Meaning(program, e, node.body[1]) ELSE e
      [] node.k = "try" -> IF e.value >= Failed THEN Exits(e, "return", "") ELSE e
      [] node.k = "index" ->
            LET place == PlaceOf(s, node.s) IN
            IF InBounds(e.mem, place, e.value) THEN Gets(e, Load(e.mem, place + e.value))
            ELSE Exits(e, "bounds", "")

Meaning(program, s, node) ==
    CASE node.k \in {"num", "bool"} -> Gets(s, node.n)
      [] node.k = "member" -> Gets(s, Failed + node.n)
      [] node.k = "null" -> Gets(s, Null)
      [] node.k = "var" -> Gets(s, Load(s.mem, PlaceOf(s, node.s)))
      [] node.k = "deref" -> Gets(s, Load(s.mem, PlaceOf(s, node.es[1].s)))
      [] node.k = "field" -> Gets(s, Load(s.mem, Address(s, node)))
      [] node.k \in {"break", "continue"} -> Exits(s, node.k, node.s)
      [] node.k = "return" /\ node.es = <<>> -> Exits(Gets(s, 0), "return", "")
      [] node.k = "if" -> MeansIf(program, s, node)
      [] node.k = "while" -> MeansLoop(program, s, node, <<0, 0>>, Fuel)
      [] node.k = "for" ->
            LET ends == Arguments(program, s, node.es, LAMBDA i : FALSE)
            IN  IF Running(ends.s) THEN MeansLoop(program, ends.s, node, ends.args, Fuel) ELSE ends.s
      [] node.k = "binary" -> MeansBinary(program, s, node)
      [] node.k \in {"assign", "assign.deref", "assign.field", "assign.index"} ->
            MeansAssign(program, s, node)
      [] node.k = "call" ->
            LET params == FunctionOf(program, node.s).params
                t == Arguments(program, s, node.es, LAMBDA i : ~Scalar(params[i].type))
            IN  IF Running(t.s) THEN Calls(program, t.s, node.s, t.args) ELSE t.s
      [] node.k = "primitive" ->
            LET t == Arguments(program, s, node.es, LAMBDA i : i = 1 /\ node.s \notin {"emit", "cast"})
            IN  IF Running(t.s) THEN Primitive(t.s, node.s, node.cap, t.args) ELSE t.s
      [] OTHER ->
            LET e == Meaning(program, s, Last(SubSeq(node.es, 1, IF node.k = "index" THEN 2 ELSE 1)))
            IN  IF Running(e) THEN MeansAfter(program, s, node, e) ELSE e

\* What a run of the program's main on an input is seen to do.
SourceMeaning(program, input) ==
    LET end == Calls(program, [scope |-> <<>>, mem |-> input.mem, out |-> <<>>, exit |-> "",
                               label |-> "", value |-> 0], "main", input.args)
    IN  Observe([halt |-> IF end.exit = "" THEN "return" ELSE end.exit, out |-> end.out,
                 value |-> end.value, mem |-> end.mem], Len(input.mem))

-----------------------------------------------------------------------------
(* The program on its way. *)

CONSTANTS
    Programs,       \* a sequence of source programs
    Inputs,         \* a sequence of [args, mem] their main is run on
    Lowered(_),     \* the module a program is lowered to
    Passed(_, _),   \* the module a pass makes of a module
    Means(_, _),    \* what a program does on an input
    Does(_, _),     \* what a module does on an input
    Emitted(_),     \* the wasm binary of a module
    Executes(_, _), \* what a binary does on an input
    EmittedNative(_),       \* the LLVM text of a module
    ExecutesNative(_, _)    \* what the text does on an input

VARIABLES
    program,    \* which of the programs
    module,     \* the module as the last pass left it
    stage,      \* passes done
    changed,    \* whether the last step changed the module
    meaning,    \* what the program means on each input
    binary,     \* the wasm binary, once emitted
    native      \* the LLVM text, once emitted

vars == <<program, module, stage, changed, meaning, binary, native>>

Schedule == Optimize \o ReshapeForEngine

Init ==
    /\ program \in DOMAIN Programs
    /\ module = <<>>
    /\ stage = 0
    /\ changed = FALSE
    /\ meaning = <<>>
    /\ binary = <<>>
    /\ native = <<>>

LowerProgram ==
    /\ module = <<>>
    /\ module' = Lowered(Programs[program])
    /\ changed' = TRUE
    /\ meaning' = [i \in DOMAIN Inputs |-> Means(Programs[program], Inputs[i])]
    /\ UNCHANGED <<program, stage, binary, native>>

\* The next pass of the schedule, when it is this one.
Run(pass) ==
    /\ module # <<>> /\ binary = <<>> /\ native = <<>>
    /\ stage < Len(Schedule)
    /\ Schedule[stage + 1] = pass
    /\ module' = Passed(pass, module)
    /\ changed' = (module' # module)
    /\ stage' = stage + 1
    /\ UNCHANGED <<program, meaning, binary, native>>

InlineCalls == Run("Inline")
TailRecursion == Run("EliminateTailRecursion")
FoldConstants == Run("ConstantFold")
FoldTables == Run("FoldConstantTables")
PropagateCopies == Run("CopyPropagate")
ForwardFields == Run("ForwardFieldLoads")
DropChecks == Run("EliminateBoundsChecks")
Branches == Run("SimplifyBranches")
DropDead == Run("DeadCodeEliminate")
ShareResults == Run("EliminateCommonSubexpressions")
VersionLoops == Run("VersionLoopsForBounds")
Rotate == Run("RotateLoops")

\* The backend takes the module the last pass left, or without --opt the one
\* lowering made.
EmitWasm ==
    /\ module # <<>> /\ binary = <<>> /\ native = <<>>
    /\ stage \in {0, Len(Schedule)}
    /\ binary' = Emitted(module)
    /\ changed' = FALSE
    /\ UNCHANGED <<program, module, stage, meaning, native>>

\* A native target's module is not reshaped.
EmitNative ==
    /\ module # <<>> /\ binary = <<>> /\ native = <<>>
    /\ stage \in {0, Len(Optimize)}
    /\ native' = EmittedNative(module)
    /\ changed' = FALSE
    /\ UNCHANGED <<program, module, stage, meaning, binary>>

Next ==
    \/ LowerProgram \/ InlineCalls \/ TailRecursion \/ FoldConstants \/ FoldTables
    \/ PropagateCopies \/ ForwardFields \/ DropChecks \/ Branches \/ DropDead
    \/ ShareResults \/ VersionLoops \/ Rotate
    \/ EmitWasm \/ EmitNative

Spec == Init /\ [][Next]_vars

-----------------------------------------------------------------------------

\* Every module the passes produce satisfies Verify: a phi takes one value
\* from each edge into its block, every read is dominated by its definition,
\* and calls, wraps and returns have the types they need.  The code asks this
\* once, of the last module.
Verified == changed => Verify(module)

\* On every input, the module does what the source program means: it returns
\* and prints the same, panics where it does and with the same panic, leaves
\* the caller's objects the same, and no access whose check a pass removed
\* leaves its object.
SameMeaning ==
    changed => \A i \in DOMAIN Inputs : Does(module, Inputs[i]) = meaning[i]

\* The wasm binary does what the source program means, on every input: its
\* branches reach the block they name, the copies of an edge happen as one,
\* none that goes ahead of a test is seen by the arm not taken, what a loop
\* read before it began still holds, tagged values reach their reader whole,
\* and every return gives the stack back as deep as the call found it.
BinarySame ==
    binary # <<>> => \A i \in DOMAIN Inputs : Executes(binary, Inputs[i]) = meaning[i]

\* The LLVM text does what the source program means, on every input, and
\* clang takes it: a phi names the block each edge really comes from, though
\* its block was written before; the fields a phi or a return is split into
\* are put together as they were; an optional reference is null only when
\* absent; every check the IR kept stands, and an array's growth loses none of
\* its elements.
NativeSame ==
    native # <<>> => \A i \in DOMAIN Inputs : ExecutesNative(native, Inputs[i]) = meaning[i]

\* The blocks the entry reaches without passing through the block d.
RECURSIVE ReachedWithout(_, _, _)
ReachedWithout(fn, d, reached) ==
    LET next == reached \cup ({e[2] : e \in {x \in Range(Edges(fn)) : x[1] \in reached}} \ {d})
    IN  IF next = reached THEN reached ELSE ReachedWithout(fn, d, next)

\* The dominator tree every pass trusts is exact: d dominates b in it when,
\* and only when, no path from the entry reaches b without passing d.  And the
\* order is one the rounds need: each block but the first follows one of its
\* predecessors.
DominatorsExact ==
    changed => \A f \in DOMAIN module :
        LET fn == module[f]
            tree == buildDominatorTree(fn, blockPredecessors(fn))
            live == Range(tree.order)
        IN  /\ Ordered(tree.from)
            /\ \A d \in live :
                 {b \in live : dominates(tree, d, b)} =
                 live \ (IF d = 1 THEN {} ELSE ReachedWithout(fn, d, {1}))

=============================================================================
