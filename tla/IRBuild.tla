------------------------------ MODULE IRBuild -------------------------------
(***************************************************************************)
(* What the passes of IRPasses read off a function (constants, uses,       *)
(* counters, bounds) with their small edits (a phi that merges one value,  *)
(* an edge taken away); and the lowerer of IRLower (internal/ir/lower.go,  *)
(* control.go): the function under construction, its environment of names  *)
(* and the phis of loops.                                                  *)
(***************************************************************************)
EXTENDS IRMachine

Lookup(map, v) == IF v.name \in DOMAIN map THEN map[v.name] ELSE v

-----------------------------------------------------------------------------
(* optimize.go: constants, copies, dead code.                              *)

\* recordConstant, over a function: the i64 constants.
integerConstants(fn) ==
    LET all == SelectSeq(Instrs(fn), LAMBDA i : i.op = "const" /\ i.result.type = "i64")
    IN  [n \in {all[i].result.name : i \in DOMAIN all} |->
            (all[CHOOSE i \in DOMAIN all : all[i].result.name = n]).imm[1]]

integerConstant(consts, v) == v.type = "i64" /\ v.name \in DOMAIN consts

FoldedArithmetic == {"binary.+", "binary.-", "binary.*", "binary.&", "binary.|", "binary.^"}

FoldedComparisons ==
    {"binary.<", "binary.<=", "binary.>", "binary.>=", "binary.==", "binary.!="}

usedValues(fn) ==
    UNION {LET b == fn.blocks[p] IN
           {b.term.value.name, b.term.cond.name} \cup
           UNION {LET instr == b.instrs[i] IN
                  {v.name : v \in Range(instr.args)} \cup
                  {in.value.name : in \in Range(instr.incoming)} : i \in DOMAIN b.instrs}
           : p \in DOMAIN fn.blocks}

-----------------------------------------------------------------------------
(* simplify.go.                                                            *)

\* The one incoming of a phi that arrived on an edge no longer taken.
dropIncoming(fn, target, from) ==
    LET drop(instr) ==
            IF instr.op # "phi" THEN instr
            ELSE [instr EXCEPT !.incoming =
                    LET hit == {i \in DOMAIN @ : @[i].block = from}
                    IN  IF hit = {} THEN @
                        ELSE RemoveAt(@, CHOOSE i \in hit : \A j \in hit : i <= j)]
    IN  [fn EXCEPT !.blocks = [p \in DOMAIN @ |->
            IF @[p].name # target THEN @[p]
            ELSE [@[p] EXCEPT !.instrs = [i \in DOMAIN @ |-> drop(@[i])]]]]

\* The values a phi merges besides itself.
Merged(phi) == {in.value : in \in Range(phi.incoming)}

trivialPhi(instr) ==
    /\ instr.op = "phi"
    /\ Cardinality({v.name : v \in Merged(instr)} \ {instr.result.name}) = 1

trivialPhiValue(instr) == CHOOSE v \in Merged(instr) : v.name # instr.result.name

RECURSIVE foldTrivialPhis(_)
foldTrivialPhis(fn) ==
    LET trivial == {i \in Range(Instrs(fn)) : trivialPhi(i)}
        replacements == [n \in {i.result.name : i \in trivial} |->
                            trivialPhiValue(CHOOSE i \in trivial : i.result.name = n)]
        kept == KeepInstrs(fn, LAMBDA i : ~trivialPhi(i))
    IN  IF trivial = {} THEN fn
        ELSE foldTrivialPhis(replaceFunctionValues(kept, replacements))

\* The arm a branch always takes: the one its constant condition names, or
\* the one opposite an arm that is nothing but `unreachable`.
branchTaken(term, known, dead) ==
    CASE term.op # "branch" -> "neither"
      [] term.cond.name \in DOMAIN known -> IF known[term.cond.name] = 1 THEN "then" ELSE "else"
      [] term.els \in dead /\ term.target \notin dead -> "then"
      [] term.target \in dead /\ term.els \notin dead -> "else"
      [] OTHER -> "neither"

-----------------------------------------------------------------------------
(* reachable.go and inline.go. *)

FunctionNames(mod) == {mod[f].name : f \in DOMAIN mod}

\* A block that tries a union of the function's own type and then returns
\* success returns the union.
returnTriedUnions(fn) ==
    LET returned(b) ==
            LET n == Len(b.instrs) IN
            IF /\ b.term.op = "return" /\ n >= 2
               /\ b.instrs[n].op = "error.ok" /\ b.instrs[n].args = <<>>
               /\ b.instrs[n].result.name = b.term.value.name
               /\ b.instrs[n - 1].op = "error.try" /\ b.instrs[n - 1].result.type = "void"
               /\ b.instrs[n - 1].args[1].type = fn.ret
            THEN [b EXCEPT !.instrs = SubSeq(@, 1, n - 2), !.term.value = b.instrs[n - 1].args[1]]
            ELSE b
    IN  [fn EXCEPT !.blocks = [p \in DOMAIN @ |-> returned(@[p])]]

\* bodyCopier: the callee's parameters become the call's arguments, and what
\* its body defines gains the site's prefix.
CopyValue(prefix, callee, call, v) ==
    LET param == {i \in DOMAIN callee.params : callee.params[i].name = v.name}
    IN  IF param # {} THEN call.args[CHOOSE i \in param : TRUE]
        ELSE IF v.name \in DOMAIN Defs(callee) THEN Value(prefix \o v.name, v.type)
        ELSE v

\* The edges keep the name of the block that was split.
RetargetNone(fn, from, to, successors) == fn

\* The edges that moved with a split block's terminator.
retargetPhis(fn, from, to, successors) ==
    [fn EXCEPT !.blocks = [p \in DOMAIN @ |->
        IF @[p].name \notin Range(successors) THEN @[p]
        ELSE [@[p] EXCEPT !.instrs = [i \in DOMAIN @ |->
                [@[i] EXCEPT !.incoming = [e \in DOMAIN @ |->
                    IF @[e].block = from THEN [@[e] EXCEPT !.block = to] ELSE @[e]]]]]]]

-----------------------------------------------------------------------------
(* tailcall.go. *)

\* The operations a tail call's result may be combined with, and where each
\* accumulation starts.
accumulatorOps == ("binary.+" :> 0) @@ ("binary.*" :> 1) @@ ("binary.|" :> 0) @@ ("binary.^" :> 0)

NoSite == [found |-> FALSE, call |-> 0, op |-> "", other |-> NoValue]

-----------------------------------------------------------------------------
(* tables.go. *)

comparesParamWith(fn, block, key) ==
    /\ block.term.op = "branch" /\ Len(block.instrs) = 2
    /\ LET constant == block.instrs[1]
           compare == block.instrs[2]
       IN  /\ constant.op = "const" /\ constant.result.type = "i64" /\ constant.imm = <<key>>
           /\ compare.op = "binary.=="
           /\ compare.args[1].name = fn.params[1].name
           /\ compare.args[2].name = constant.result.name
           /\ block.term.cond.name = compare.result.name

-----------------------------------------------------------------------------
(* forward.go.  A fact is <<reference name, struct, field, value>>. *)

\* What an instruction may change: one field of every struct of its type, or
\* with anything else that is not pure, everything.
forgetWrites(facts, instr) ==
    IF instr.op = "field.ref.set"
    THEN IF ~isForwardScalar(instr.args[2].type) THEN {}
         ELSE {f \in facts : ~(f[2] = derefType(instr.args[1].type) /\ f[3] = instr.of)}
    ELSE IF hasEffect(instr) THEN {} ELSE facts

-----------------------------------------------------------------------------
(* bounds.go. *)

constantKnown(defs, v) == v.type = "i64" /\ v.name \in DOMAIN defs /\ defs[v.name].op = "const"

\* Defined where constantKnown is TRUE.
constantValue(defs, v) == defs[v.name].imm[1]

nonNegativeConstant(defs, v) == constantKnown(defs, v) /\ constantValue(defs, v) >= 0

IsConstant(defs, v, n) == constantKnown(defs, v) /\ constantValue(defs, v) = n

\* The name a `+ 1` step adds one to, or "".
stepOf(defs, v) ==
    IF v.name \notin DOMAIN defs THEN ""
    ELSE LET instr == defs[v.name] IN
         CASE instr.op # "binary.+" \/ instr.result.type # "i64" -> ""
           [] IsConstant(defs, instr.args[2], 1) -> instr.args[1].name
           [] IsConstant(defs, instr.args[1], 1) -> instr.args[2].name
           [] OTHER -> ""

countsUp(defs, counters, phi) ==
    \A in \in Range(phi.incoming) :
        nonNegativeConstant(defs, in.value) \/ stepOf(defs, in.value) \in counters

\* The i64 phis each of whose incoming is a constant that is not negative or
\* a step of one from such a phi.
RECURSIVE dropCounters(_, _)
dropCounters(defs, counters) ==
    LET kept == {n \in counters : countsUp(defs, counters, defs[n])}
    IN  IF kept = counters THEN counters ELSE dropCounters(defs, kept)

loopCounters(defs, excluded) ==
    dropCounters(defs, {n \in DOMAIN defs :
        defs[n].op = "phi" /\ defs[n].result.type = "i64"} \ excluded)

leavesHeaders(op) ==
    op \in PureOps \cup {"cond_fail", "array.set", "array.get_or_panic", "slice.store",
                         "field.ref.set"}

NothingKnown ==
    [less |-> {}, nonneg |-> {}, length |-> <<>>, viewLength |-> <<>>, checked |-> {}]

forgetHeaders(facts) == [facts EXCEPT !.length = <<>>, !.checked = {}]

negatedComparison(op) ==
    CASE op = "binary.<" -> "binary.>="
      [] op = "binary.>=" -> "binary.<"
      [] op = "binary.>" -> "binary.<="
      [] op = "binary.<=" -> "binary.>"
      [] OTHER -> ""

\* resolvedName: through the length aliases the walk has made.
resolvedName(plan, n) == Resolve(plan.aliases, Value(n, "i64")).name

\* A counter's step is safe wherever it stands.
AlwaysBounded(facts, n) == TRUE

hasUpperBound(facts, n) == \E pair \in facts.less : pair[1] = n

nonNegative(w, s, v) ==
    LET n == resolvedName(s.plan, v.name)
    IN  \/ n \in s.facts.nonneg \/ n \in w.counters
        \/ nonNegativeConstant(w.defs, v)
        \/ n \in DOMAIN w.defs /\ w.defs[n].op \in {"array.len", "slice.len"}

visitArrayCheck(w, s, at, instr) ==
    LET array == instr.args[1]
        index == instr.args[2]
        key == <<array.name, index.name>>
        answered ==
            \/ key \in s.facts.checked
            \/ /\ nonNegative(w, s, index)
               /\ array.name \in DOMAIN s.facts.length
               /\ <<resolvedName(s.plan, index.name),
                    resolvedName(s.plan, s.facts.length[array.name].name)>> \in s.facts.less
    IN  [s EXCEPT
            !.plan.answered = IF answered /\ array.type \in ReferenceTypes THEN @ \cup {at} ELSE @,
            !.facts.checked = IF instr.op \in {"array.get_or_panic", "array.set"}
                              THEN @ \cup {key} ELSE @]

-----------------------------------------------------------------------------
(* What a walk over the source finds (slots.go, control.go).               *)

RECURSIVE RootName(_)
RootName(node) ==
    CASE node.k = "var" -> node.s
      [] node.k = "field" -> RootName(node.es[1])
      [] OTHER -> ""

-----------------------------------------------------------------------------
(* The lowerer: the blocks made, the current one, what each name holds.    *)
(* Every operator below returns the lowerer after it, with the value of    *)
(* what it lowered in the field value.                                     *)

emitOf(l, op, of, type, args, imm) ==
    LET v == Value("v" \o ToString(l.nextValue + 1), type)
    IN  [l EXCEPT !.nextValue = @ + 1, !.value = v,
                  !.blocks[l.block].instrs = Append(@, Instr(v, op, of, args, imm))]

emit(l, op, type, args) == emitOf(l, op, "", type, args, <<>>)

emitConst(l, type, n) == emitOf(l, "const", "", type, <<>>, <<n>>)

addPhi(l, p, type, incoming) ==
    LET v == Value("v" \o ToString(l.nextValue + 1), type)
    IN  [l EXCEPT !.nextValue = @ + 1, !.value = v,
                  !.blocks[p].instrs = Append(@, Phi(v, incoming))]

\* One new block for each prefix, numbered with every other block.
newBlocks(l, prefixes) ==
    [l EXCEPT !.nextBlock = @ + Len(prefixes),
              !.blocks = @ \o [i \in DOMAIN prefixes |->
                Block(prefixes[i] \o "." \o ToString(l.nextBlock + i), <<>>, Open)]]

Current(l) == l.blocks[l.block]
NameOf(l, p) == l.blocks[p].name
Ended(l) == Current(l).term.op # ""

Into(l, p) == [l EXCEPT !.block = p]
Ends(l, term) == [l EXCEPT !.blocks[l.block].term = term]
JumpsTo(l, p) == IF Ended(l) THEN l ELSE Ends(l, Jump(NameOf(l, p)))

Bound(env, x) == x \in DOMAIN env
Bind(env, x, v) == (x :> v) @@ env
Unbind(env, x) == Restrict(env, DOMAIN env \ {x})

\* restoreBranchVar: the outer meaning of a scoped name, from before.
Restored(env, x, before) ==
    IF Bound(before, x) THEN Bind(env, x, before[x]) ELSE Unbind(env, x)

optionalElem(type) ==
    CASE type = "?i64" -> "i64" [] type = "?&i64" -> "&i64" [] OTHER -> "&var i64"

\* slotPointer: a name with storage, other than the index of a `for`.
hasSlot(l, x) ==
    x \in l.slots /\ Bound(l.env, x) /\ l.env[x].name \notin l.forIndexes

\* condFail
condFail(l, op, left, right, kind, values) ==
    LET bad == emit(l, op, "bool", <<left, right>>)
    IN  [bad EXCEPT !.blocks[l.block].instrs =
            Append(@, Instr(NoValue, "cond_fail", kind, <<bad.value>> \o values, <<>>))]

\* checkIndexInRange: one comparison of the two read unsigned.
checkIndexInRange(l, index, length) ==
    LET i == emit(l, "cast", "u64", <<index>>)
        n == emit(i, "cast", "u64", <<length>>)
    IN  condFail(n, "binary.>=", i.value, n.value, "bounds", <<index, length>>)

-----------------------------------------------------------------------------
(* Loops: the edges back and out, and the phis that meet them. *)

Edge(l) == [block |-> NameOf(l, l.block), env |-> l.env]

\* findLoop: the innermost, or the innermost with the label.
findLoop(l, label) ==
    LET named == {i \in DOMAIN l.loops : label = "" \/ l.loops[i].label = label}
    IN  CHOOSE i \in named : \A j \in named : j <= i

lowerLoopBranch(l, kind, label) ==
    LET i == findLoop(l, label)
        loop == l.loops[i]
    IN  IF kind = "continue"
        THEN Ends([l EXCEPT !.loops[i].continueEdges = Append(@, Edge(l))],
                  Jump(loop.continueTo))
        ELSE Ends([l EXCEPT !.loops[i].breakEdges = Append(@, Edge(l))], Jump(loop.breakTo))

\* A header phi for each name the body assigns, entered from the preheader.
createLoopPhis(l, header, assigned) ==
    LET names == SetToSeq({x \in assigned : Bound(l.env, x)})
        make(s, x) ==
            LET phi == addPhi(s, header, s.env[x].type,
                              <<Incoming(NameOf(l, l.block), s.env[x])>>)
            IN  [phi EXCEPT !.env = Bind(@, x, phi.value)]
    IN  FoldHeld(make, l, names)

\* What x holds on each of the edges.
loopIncoming(x, edges) ==
    LET held == SelectSeq(edges, LAMBDA e : Bound(e.env, x))
    IN  [i \in DOMAIN held |-> Incoming(held[i].block, held[i].env[x])]

AddIncoming(l, p, phi, incoming) ==
    [l EXCEPT !.blocks[p].instrs = [i \in DOMAIN @ |->
        IF @[i].result = phi THEN [@[i] EXCEPT !.incoming = @ \o incoming] ELSE @[i]]]

\* The exit merges the test's false edge with each break.
finishLoopExitPhis(l, exit, phis, test, breakEdges) ==
    LET finish(s, x) ==
            LET incoming == <<Incoming(test, phis[x])>> \o loopIncoming(x, breakEdges)
                phi == addPhi(s, exit, phis[x].type, incoming)
            IN  IF Len(incoming) = 1 THEN s ELSE [phi EXCEPT !.env = Bind(@, x, phi.value)]
    IN  IF breakEdges = <<>> THEN l ELSE FoldHeld(finish, l, SetToSeq(DOMAIN phis))

-----------------------------------------------------------------------------
(* Expressions and statements. *)

\* checkShiftAmount
shiftChecked(s, node) ==
    IF node.s # "binary.<<" \/ node.es[2].k = "num" THEN s.l
    ELSE LET zero == emitConst(s.l, "i64", 0)
         IN  condFail(zero, "binary.<", s.args[2], zero.value, "shift_negative", <<>>)

\* A `return;`, and running off the end of a body.
returnVoidValue(l) ==
    IF l.ret = "E!void"
    THEN LET ok == emit(l, "error.ok", l.ret, <<>>) IN Ends(ok, Return(ok.value))
    ELSE Ends(l, Return(VoidValue))

=============================================================================
