------------------------------ MODULE IRPasses ------------------------------
(***************************************************************************)
(* The passes every target gets (internal/ir/optimize.go Optimize): inline,*)
(* tail recursion, constants, constant tables, copies, field loads, index  *)
(* checks, branches, dead code.  Each is a function of one module; a fresh *)
(* name is the source's name for it.                                       *)
(***************************************************************************)
EXTENDS IRBuild

CONSTANTS
    InlineLimit,        \* instructions a copied callee may hold
    ForwardVisitLimit   \* blocks walked back from a merge

ASSUME PassesAssumption == InlineLimit \in Nat /\ ForwardVisitLimit \in Nat

Keyed(name, value) == name :> value

-----------------------------------------------------------------------------
(* optimize.go: constants, copies, dead code.                              *)

foldInstr(consts, instr) ==
    IF /\ Len(instr.args) = 2
       /\ integerConstant(consts, instr.args[1]) /\ integerConstant(consts, instr.args[2])
       /\ \/ instr.result.type = "i64" /\ instr.op \in FoldedArithmetic
          \/ instr.result.type = "bool" /\ instr.op \in FoldedComparisons
    THEN [instr EXCEPT !.op = "const", !.args = <<>>,
            !.imm = <<BinaryResult(instr.op, instr.result.type,
                                   consts[instr.args[1].name], consts[instr.args[2].name])>>]
    ELSE instr

\* Folding repeats until a pass over the function folds nothing.
RECURSIVE ConstantFoldIn(_)
ConstantFoldIn(fn) ==
    LET consts == integerConstants(fn)
        next == EachInstr(fn, LAMBDA i : foldInstr(consts, i))
    IN  IF next = fn THEN fn ELSE ConstantFoldIn(next)

ConstantFold(mod) == EachFunction(mod, ConstantFoldIn)

replaceArgs(copies, instr) ==
    LET r(v) == Lookup(copies, v) IN RenameIncoming(Rename(instr, r), r)

\* Copies are read in block order, so a read placed before its copy stays.
CopyPropagateIn(fn) ==
    LET step(s, instr) ==
            LET new == replaceArgs(s.copies, instr)
            IN  [copies |-> IF new.op = "id" /\ Len(new.args) = 1
                            THEN Keyed(new.result.name, new.args[1]) @@ s.copies
                            ELSE s.copies,
                 instrs |-> Append(s.instrs, new)]
        block(s, b) ==
            LET done == FoldHeld(step, [copies |-> s.copies, instrs |-> <<>>], b.instrs)
                term == [b.term EXCEPT !.value = Lookup(done.copies, @),
                                       !.cond = Lookup(done.copies, @)]
            IN  [copies |-> done.copies,
                 blocks |-> Append(s.blocks, Block(b.name, done.instrs, term))]
    IN  [fn EXCEPT !.blocks = FoldHeld(block, [copies |-> <<>>, blocks |-> <<>>], @).blocks]

CopyPropagate(mod) == EachFunction(mod, CopyPropagateIn)

\* One round: what only a removed instruction read stays.
DeadCodeEliminateIn(fn) ==
    LET used == usedValues(fn)
    IN  KeepInstrs(fn, LAMBDA i : hasEffect(i) \/ i.result.name \in used)

DeadCodeEliminate(mod) == EachFunction(mod, DeadCodeEliminateIn)

-----------------------------------------------------------------------------
(* simplify.go. *)

MadeTrue(instr) == [instr EXCEPT !.op = "const", !.args = <<>>, !.imm = <<1>>]

\* A result made by an error.ok without payload cannot fail.
foldKnownResults(fn) ==
    LET made == {i \in Range(Instrs(fn)) : i.op = "error.ok" /\ i.args = <<>>}
        succeeded == {i.result.name : i \in made}
        of(instr) == Len(instr.args) = 1 /\ instr.args[1].name \in succeeded
        kept == KeepInstrs(fn, LAMBDA i :
                    ~(of(i) /\ i.op = "error.try" /\ i.result.type = "void"))
    IN  EachInstr(kept, LAMBDA i : IF of(i) /\ i.op = "error.has" THEN MadeTrue(i) ELSE i)

removeUnreachableBlocks(fn) ==
    LET order == reversePostorder(fn)
        kept == SelectSeq([p \in DOMAIN fn.blocks |-> p], LAMBDA p : Contains(order, p))
        live == {fn.blocks[p].name : p \in Range(order)}
        arriving(instr) ==
            [instr EXCEPT !.incoming = SelectSeq(@, LAMBDA e : e.block \in live)]
    IN  EachInstr([fn EXCEPT !.blocks = [i \in DOMAIN kept |-> @[kept[i]]]], arriving)

simplifyBranchesIn(fn0) ==
    LET fn == foldKnownResults(fn0)
        truths == {i \in Range(Instrs(fn)) : i.op = "const" /\ i.result.type = "bool"}
        known == [n \in {i.result.name : i \in truths} |->
                    (CHOOSE i \in truths : i.result.name = n).imm[1]]
        dead == {b.name : b \in {c \in Range(fn.blocks) :
                                    c.instrs = <<>> /\ c.term.op = "unreachable"}}
        take(f, p) ==
            LET term == f.blocks[p].term
                arm == branchTaken(term, known, dead)
            IN  CASE arm = "neither" -> f
                  [] arm = "then" -> dropIncoming([f EXCEPT !.blocks[p].term = Jump(term.target)],
                                                  term.els, f.blocks[p].name)
                  [] OTHER -> dropIncoming([f EXCEPT !.blocks[p].term = Jump(term.els)],
                                           term.target, f.blocks[p].name)
        taken == FoldHeld(take, fn, [p \in DOMAIN fn.blocks |-> p])
    IN  IF taken = fn THEN fn
        ELSE foldTrivialPhis(removeUnreachableBlocks(taken))

SimplifyBranches(mod) == EachFunction(mod, simplifyBranchesIn)

-----------------------------------------------------------------------------
(* reachable.go and inline.go. *)

directCallees(fn) ==
    LET calls == SelectSeq(Instrs(fn), LAMBDA i : i.op = "call")
    IN  [i \in DOMAIN calls |-> calls[i].of]

\* keepReachableFunctions: the functions the roots reach through direct calls;
\* a module with none of the roots is left alone.
keepReachableFunctions(mod, roots) ==
    LET RECURSIVE closure(_)
        closure(reached) ==
            LET next == reached \cup
                    ((UNION {Range(directCallees(mod[FunctionAt(mod, n)])) : n \in reached})
                     \cap FunctionNames(mod))
            IN  IF next = reached THEN reached ELSE closure(next)
        reachable == closure(roots \cap FunctionNames(mod))
    IN  IF reachable = {} THEN mod ELSE SelectSeq(mod, LAMBDA fn : fn.name \in reachable)

\* Each function after the ones it calls, other than along a cycle, which is
\* entered where module order first reaches it.
RECURSIVE AfterCallees(_, _, _)
AfterCallees(mod, name, order) ==
    IF name \in order.seen THEN order
    ELSE LET calls == SelectSeq(directCallees(mod[FunctionAt(mod, name)]),
                                LAMBDA n : n \in FunctionNames(mod))
             below == FoldHeld(LAMBDA o, n : AfterCallees(mod, n, o),
                               [order EXCEPT !.seen = @ \cup {name}], calls)
         IN  [below EXCEPT !.list = Append(@, name)]

calleeFirstOrder(mod) ==
    FoldHeld(LAMBDA o, fn : AfterCallees(mod, fn.name, o), [seen |-> {}, list |-> <<>>], mod).list

inlinableBody(callee) ==
    LET all == Instrs(callee)
        entry == callee.blocks[1].name
    IN  /\ Len(callee.blocks) = 1 => callee.blocks[1].term.op = "return"
        /\ Len(all) <= InlineLimit
        /\ \A i \in DOMAIN all : all[i].op # "error.try"
                                 /\ ~(all[i].op = "call" /\ all[i].of = callee.name)
        /\ \A p \in DOMAIN callee.blocks :
            LET term == callee.blocks[p].term IN
            /\ entry \notin Range(Successors(term))
            /\ term.op = "return" /\ callee.ret # "void" => term.value.type = callee.ret
        /\ \E p \in DOMAIN callee.blocks : callee.blocks[p].term.op = "return"

inlineCallee(mod, fn, call) ==
    /\ call.op = "call" /\ call.of # fn.name /\ call.of \in FunctionNames(mod)
    /\ LET callee == mod[FunctionAt(mod, call.of)] IN
       /\ callee.ret = call.result.type
       /\ Len(callee.params) = Len(call.args)
       /\ \A i \in DOMAIN call.args : argumentFits(callee.params[i].type, call.args[i].type)
       /\ inlinableBody(callee)

CopyBody(prefix, callee, call) ==
    LET value(v) == CopyValue(prefix, callee, call, v)
        named(name) == IF name = "" THEN "" ELSE prefix \o name
        instr(i) == [i EXCEPT !.result = value(@),
                              !.args = [a \in DOMAIN @ |-> value(@[a])],
                              !.incoming = [e \in DOMAIN @ |->
                                    Incoming(prefix \o @[e].block, value(@[e].value))]]
        term(t) == [t EXCEPT !.value = value(@), !.cond = value(@),
                             !.target = named(@), !.els = named(@)]
    IN  [p \in DOMAIN callee.blocks |->
            LET b == callee.blocks[p] IN
            Block(prefix \o b.name, [i \in DOMAIN b.instrs |-> instr(b.instrs[i])], term(b.term))]

\* A callee of several blocks splits the calling block, and its returns jump
\* to the half after the call.
splitAtInlinedCall(s, body, call) ==
    LET fn == s.fn
        block == fn.blocks[s.block]
        prefix == s.prefix
        cont == prefix \o "cont"
        moved == retargetPhis(fn, block.name, cont, Successors(block.term))
        returns == SelectSeq(body, LAMBDA b : b.term.op = "return")
        in == [i \in DOMAIN returns |-> Incoming(returns[i].name, returns[i].term.value)]
        phi == IF call.result.type # "void" /\ Len(in) # 1 THEN <<Phi(call.result, in)>> ELSE <<>>
        landed == [p \in DOMAIN body |->
                    IF body[p].term.op = "return" THEN [body[p] EXCEPT !.term = Jump(cont)]
                    ELSE body[p]]
        head == [moved.blocks[s.block] EXCEPT !.instrs = SubSeq(@, 1, s.instr - 1),
                                              !.term = Jump(body[1].name)]
        tail == Block(cont, phi \o SubSeq(block.instrs, s.instr + 1, Len(block.instrs)), block.term)
    IN  [s EXCEPT
            !.fn.blocks = SubSeq(moved.blocks, 1, s.block - 1) \o <<head>> \o landed \o <<tail>>
                          \o SubSeq(moved.blocks, s.block + 1, Len(moved.blocks)),
            !.results = IF call.result.type # "void" /\ Len(in) = 1
                        THEN Keyed(call.result.name, in[1].value) @@ @ ELSE @,
            !.block = @ + Len(body) + 1, !.instr = 1]

\* A callee of one block is spliced in where its call was.
SpliceInlinedCall(s, body, call) ==
    LET instrs == s.fn.blocks[s.block].instrs
    IN  [s EXCEPT
            !.fn.blocks[s.block].instrs = SubSeq(instrs, 1, s.instr - 1) \o body[1].instrs
                                          \o SubSeq(instrs, s.instr + 1, Len(instrs)),
            !.results = IF call.result.type # "void"
                        THEN Keyed(call.result.name, body[1].term.value) @@ @ ELSE @,
            !.instr = @ + Len(body[1].instrs)]

\* The scan of a function for calls to copy; the copy is not searched again.
RECURSIVE ScanCalls(_, _)
ScanCalls(mod, s) ==
    IF s.block > Len(s.fn.blocks) THEN s
    ELSE IF s.instr > Len(s.fn.blocks[s.block].instrs)
    THEN ScanCalls(mod, [s EXCEPT !.block = @ + 1, !.instr = 1])
    ELSE LET call == s.fn.blocks[s.block].instrs[s.instr] IN
    IF ~inlineCallee(mod, s.fn, call) THEN ScanCalls(mod, [s EXCEPT !.instr = @ + 1])
    ELSE LET callee == mod[FunctionAt(mod, call.of)]
             prefix == "in" \o ToString(s.site + 1) \o "."
             body == CopyBody(prefix, callee, call)
             at == [s EXCEPT !.site = @ + 1, !.prefix = prefix]
         IN  ScanCalls(mod, IF Len(body) = 1 THEN SpliceInlinedCall(at, body, call)
                            ELSE splitAtInlinedCall(at, body, call))

inlineInto(mod, name) ==
    LET f == FunctionAt(mod, name)
        end == ScanCalls(mod, [fn |-> mod[f], block |-> 1, instr |-> 1, site |-> 0,
                               prefix |-> "", results |-> <<>>])
    IN  [mod EXCEPT ![f] = replaceFunctionValues(end.fn, end.results)]

Inline(mod) ==
    LET returned == EachFunction(mod, returnTriedUnions)
    IN  FoldHeld(inlineInto, returned, calleeFirstOrder(returned))

-----------------------------------------------------------------------------
(* tailcall.go. *)

\* A call, then pure instructions that do not read its result, then one
\* accumulator operation on the result and another value, which is returned.
accumulatedSite(block, c) ==
    LET call == block.instrs[c].result.name
        combine == Last(block.instrs)
        others == SelectSeq(combine.args, LAMBDA v : v.name # call)
    IN  IF /\ combine.result.name = block.term.value.name
           /\ Len(combine.args) = 2 /\ combine.op \in DOMAIN accumulatorOps
           /\ Len(others) = 1
           /\ \A i \in (c + 1)..(Len(block.instrs) - 1) :
                ~hasEffect(block.instrs[i]) /\ \A v \in Range(block.instrs[i].args) : v.name # call
        THEN [found |-> TRUE, call |-> c, op |-> combine.op, other |-> others[1]]
        ELSE NoSite

tailSiteOf(fn, block) ==
    LET calls == {i \in DOMAIN block.instrs :
                    block.instrs[i].op = "call" /\ block.instrs[i].of = fn.name}
        c == CHOOSE i \in calls : \A j \in calls : j <= i
    IN  IF block.term.op # "return" \/ block.term.value.type # fn.ret \/ fn.ret = "void"
           \/ calls = {}
        THEN NoSite
        ELSE IF Len(block.instrs[c].args) # Len(fn.params) THEN NoSite
        ELSE IF c < Len(block.instrs) THEN accumulatedSite(block, c)
        ELSE [NoSite EXCEPT !.found = block.term.value.name = block.instrs[c].result.name,
                            !.call = c]

\* One site becomes a jump to the old entry, its arguments and accumulated
\* value feeding the phis there.
rewriteTailSite(block, site, index, header, acc) ==
    LET kept == SelectSeq([i \in DOMAIN block.instrs |-> i], LAMBDA i :
                    i # site.call /\ block.instrs[i].result.name # block.term.value.name)
        folded == Value("tre.acc.site" \o ToString(index), acc.type)
        fold == IF acc # NoValue /\ site.op # ""
                THEN <<Instr(folded, site.op, "", <<acc, site.other>>, <<>>)>> ELSE <<>>
    IN  [block |-> Block(block.name, [i \in DOMAIN kept |-> block.instrs[kept[i]]] \o fold,
                         Jump(header)),
         args |-> block.instrs[site.call].args,
         acc |-> IF fold = <<>> THEN acc ELSE folded]

\* A new entry before the body; the old entry becomes a loop header whose phis
\* stand for the parameters and the accumulator.
rewriteTailRecursion(fn, op) ==
    LET params == [n \in {fn.params[i].name : i \in DOMAIN fn.params} |->
                    LET p == fn.params[CHOOSE i \in DOMAIN fn.params : fn.params[i].name = n]
                    IN  Value("tre." \o n, p.type)]
        body == replaceFunctionValues(fn, params).blocks
        site == [p \in DOMAIN body |-> tailSiteOf(fn, body[p])]
        sites == SelectSeq([p \in DOMAIN body |-> p], LAMBDA p : site[p].found)
        nth(p) == CHOOSE i \in DOMAIN sites : sites[i] = p
        start == body[1].name
        acc == IF op = "" THEN NoValue ELSE Value("tre.acc.phi", fn.ret)
        identity == Value("tre.acc.identity", fn.ret)
        written == [p \in {sites[i] : i \in DOMAIN sites} |->
                        rewriteTailSite(body[p], site[p], nth(p) - 1, start, acc)]
        combined(p) == Value("tre.acc.ret" \o ToString(p - 1), fn.ret)
        block(p) ==
            CASE site[p].found -> written[p].block
              [] ~site[p].found /\ op # "" /\ body[p].term.op = "return" ->
                    [body[p] EXCEPT
                        !.instrs = Append(@, Instr(combined(p), op, "", <<acc, body[p].term.value>>, <<>>)),
                        !.term.value = combined(p)]
              [] OTHER -> body[p]
        phi(i) == Phi(params[fn.params[i].name],
                      <<Incoming("tre.entry", fn.params[i])>> \o
                      [s \in DOMAIN sites |->
                        Incoming(body[sites[s]].name, written[sites[s]].args[i])])
        phis == [i \in DOMAIN fn.params |-> phi(i)] \o
                (IF op = "" THEN <<>>
                 ELSE <<Phi(acc, <<Incoming("tre.entry", identity)>> \o
                        [s \in DOMAIN sites |->
                            Incoming(body[sites[s]].name, written[sites[s]].acc)])>>)
        entry == Block("tre.entry",
                       IF op = "" THEN <<>>
                       ELSE <<Instr(identity, "const", "", <<>>, <<accumulatorOps[op]>>)>>,
                       Jump(start))
        rest == [p \in DOMAIN body |-> block(p)]
    IN  [fn EXCEPT !.blocks = <<entry>> \o
            [rest EXCEPT ![1] = [@ EXCEPT !.instrs = phis \o @]]]

eliminateTailRecursionIn(fn) ==
    LET sites == {s \in {tailSiteOf(fn, fn.blocks[p]) : p \in DOMAIN fn.blocks} : s.found}
        ops == {s.op : s \in sites} \ {""}
        op == IF ops = {} THEN "" ELSE CHOOSE o \in ops : TRUE
    IN  IF /\ fn.name # "main"
           /\ \A i \in DOMAIN fn.params : isForwardScalar(fn.params[i].type)
           /\ sites # {} /\ Cardinality(ops) <= 1
           /\ op # "" => isWrappingInteger(fn.ret)
        THEN rewriteTailRecursion(fn, op) ELSE fn

EliminateTailRecursion(mod) == EachFunction(mod, eliminateTailRecursionIn)

-----------------------------------------------------------------------------
(* tables.go. *)

TableArithmetic == FoldedArithmetic \cup {"binary.<<"}

\* The constant a block returns, or <<>>: constants of the type and its
\* wrapping arithmetic on them.
evaluateBlock(block, type) ==
    LET adds(s, name, n) == [s EXCEPT !.known = Keyed(name, n) @@ @]
        step(s, instr) ==
            IF instr.op = "const" THEN adds(s, instr.result.name, instr.imm[1])
            ELSE IF Len(instr.args) = 2 /\ instr.op \in TableArithmetic
                    /\ {v.name : v \in Range(instr.args)} \subseteq DOMAIN s.known
            THEN adds(s, instr.result.name,
                      BinaryResult(instr.op, type, s.known[instr.args[1].name],
                                   s.known[instr.args[2].name]))
            ELSE [s EXCEPT !.ok = FALSE]
        end == FoldHeld(step, [ok |-> \A i \in DOMAIN block.instrs :
                                            block.instrs[i].result.type = type,
                               known |-> <<>>], block.instrs)
    IN  IF end.ok /\ block.term.value.name \in DOMAIN end.known
        THEN <<end.known[block.term.value.name]>> ELSE <<>>

\* One link of the chain: compare the parameter with the next integer, return
\* a constant on a match, and otherwise go on through an empty block.
RECURSIVE TableFrom(_, _, _)
TableFrom(fn, block, values) ==
    IF block.term.op = "return"
    THEN LET last == evaluateBlock(block, fn.ret)
         IN  IF last = <<>> \/ values = <<>> THEN <<>> ELSE values \o last
    ELSE IF ~comparesParamWith(fn, block, Len(values)) THEN <<>>
    ELSE LET then == fn.blocks[At(fn, block.term.target)]
             other == fn.blocks[At(fn, block.term.els)]
             value == IF then.term.op = "return" THEN evaluateBlock(then, fn.ret) ELSE <<>>
         IN  IF value = <<>> \/ other.instrs # <<>> \/ other.term.op # "jump" THEN <<>>
             ELSE TableFrom(fn, fn.blocks[At(fn, other.term.target)], values \o value)

constantTable(fn) ==
    IF Len(fn.params) = 1 /\ fn.params[1].type = "i64" /\ fn.ret \in {"i64", "u64"}
    THEN TableFrom(fn, fn.blocks[1], <<>>) ELSE <<>>

foldConstantTable(fn) ==
    LET values == constantTable(fn)
        result == Value(Last(fn.blocks).term.value.name, fn.ret)
    IN  IF values = <<>> THEN fn
        ELSE [fn EXCEPT !.blocks =
                <<Block(fn.blocks[1].name,
                        <<Instr(result, "table.get", "", <<fn.params[1]>>, values)>>,
                        Return(result))>>]

FoldConstantTables(mod) == EachFunction(mod, foldConstantTable)

-----------------------------------------------------------------------------
(* forward.go.  A fact is <<reference name, struct, field, value>>. *)

\* The blocks on paths into p from its immediate dominator: those reached
\* backwards from its predecessors without passing it or going on from p.
RECURSIVE Backwards(_, _, _, _, _)
Backwards(preds, p, idom, from, visited) ==
    LET here == from \ (visited \cup {idom})
        next == UNION {Range(preds[q]) : q \in here \ {p}}
    IN  IF here = {} THEN visited ELSE Backwards(preds, p, idom, next, visited \cup here)

Between(preds, p, idom) == Backwards(preds, p, idom, Range(preds[p]), {})

\* A block starts with what its immediate dominator ended with, less what any
\* path from there may have written.
inheritedFacts(fn, preds, p, idom, facts) ==
    LET between == Between(preds, p, idom)
        written(known, q) == FoldHeld(forgetWrites, known, fn.blocks[q].instrs)
    IN  IF facts = {} \/ preds[p] = <<idom>> THEN facts
        ELSE IF Cardinality(between) > ForwardVisitLimit THEN {}
        ELSE FoldHeld(written, facts, SetToSeq(between))

\* A read either finds its value known and is replaced, or becomes known.
forwardInstr(s, instr) ==
    LET ref == instr.args[1]
        of == derefType(ref.type)
        known == {f \in s.facts : f[1] = ref.name /\ f[2] = of /\ f[3] = instr.of}
        value(v) == Resolve(s.replacements, v)
    IN  CASE instr.op = "field.ref.set" ->
                [s EXCEPT !.facts = forgetWrites(@, instr) \cup
                    IF isForwardScalar(instr.args[2].type)
                    THEN {<<ref.name, of, instr.of, value(instr.args[2])>>} ELSE {}]
          [] instr.op = "field.ref" /\ ~isForwardScalar(instr.result.type) -> s
          [] instr.op = "field.ref" /\ known # {} ->
                [s EXCEPT !.replacements =
                    Keyed(instr.result.name, (CHOOSE f \in known : TRUE)[4]) @@ @]
          [] instr.op = "field.ref" ->
                [s EXCEPT !.facts = @ \cup {<<ref.name, of, instr.of, instr.result>>}]
          [] OTHER -> [s EXCEPT !.facts = forgetWrites(@, instr)]

forwardFieldLoadsIn(fn) ==
    LET preds == blockPredecessors(fn)
        tree == buildDominatorTree(fn, preds)
        visit(s, p) ==
            LET start == IF p = 1 THEN {}
                         ELSE inheritedFacts(fn, preds, p, Idom(tree, p), s.ends[Idom(tree, p)])
                done == FoldHeld(forwardInstr, [facts |-> start, replacements |-> s.replacements],
                                 fn.blocks[p].instrs)
            IN  [ends |-> (p :> done.facts) @@ s.ends, replacements |-> done.replacements]
        end == FoldHeld(visit, [ends |-> <<>>, replacements |-> <<>>], tree.order)
    IN  replaceFunctionValues(fn, end.replacements)

ForwardFieldLoads(mod) == EachFunction(mod, forwardFieldLoadsIn)

-----------------------------------------------------------------------------
(* bounds.go. *)

\* The counters the step named n feeds.
Fed(defs, counters, n) ==
    {c \in counters : \E in \in Range(defs[c].incoming) :
        in.value.name = n /\ stepOf(defs, in.value) # ""}

learnCondition(defs, plan, facts, cond, holds) ==
    IF cond.name \notin DOMAIN defs THEN facts
    ELSE LET instr == defs[cond.name] IN
    IF Len(instr.args) # 2 THEN facts
    ELSE IF instr.args[1].type # "i64" THEN facts
    ELSE LET left == resolvedName(plan, instr.args[1].name)
             right == resolvedName(plan, instr.args[2].name)
             op == IF holds THEN instr.op ELSE negatedComparison(instr.op)
         IN  CASE op = "binary.<" -> [facts EXCEPT !.less = @ \cup {<<left, right>>}]
               [] op = "binary.>" -> [facts EXCEPT !.less = @ \cup {<<right, left>>}]
               [] op = "binary.>=" /\ nonNegativeConstant(defs, instr.args[2]) ->
                    [facts EXCEPT !.nonneg = @ \cup {left}]
               [] op = "binary.<=" /\ nonNegativeConstant(defs, instr.args[1]) ->
                    [facts EXCEPT !.nonneg = @ \cup {right}]
               [] OTHER -> facts

learnEdge(defs, plan, facts, term, target) ==
    IF term.op # "branch" \/ term.target = term.els THEN facts
    ELSE learnCondition(defs, plan, facts, term.cond, term.target = target)

\* A check goes when its failing condition cannot hold; one that stays
\* teaches that it does not.
visitCondFail(w, s, at, instr) ==
    LET c == instr.args[1].name
        cond == w.defs[c]
        ordered == c \in DOMAIN w.defs /\ Len(cond.args) = 2 /\ cond.args[1].type = "i64"
        pair == <<resolvedName(s.plan, cond.args[1].name), resolvedName(s.plan, cond.args[2].name)>>
    IN  IF ordered /\ \/ cond.op = "binary.<" /\ IsConstant(w.defs, cond.args[2], 0)
                         /\ nonNegative(w, s, cond.args[1])
                      \/ cond.op = "binary.>=" /\ pair \in s.facts.less
        THEN [s EXCEPT !.plan.drops = @ \cup {at}]
        ELSE [s EXCEPT !.facts = learnCondition(w.defs, s.plan, @, instr.args[1], FALSE)]

\* A length read stands for the equal one read before it.
visitLength(w, s, instr) ==
    LET container == instr.args[1].name
        known == IF instr.op = "slice.len" THEN s.facts.viewLength ELSE s.facts.length
        more == Keyed(container, instr.result)
    IN  IF container \in DOMAIN known
        THEN [s EXCEPT !.plan.aliases = Keyed(instr.result.name, known[container]) @@ @]
        ELSE IF instr.op = "slice.len" THEN [s EXCEPT !.facts.viewLength = more @@ @]
        ELSE [s EXCEPT !.facts.length = more @@ @]

\* A step of a counter is safe where the counter is below a known bound.
visitStep(w, s, instr) ==
    LET fed == Fed(w.defs, w.counters, instr.result.name)
    IN  IF fed # {} /\ ~hasUpperBound(s.facts, stepOf(w.defs, instr.result))
        THEN [s EXCEPT !.plan.unsafe = @ \cup fed] ELSE s

visitBounds(w, s, at, instr) ==
    CASE instr.op = "cond_fail" -> visitCondFail(w, s, at, instr)
      [] instr.op \in {"array.len", "slice.len"} -> visitLength(w, s, instr)
      [] instr.op \in {"array.get_or_panic", "array.set", "array.at", "array.at_mut"} ->
            visitArrayCheck(w, s, at, instr)
      [] instr.op = "binary.+" -> visitStep(w, s, instr)
      [] leavesHeaders(instr.op) -> s
      [] OTHER -> [s EXCEPT !.facts = forgetHeaders(@)]

pathsMayWriteHeaders(fn, preds, p, idom) ==
    LET between == Between(preds, p, idom)
    IN  \/ Cardinality(between) > ForwardVisitLimit
        \/ \E q \in between : \E instr \in Range(fn.blocks[q].instrs) : ~leavesHeaders(instr.op)

\* One walk down the dominator tree, w being what it reads and never changes.
walk(w) ==
    LET fn == w.fn
        start(s, p) ==
            LET idom == Idom(w.tree, p)
                facts == s.ends[idom]
            IN  IF p = 1 THEN NothingKnown
                ELSE IF w.preds[p] = <<idom>>
                THEN learnEdge(w.defs, s.plan, facts, fn.blocks[idom].term, fn.blocks[p].name)
                ELSE IF pathsMayWriteHeaders(fn, w.preds, p, idom) THEN forgetHeaders(facts)
                ELSE facts
        visit(s, p) ==
            LET instrs == fn.blocks[p].instrs
                done == FoldHeld(LAMBDA r, i : visitBounds(w, r, <<p, i>>, instrs[i]),
                                 [facts |-> start(s, p), plan |-> s.plan],
                                 [i \in DOMAIN instrs |-> i])
            IN  [ends |-> (p :> done.facts) @@ s.ends, plan |-> done.plan]
        nothing == [drops |-> {}, answered |-> {}, aliases |-> <<>>, unsafe |-> {}]
    IN  FoldHeld(visit, [ends |-> <<>>, plan |-> nothing], w.tree.order).plan

\* The function is walked again without the counters a step was not safe for.
RECURSIVE Plan(_, _)
Plan(w, excluded) ==
    LET plan == walk([w EXCEPT !.counters = loopCounters(w.defs, excluded)])
    IN  IF plan.unsafe = {} THEN plan ELSE Plan(w, excluded \cup plan.unsafe)

\* What an Array operation with an answered check becomes.
answeredAccess(instr, prefix) ==
    LET array == instr.args[1]
        index == instr.args[2]
        mutable == instr.op = "array.set"
        borrow == Value(prefix \o "at", IF mutable THEN "?&var i64" ELSE "?&i64")
        ref == Value(prefix \o "ref", IF mutable THEN "&var i64" ELSE "&i64")
        opened == Instr(ref, "opt.value", "", <<borrow>>, <<>>)
    IN  CASE instr.op \in {"array.at", "array.at_mut"} -> <<instr>>
          [] instr.op = "array.get_or_panic" ->
                <<Instr(borrow, "array.at", "", <<array, index>>, <<>>), opened,
                  Instr(instr.result, "ref.load", "", <<ref>>, <<>>)>>
          [] OTHER ->
                <<Instr(borrow, "array.at_mut", "", <<array, index>>, <<>>), opened,
                  Instr(Value("", "void"), "ref.store", "", <<ref, instr.args[3]>>, <<>>),
                  Instr(instr.result, "error.ok", "", <<>>, <<>>)>>

applyBoundsPlan(fn0, plan) ==
    LET fn == replaceFunctionValues(fn0, plan.aliases)
        \* The answered accesses are numbered in block order.
        site(at) == Cardinality({a \in plan.answered :
                        a[1] < at[1] \/ (a[1] = at[1] /\ a[2] <= at[2])})
        becomes(at, instr) ==
            CASE at \in plan.drops -> <<>>
              [] at \in plan.answered ->
                    answeredAccess(instr, "bce" \o ToString(site(at)) \o ".")
              [] OTHER -> <<instr>>
        present == {fn.blocks[a[1]].instrs[a[2]].result.name : a \in
                    {b \in plan.answered :
                        fn.blocks[b[1]].instrs[b[2]].op \in {"array.at", "array.at_mut"}}}
        written == [fn EXCEPT !.blocks = [p \in DOMAIN @ |->
                        [@[p] EXCEPT !.instrs =
                            FlattenSeq([i \in DOMAIN @ |-> becomes(<<p, i>>, @[i])])]]]
    IN  EachInstr(written, LAMBDA i :
            IF i.op = "opt.has" /\ i.args[1].name \in present THEN MadeTrue(i) ELSE i)

eliminateBoundsChecksIn(fn) ==
    LET preds == blockPredecessors(fn)
        w == [fn |-> fn, defs |-> Defs(fn), preds |-> preds, counters |-> {},
              tree |-> buildDominatorTree(fn, preds)]
    IN  applyBoundsPlan(fn, Plan(w, {}))

EliminateBoundsChecks(mod) == EachFunction(mod, eliminateBoundsChecksIn)

=============================================================================
