--------------------------------- MODULE IR ---------------------------------
(***************************************************************************)
(* What internal/ir/verify.go asks of a module of IR: Verify.              *)
(***************************************************************************)
EXTENDS IRForm

Definitions(fn) ==
    {<<p, i>> \in UNION {{<<q, j>> : j \in DOMAIN fn.blocks[q].instrs} : q \in DOMAIN fn.blocks} :
        fn.blocks[p].instrs[i].result.name # ""}

\* valueDefiningBlocks: where each result is defined; a later definition of
\* the same name would replace an earlier one.
valueDefiningBlocks(fn) ==
    LET defs == Definitions(fn)
        name(d) == fn.blocks[d[1]].instrs[d[2]].result.name
    IN  [n \in {name(d) : d \in defs} |->
            CHOOSE d \in defs : name(d) = n /\ \A e \in defs : name(e) = n =>
                e[1] < d[1] \/ (e[1] = d[1] /\ e[2] <= d[2])]

\* A phi takes one value from each edge into its block and none from elsewhere.
phiEdges(fn, preds, p, instr) ==
    LET named == [i \in DOMAIN instr.incoming |-> instr.incoming[i].block]
        from == [i \in DOMAIN preds[p] |-> fn.blocks[preds[p][i]].name]
    IN  /\ Range(named) = Range(from)
        /\ Len(named) = Len(from)

\* What a phi takes is defined on every path to the block it arrives from.
phiIncomingDominates(fn, tree, defined, instr) ==
    \A i \in DOMAIN instr.incoming :
        LET in == instr.incoming[i] IN
        in.value.name \in DOMAIN defined /\ HasBlock(fn, in.block) =>
            dominates(tree, defined[in.value.name][1], At(fn, in.block))

dominatesUse(tree, defined, p, step, operand) ==
    operand.name \in DOMAIN defined =>
        LET d == defined[operand.name] IN
        IF d[1] = p THEN d[2] < step ELSE dominates(tree, d[1], p)

\* lendsSharedBorrow included: a `&var T` fills a `&T`.
argumentFits(want, got) ==
    \/ want = got
    \/ want \in ReferenceTypes \ MutableReferenceTypes /\ got \in MutableReferenceTypes
       /\ derefType(want) = derefType(got)

callFits(mod, instr) ==
    instr.op = "call" =>
        \A f \in DOMAIN mod :
            mod[f].name = instr.of /\ Len(mod[f].params) = Len(instr.args) =>
                \A i \in DOMAIN instr.args :
                    argumentFits(mod[f].params[i].type, instr.args[i].type)

successOf(union) == IF union = "E!i64" THEN "i64" ELSE "void"

ErrorUnions == {"E!i64", "E!void"}

successWrap(instr) ==
    instr.op = "error.ok" /\ instr.result.type \in ErrorUnions /\ Len(instr.args) = 1 =>
        instr.args[1].type = successOf(instr.result.type)

terminatorFits(fn, term) ==
    /\ term.op # ""
    /\ \A i \in DOMAIN Successors(term) : HasBlock(fn, Successors(term)[i])
    /\ term.op = "return" /\ term.value.type # "" => term.value.type = fn.ret

verifyFunction(mod, fn) ==
    LET preds == blockPredecessors(fn)
        tree == buildDominatorTree(fn, preds)
        defined == valueDefiningBlocks(fn)
    IN  \A p \in DOMAIN fn.blocks :
            LET block == fn.blocks[p] IN
            /\ terminatorFits(fn, block.term)
            /\ \A i \in DOMAIN block.instrs :
                LET instr == block.instrs[i] IN
                /\ callFits(mod, instr) /\ successWrap(instr)
                /\ IF instr.op = "phi"
                   THEN phiEdges(fn, preds, p, instr)
                        /\ phiIncomingDominates(fn, tree, defined, instr)
                   ELSE \A a \in DOMAIN instr.args :
                            dominatesUse(tree, defined, p, i, instr.args[a])
            /\ \A operand \in {block.term.cond, block.term.value} :
                dominatesUse(tree, defined, p, Len(block.instrs) + 1, operand)

Verify(mod) == \A f \in DOMAIN mod : verifyFunction(mod, mod[f])

=============================================================================
