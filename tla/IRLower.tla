------------------------------- MODULE IRLower -------------------------------
(***************************************************************************)
(* Lowering from the checked source to IR (internal/ir/lower.go,           *)
(* control.go, slots.go), for functions over i64, bool, ?i64, E!i64, E!void,*)
(* a lent struct S, a lent Array<i64> and a view of i64, without cleanups. *)
(*                                                                         *)
(* The source is a tree of nodes of one shape: k says what the node is, s  *)
(* is its name, operator or label, n its number, es its expressions in     *)
(* order, body and alt the statements it nests, cap and err its captures.  *)
(***************************************************************************)
EXTENDS IRReshape

Node(k, s, es) ==
    [k |-> k, s |-> s, n |-> 0, es |-> es, body |-> <<>>, alt |-> <<>>, cap |-> "", err |-> ""]

-----------------------------------------------------------------------------
(* What a walk over the source finds (slots.go, control.go).               *)

Nested(node) == node.es \o node.body \o node.alt

\* collectAssigned: an assignment rebinds the root of its target.
RECURSIVE collectAssigned(_)
collectAssigned(node) ==
    (IF node.k \in {"assign", "assign.field", "assign.deref"} THEN {node.s} ELSE {})
    \cup UNION {collectAssigned(child) : child \in Range(Nested(node))}

\* Only the body of a loop is walked, and not its condition.
assignedNames(body) == UNION {collectAssigned(node) : node \in Range(body)}

\* collectMutBorrows: the names handed to a `&var` parameter.
RECURSIVE mutablyBorrowed(_, _)
mutablyBorrowed(sigs, node) ==
    (IF node.k = "call"
     THEN {RootName(node.es[i]) : i \in {j \in DOMAIN node.es :
                sigs[node.s].params[j].type \in MutableReferenceTypes}}
     ELSE {})
    \cup UNION {mutablyBorrowed(sigs, child) : child \in Range(Nested(node))}

-----------------------------------------------------------------------------
(* The lowerer: the blocks made, the current one, what each name holds.    *)
(* Every operator below returns the lowerer after it, with the value of    *)
(* what it lowered in the field value.                                     *)

\* bindLocal and bindCapture: a lent scalar is given storage where it is bound.
bindLocal(l, x, v) ==
    IF x \in l.slots /\ v.type \notin ReferenceTypes
    THEN LET s == emit(l, "local.slot", "&var i64", <<v>>)
         IN  [s EXCEPT !.env = Bind(@, x, s.value)]
    ELSE [l EXCEPT !.env = Bind(@, x, v)]

\* mergeEnvs: a phi for each name the two branches left different.
mergeEnvs(l, p, from1, left, from2, right) ==
    LET differs == SetToSeq({x \in DOMAIN left \cap DOMAIN right : left[x] # right[x]})
        merge(s, x) ==
            LET phi == addPhi(s, p, left[x].type,
                              <<Incoming(from1, left[x]), Incoming(from2, right[x])>>)
            IN  [phi EXCEPT !.env = Bind(@, x, phi.value)]
    IN  FoldHeld(merge, [l EXCEPT !.env = left @@ right], differs)

-----------------------------------------------------------------------------
(* Loops: the edges back and out, and the phis that meet them. *)

\* With a latch (0 for none) the edges are merged there first.
closeLoopPhis(l, header, phis, latch, edges) ==
    LET close(s, x) ==
            LET incoming == loopIncoming(x, edges)
                merged == IF Len(incoming) > 1 THEN addPhi(s, latch, phis[x].type, incoming)
                          ELSE [s EXCEPT !.value = IF incoming = <<>> THEN phis[x]
                                                   ELSE incoming[1].value]
                closed == IF latch = 0 THEN AddIncoming(s, header, phis[x], incoming)
                          ELSE AddIncoming(merged, header, phis[x],
                                    <<Incoming(NameOf(s, latch), merged.value)>>)
            IN  [closed EXCEPT !.env = Bind(@, x, phis[x])]
    IN  FoldHeld(close, l, SetToSeq(DOMAIN phis))

-----------------------------------------------------------------------------
(* Expressions and statements. *)

RECURSIVE lowerExpr(_, _)
RECURSIVE lowerBlockBody(_, _, _)
RECURSIVE lowerStmt(_, _)

\* lowerReceiverAddress and lendStorage: the place a name or a field path
\* denotes, for a position that wants its address.
lowerPlace(l, node) ==
    IF node.k = "field"
    THEN LET root == l.env[RootName(node)] IN emitOf(l, "field.addr", node.s, "&var i64", <<root>>, <<>>)
    ELSE [l EXCEPT !.value = l.env[node.s]]

\* lowerContextualExpr: an address where a reference is wanted, an optional
\* made of a plain value, a borrow read where its value is wanted.
lowerContextualExpr(l, node, want) ==
    IF want \in ReferenceTypes THEN lowerPlace(l, node)
    ELSE IF node.k = "null" THEN emit(l, "opt.null", want, <<>>)
    ELSE LET e == lowerExpr(l, node) IN
         CASE want = "?i64" /\ e.value.type = "i64" -> emit(e, "opt.some", want, <<e.value>>)
           [] e.value.type \in ReferenceTypes /\ derefType(e.value.type) = want ->
                emit(e, "ref.load", want, <<e.value>>)
           [] OTHER -> e

lowerArgs(l, nodes, params) ==
    LET next(s, i) ==
            LET e == lowerContextualExpr(s.l, nodes[i], params[i].type)
            IN  [l |-> e, args |-> Append(s.args, e.value)]
    IN  FoldHeld(next, [l |-> l, args |-> <<>>], [i \in DOMAIN nodes |-> i])

\* A literal is lowered after the operand it takes its type from.
lowerBinaryOperands(l, left, right) ==
    IF left.k = "num" /\ right.k # "num"
    THEN LET r == lowerExpr(l, right)
             c == lowerExpr(r, left)
         IN  [l |-> c, args |-> <<c.value, r.value>>]
    ELSE LET a == lowerExpr(l, left)
             b == lowerExpr(a, right)
         IN  [l |-> b, args |-> <<a.value, b.value>>]

lowerBinaryExpr(l, node) ==
    LET s == lowerBinaryOperands(l, node.es[1], node.es[2])
    IN  emit(shiftChecked(s, node), node.s,
             IF node.s \in FoldedComparisons THEN "bool" ELSE "i64", s.args)

\* `and` and `or` branch around their right operand.
lowerLogicalExpr(l, node) ==
    LET left == lowerExpr(l, node.es[1])
        made == newBlocks(left, <<"logical.right", "logical.const", "logical.end">>)
        right == Len(left.blocks) + 1
        const == right + 1
        end == right + 2
        arms == IF node.s = "and" THEN <<right, const>> ELSE <<const, right>>
        branched == Ends(made, Branch(left.value, NameOf(made, arms[1]), NameOf(made, arms[2])))
        value == lowerExpr(Into(branched, right), node.es[2])
        skipped == emitConst(Into(JumpsTo(value, end), const), "bool", IF node.s = "and" THEN 0 ELSE 1)
    IN  addPhi(Into(JumpsTo(skipped, end), end), end, "bool",
               <<Incoming(NameOf(value, value.block), value.value),
                 Incoming(NameOf(made, const), skipped.value)>>)

\* lowerOrelseExpr and lowerCatchExpr: presence or success branches, and a
\* phi takes the payload or the fallback.
lowerFallbackExpr(l, node) ==
    LET opened == lowerExpr(l, node.es[1])
        union == node.k = "catch"
        elem == IF union THEN successOf(opened.value.type) ELSE optionalElem(opened.value.type)
        has == emit(opened, IF union THEN "error.has" ELSE "opt.has", "bool", <<opened.value>>)
        made == newBlocks(has, IF union THEN <<"catch.ok", "catch.else", "catch.end">>
                               ELSE <<"orelse.some", "orelse.else", "orelse.end">>)
        some == Len(has.blocks) + 1
        else == some + 1
        end == some + 2
        branched == Into(Ends(made, Branch(has.value, NameOf(made, some), NameOf(made, else))), some)
        payload == IF elem = "void" THEN branched
                   ELSE emit(branched, IF union THEN "error.value" ELSE "opt.value", elem,
                             <<opened.value>>)
        fallback == lowerContextualExpr(Into(JumpsTo(payload, end), else), node.es[2], elem)
        joined == Into(JumpsTo(fallback, end), end)
    IN  IF elem = "void" THEN [joined EXCEPT !.value = VoidValue]
        ELSE addPhi(joined, end, elem,
                    <<Incoming(NameOf(made, some), payload.value),
                      Incoming(NameOf(fallback, fallback.block), fallback.value)>>)

\* lowerCatchGuardExpr and lowerOrelseGuardExpr: the failing arm leaves and
\* never rejoins.
lowerGuardExpr(l, node) ==
    LET opened == lowerExpr(l, node.es[1])
        union == node.k = "catch.guard"
        elem == IF union THEN successOf(opened.value.type) ELSE optionalElem(opened.value.type)
        has == emit(opened, IF union THEN "error.has" ELSE "opt.has", "bool", <<opened.value>>)
        made == newBlocks(has, IF union THEN <<"catch.ok", "catch.exit">>
                               ELSE <<"guard.some", "guard.exit">>)
        some == Len(has.blocks) + 1
        branched == Ends(made, Branch(has.value, NameOf(made, some), NameOf(made, some + 1)))
        left == Into(lowerStmt(Into(branched, some + 1), node.body[1]), some)
    IN  IF elem = "void" THEN [left EXCEPT !.value = VoidValue]
        ELSE emit(left, IF union THEN "error.value" ELSE "opt.value", elem, <<opened.value>>)

\* lowerIndexExpr, over a view.
lowerIndexExpr(l, node) ==
    LET view == lowerExpr(l, node.es[1])
        index == lowerExpr(view, node.es[2])
        length == emit(index, "slice.len", "i64", <<view.value>>)
    IN  emit(checkIndexInRange(length, index.value, length.value), "slice.index", "i64",
             <<view.value, index.value>>)

\* lowerIfCondition: the test and the payloads, which are read before it.
lowerIfCondition(l, node) ==
    LET cond == lowerExpr(l, node.es[1])
        type == cond.value.type
        value == IF node.cap = "" THEN cond
                 ELSE IF node.err # "" THEN emit(cond, "error.value", successOf(type), <<cond.value>>)
                 ELSE emit(cond, "opt.value", optionalElem(type), <<cond.value>>)
        code == IF node.err = "" THEN value ELSE emit(value, "error.code", "E", <<cond.value>>)
        test == IF node.err # "" THEN emit(code, "error.has", "bool", <<cond.value>>)
                ELSE IF node.cap # "" THEN emit(code, "opt.has", "bool", <<cond.value>>)
                ELSE cond
    IN  [l |-> test, cond |-> test.value, payload |-> value.value, error |-> code.value]

\* lowerCaptureBranch and lowerBranchBlock: a branch lowered with its own
\* environment; its capture ends with it.
lowerCaptureBranch(l, p, stmts, end, capture, payload, wantValue) ==
    LET bound == IF capture = "" THEN l ELSE bindLocal(l, capture, payload)
        done == lowerBlockBody(Into(bound, p), stmts, wantValue)
    IN  [l |-> [JumpsTo(done, end) EXCEPT !.env = l.env],
         env |-> IF capture = "" THEN done.env ELSE Restored(done.env, capture, l.env),
         end |-> NameOf(done, done.block), reachable |-> ~Ended(done), value |-> done.value]

\* lowerIfStmt and lowerIfExpr: branches, a merge of what they assigned, and
\* for a value a phi over what each side produced.
lowerIf(l, node, wantValue) ==
    LET test == lowerIfCondition(l, node)
        made == newBlocks(test.l, <<"if.then", "if.else", "if.end">>)
        then == Len(test.l.blocks) + 1
        end == then + 2
        branched == Ends(made, Branch(test.cond, NameOf(made, then), NameOf(made, then + 1)))
        one == lowerCaptureBranch(branched, then, node.body, end, node.cap, test.payload, wantValue)
        two == lowerCaptureBranch(one.l, then + 1, node.alt, end, node.err, test.error, wantValue)
        at == Into(two.l, end)
        merged == CASE one.reachable /\ two.reachable ->
                            mergeEnvs(at, end, one.end, one.env, two.end, two.env)
                    [] one.reachable /\ ~two.reachable -> [at EXCEPT !.env = one.env]
                    [] ~one.reachable /\ two.reachable -> [at EXCEPT !.env = two.env]
                    [] OTHER -> Ends(at, Unreachable)
        produced == SelectSeq(<<one, two>>, LAMBDA b : b.reachable)
    IN  IF ~wantValue THEN merged
        ELSE addPhi(merged, end, produced[1].value.type,
                    [i \in DOMAIN produced |-> Incoming(produced[i].end, produced[i].value)])

lowerExpr(l, node) ==
    CASE node.k = "num" -> emitConst(l, "i64", node.n)
      [] node.k = "bool" -> emitConst(l, "bool", node.n)
      [] node.k = "member" -> emitConst(l, "E", node.n)
      [] node.k = "var" ->
            IF hasSlot(l, node.s)
            THEN emit(l, "ref.load", derefType(l.env[node.s].type), <<l.env[node.s]>>)
            ELSE [l EXCEPT !.value = l.env[node.s]]
      [] node.k = "binary" -> lowerBinaryExpr(l, node)
      [] node.k = "logical" -> lowerLogicalExpr(l, node)
      [] node.k \in {"orelse", "catch"} -> lowerFallbackExpr(l, node)
      [] node.k \in {"orelse.guard", "catch.guard"} -> lowerGuardExpr(l, node)
      [] node.k = "if" -> lowerIf(l, node, TRUE)
      [] node.k = "call" ->
            LET s == lowerArgs(l, node.es, l.sigs[node.s].params)
            IN  emitOf(s.l, "call", node.s, l.sigs[node.s].ret, s.args, <<>>)
      \* lowerTypedContainerPrimitive, and a call of a foreign function
      [] node.k = "primitive" ->
            LET s == lowerArgs(l, node.es, [i \in DOMAIN node.es |->
                        [type |-> IF node.es[i].k = "var" THEN l.env[node.es[i].s].type ELSE "i64"]])
            IN  emit(s.l, node.s, node.cap, s.args)
      [] node.k = "field" ->
            LET s == lowerPlace(l, node.es[1])
            IN  emitOf(s, "field.ref", node.s, "i64", <<s.value>>, <<>>)
      [] node.k = "deref" ->
            LET s == lowerExpr(l, node.es[1])
            IN  IF s.value.type \in ReferenceTypes
                THEN emit(s, "ref.load", derefType(s.value.type), <<s.value>>) ELSE s
      [] node.k = "index" -> lowerIndexExpr(l, node)
      [] node.k = "try" ->
            LET s == lowerExpr(l, node.es[1])
            IN  emit(s, "error.try", successOf(s.value.type), <<s.value>>)

\* lowerReturnStmt: a success is wrapped, a member becomes the failure, a
\* union of the function's own type is returned as it is.
lowerReturnStmt(l, node) ==
    LET want == IF l.ret \in ErrorUnions THEN successOf(l.ret) ELSE l.ret
        e == lowerContextualExpr(l, node.es[1], want)
        type == e.value.type
        wrapped == CASE l.ret \in ErrorUnions /\ type = successOf(l.ret) ->
                            emit(e, "error.ok", l.ret, IF type = "void" THEN <<>> ELSE <<e.value>>)
                     [] l.ret \in ErrorUnions /\ type = "E" ->
                            emit(e, "error.error", l.ret, <<e.value>>)
                     [] OTHER -> e
    IN  Ends(wrapped, Return(wrapped.value))

\* lowerAssignTarget, by the kind of target.
lowerAssignStmt(l, node) ==
    CASE node.k = "assign" ->
            LET e == lowerContextualExpr(l, node.es[1], derefType(l.env[node.s].type))
            IN  IF hasSlot(e, node.s)
                THEN emit(e, "ref.store", "void", <<e.env[node.s], e.value>>)
                ELSE [e EXCEPT !.env = Bind(@, node.s, e.value)]
      [] node.k = "assign.field" ->
            LET e == lowerContextualExpr(l, node.es[1], "i64")
            IN  emitOf(e, "field.ref.set", node.cap, "void", <<e.env[node.s], e.value>>, <<>>)
      [] node.k = "assign.deref" ->
            LET e == lowerContextualExpr(l, node.es[1], "i64")
            IN  emit(e, "ref.store", "void", <<e.env[node.s], e.value>>)
      \* lowerIndexAssign: the value, then the view, the index and its check.
      [] node.k = "assign.index" ->
            LET e == lowerContextualExpr(l, node.es[2], "i64")
                view == e.env[node.s]
                index == lowerExpr(e, node.es[1])
                length == emit(index, "slice.len", "i64", <<view>>)
            IN  emit(checkIndexInRange(length, index.value, length.value), "slice.store", "void",
                     <<view, index.value, e.value>>)

\* lowerLoop, with the parts `while` and `for` differ in: what the header
\* tests, and for `for` the latch that advances the index.
lowerLoop(l, node, start, limit) ==
    LET ranged == node.k = "for"
        made == newBlocks(l, IF ranged THEN <<"for.header", "for.body", "for.step", "for.end">>
                             ELSE <<"while.header", "while.body", "while.end">>)
        header == Len(l.blocks) + 1
        body == header + 1
        latch == IF ranged THEN header + 2 ELSE 0
        exit == Len(made.blocks)
        entered == Ends(made, Jump(NameOf(made, header)))
        phied == Into(createLoopPhis(entered, header, assignedNames(node.body)), header)
        phis == [x \in {y \in assignedNames(node.body) : Bound(l.env, y)} |-> phied.env[x]]
        \* the header of `for`
        indexed == addPhi(phied, header, "i64", <<Incoming(NameOf(l, l.block), start)>>)
        index == indexed.value
        counted == emit([indexed EXCEPT !.env = Bind(@, node.s, index),
                                        !.forIndexes = @ \cup {index.name}],
                        "binary.<", "bool", <<index, limit>>)
        \* the header of `while`
        cond == lowerExpr(phied, node.es[1])
        opened == emit(cond, "opt.value", optionalElem(cond.value.type), <<cond.value>>)
        captured == emit(bindLocal(opened, node.cap, opened.value), "opt.has", "bool", <<cond.value>>)
        tested == IF ranged THEN counted ELSE IF node.cap # "" THEN captured ELSE cond
        branched == Ends(tested, Branch(tested.value, NameOf(made, body), NameOf(made, exit)))
        back == IF ranged THEN latch ELSE header
        loop == [label |-> node.err, breakTo |-> NameOf(made, exit),
                 continueTo |-> NameOf(made, back), breakEdges |-> <<>>, continueEdges |-> <<>>]
        ran == lowerBlockBody(Into([branched EXCEPT !.loops = Append(@, loop)], body), node.body, FALSE)
        popped == [ran EXCEPT !.loops = Front(@)]
        edges == (IF Ended(ran) THEN <<>> ELSE <<Edge(ran)>>) \o Last(ran.loops).continueEdges
        returned == JumpsTo(popped, back)
        closed == closeLoopPhis(IF ranged THEN Into(returned, latch) ELSE returned,
                                header, phis, latch, edges)
        one == emitConst(closed, "i64", 1)
        next == emit(one, "binary.+", "i64", <<index, one.value>>)
        advanced == IF ranged
                    THEN AddIncoming(Ends(next, Jump(NameOf(made, header))), header, index,
                                     <<Incoming(NameOf(made, latch), next.value)>>)
                    ELSE closed
    IN  finishLoopExitPhis(Into(advanced, exit), exit, phis, NameOf(tested, tested.block),
                           Last(ran.loops).breakEdges)

\* The loop variable or capture means what it meant before once the loop ends.
lowerWhileStmt(l, node) ==
    LET done == lowerLoop(l, node, NoValue, NoValue)
    IN  IF node.cap = "" THEN done ELSE [done EXCEPT !.env = Restored(@, node.cap, l.env)]

lowerForStmt(l, node) ==
    LET start == lowerExpr(l, node.es[1])
        limit == lowerExpr(start, node.es[2])
        done == lowerLoop(limit, node, start.value, limit.value)
    IN  [done EXCEPT !.env = Restored(@, node.s, limit.env)]

lowerStmt(l, node) ==
    CASE node.k = "let" ->
            LET e == lowerExpr(l, node.es[1]) IN bindLocal(e, node.s, e.value)
      [] node.k \in {"assign", "assign.field", "assign.deref", "assign.index"} ->
            lowerAssignStmt(l, node)
      [] node.k = "return" ->
            IF node.es = <<>> THEN returnVoidValue(l) ELSE lowerReturnStmt(l, node)
      [] node.k \in {"break", "continue"} -> lowerLoopBranch(l, node.k, node.s)
      [] node.k = "if" -> lowerIf(l, node, FALSE)
      [] node.k = "while" -> lowerWhileStmt(l, node)
      [] node.k = "for" -> lowerForStmt(l, node)
      [] OTHER -> lowerExpr(l, node)

\* scopeBlockBindings included: what a name declared in the block meant at its
\* start comes back at its end.
lowerBlockBody(l, stmts, wantValue) ==
    LET own == {node.s : node \in {s \in Range(stmts) : s.k = "let"}}
        run == IF wantValue THEN Front(stmts) ELSE stmts
        ran == FoldHeld(LAMBDA s, node : IF Ended(s) THEN s ELSE lowerStmt(s, node), l, run)
        done == IF wantValue /\ ~Ended(ran) THEN lowerExpr(ran, Last(stmts)) ELSE ran
    IN  [done EXCEPT !.env = [x \in (DOMAIN @ \ own) \cup (DOMAIN l.env \cap own) |->
                                IF x \in own THEN l.env[x] ELSE @[x]]]

-----------------------------------------------------------------------------
(* Functions and the module. *)

\* lowerFunctionNamed: a `&var` parameter is the caller's storage, and a lent
\* value parameter gets a slot in the entry.
lowerFunction(sigs, fn) ==
    LET lent == UNION {mutablyBorrowed(sigs, node) : node \in Range(fn.body)}
        storage == {p.name : p \in {q \in Range(fn.params) : q.type \in MutableReferenceTypes}}
        values == SelectSeq(fn.params, LAMBDA p : p.name \in lent /\ p.type \notin ReferenceTypes)
        start == [blocks |-> <<Block("entry", <<>>, Open)>>, block |-> 1,
                  env |-> [x \in {p.name : p \in Range(fn.params)} |->
                            CHOOSE p \in Range(fn.params) : p.name = x],
                  slots |-> lent \cup storage, forIndexes |-> {}, nextValue |-> 0,
                  nextBlock |-> 0, loops |-> <<>>, sigs |-> sigs, ret |-> fn.ret, value |-> NoValue]
        slotted == FoldHeld(LAMBDA l, p : bindLocal(l, p.name, p), start, values)
        body == lowerBlockBody(slotted, fn.body, FALSE)
        ended == IF Ended(body) THEN body ELSE returnVoidValue(body)
    IN  [name |-> fn.name, params |-> fn.params, ret |-> fn.ret, blocks |-> ended.blocks]

\* Every function, and of those the ones the program's main reaches.
Lower(program) ==
    LET sigs == [f \in {fn.name : fn \in Range(program)} |->
                    CHOOSE fn \in Range(program) : fn.name = f]
    IN  keepReachableFunctions([f \in DOMAIN program |-> lowerFunction(sigs, program[f])], {"main"})

=============================================================================
