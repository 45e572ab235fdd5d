------------------------------ MODULE IRReshape ------------------------------
(***************************************************************************)
(* The passes that reshape a module for an engine which runs the code as   *)
(* it is written (internal/ir/optimize.go ReshapeForEngine): common        *)
(* subexpressions (cse.go), a second copy of a counted loop without its    *)
(* index checks (version.go), and the test at the end of the body          *)
(* (rotate.go).                                                            *)
(***************************************************************************)
EXTENDS IRPasses

CONSTANTS
    VersionLimit,   \* instructions a versioned loop may hold
    RotateLimit     \* instructions besides its phis a rotated header may hold

ASSUME ReshapeAssumption == VersionLimit \in Nat /\ RotateLimit \in Nat

-----------------------------------------------------------------------------
(* cse.go. *)

computesFromOperands(instr) ==
    \/ instr.op \in {"const", "cast"}
    \/ instr.op \in BinaryOps /\ \A v \in Range(instr.args) : v.type # "[]i64"

expressionKey(instr) == <<instr.op, instr.imm, instr.result.type, instr.args>>

\* One instruction under the results its dominators and its block computed.
ShareInstr(s, instr) ==
    LET new == Rename(instr, LAMBDA v : Resolve(s.replacements, v))
        key == expressionKey(new)
    IN  IF ~computesFromOperands(new) THEN s
        ELSE IF key \in DOMAIN s.available
        THEN [s EXCEPT !.replacements = Keyed(instr.result.name, s.available[key]) @@ @]
        ELSE [s EXCEPT !.available = (key :> instr.result) @@ @]

\* A block starts with what was available at the end of its immediate
\* dominator; nothing of its siblings is.
eliminateCommonSubexpressionsIn(fn) ==
    LET tree == buildDominatorTree(fn, blockPredecessors(fn))
        visit(s, p) ==
            LET start == IF p = 1 THEN <<>> ELSE s.ends[Idom(tree, p)]
                done == FoldHeld(ShareInstr,
                                 [available |-> start, replacements |-> s.replacements],
                                 fn.blocks[p].instrs)
            IN  [ends |-> (p :> done.available) @@ s.ends, replacements |-> done.replacements]
    IN  replaceFunctionValues(fn,
            FoldHeld(visit, [ends |-> <<>>, replacements |-> <<>>], tree.order).replacements)

EliminateCommonSubexpressions(mod) == EachFunction(mod, eliminateCommonSubexpressionsIn)

-----------------------------------------------------------------------------
(* version.go: which loops qualify. *)

enteredOnlyFrom(preds, p, from) == preds[p] = <<from>>

instrLeavesHeaders(instr) ==
    \/ leavesHeaders(instr.op)
    \/ instr.op = "ref.store" /\ instr.args[1].type \in ReferenceTypes
       /\ isForwardScalar(instr.args[2].type)

\* splitEntries: one preheader and one latch, each a jump, and a body only the
\* header enters that dominates the latch and not the exit.
splitEntries(fn, preds, tree, p) ==
    LET term == fn.blocks[p].term
        body == At(fn, term.target)
    IN  /\ Len(preds[p]) = 2
        /\ \A q \in Range(preds[p]) : fn.blocks[q].term.op = "jump"
        /\ \E q \in Range(preds[p]) : dominates(tree, p, q)
        /\ \E q \in Range(preds[p]) : ~dominates(tree, p, q)
        /\ enteredOnlyFrom(preds, body, p)
        /\ \A q \in Range(preds[p]) : dominates(tree, p, q) => dominates(tree, body, q)
        /\ ~dominates(tree, body, At(fn, term.els))

\* collectBlocks, leavesOnlyThroughHeader and readDefinitions: the loop is
\* small, left only by its header's test, and keeps every Array header.
ClosedLoop(fn, loop) ==
    LET in == {p \in DOMAIN fn.blocks : fn.blocks[p].name \in loop.inside}
        instrs == FlattenSeq([p \in DOMAIN fn.blocks |->
                    IF p \in in THEN fn.blocks[p].instrs ELSE <<>>])
    IN  /\ Len(instrs) <= VersionLimit
        /\ \A i \in DOMAIN instrs : instrLeavesHeaders(instrs[i])
        /\ \A p \in in : \A t \in Range(Successors(fn.blocks[p].term)) :
            CASE t = fn.blocks[loop.header].name -> p = loop.latch
              [] t = loop.exit /\ p = loop.header -> TRUE
              [] OTHER -> t \in loop.inside

\* The same on every iteration: from outside, or computed from such values.
RECURSIVE invariant(_, _)
invariant(loop, v) ==
    \/ v.name \notin loop.defined
    \/ LET instr == loop.defs[v.name] IN
       \/ instr.op = "const"
       \/ /\ instr.op \in {"binary.+", "binary.-", "binary.*", "cast", "slice.len"}
          /\ \A a \in Range(instr.args) : invariant(loop, a)

\* The header tests `counter < limit`; the counter comes from the preheader
\* and steps by one from the latch.
findCounter(fn, loop) ==
    LET c == fn.blocks[loop.header].term.cond.name
        cond == loop.defs[c]
        counter == loop.defs[cond.args[1].name]
        pre == fn.blocks[loop.pre].name
        latch == fn.blocks[loop.latch].name
    IN  /\ c \in DOMAIN loop.defs
        /\ cond.op = "binary.<" /\ cond.args[1].type = "i64"
        /\ cond.args[1].name \in loop.defined /\ counter.op = "phi"
        /\ invariant(loop, cond.args[2])
        /\ \A in \in Range(counter.incoming) :
            \/ in.block = pre /\ in.value.name \notin loop.defined
            \/ in.block = latch /\ stepOf(loop.defs, in.value) = counter.result.name
        /\ \E in \in Range(counter.incoming) : in.block = pre

\* The base of an index `counter + base`, NoValue for the counter itself; an
\* index of any other form has none.
indexBase(loop, index) ==
    LET counter == loop.counter.result.name
        instr == loop.defs[index.name]
    IN  IF index.name = counter THEN <<NoValue>>
        ELSE IF index.name \notin DOMAIN loop.defs THEN <<>>
        ELSE IF instr.op # "binary.+" \/ instr.result.type # "i64" THEN <<>>
        ELSE IF instr.args[1].name = counter /\ invariant(loop, instr.args[2])
        THEN <<instr.args[2]>>
        ELSE IF instr.args[2].name = counter /\ invariant(loop, instr.args[1])
        THEN <<instr.args[1]>>
        ELSE <<>>

BoundedCheck(container, base, view) == [container |-> container, base |-> base, view |-> view]

\* findViewCheck: `index < 0` or `index >= len` over a view.
findViewCheck(loop, instr) ==
    LET c == instr.args[1].name
        cond == loop.defs[c]
        base == indexBase(loop, cond.args[1])
        length == loop.defs[cond.args[2].name]
    IN  IF instr.of # "bounds" \/ c \notin DOMAIN loop.defs THEN <<>>
        ELSE IF Len(cond.args) # 2 THEN <<>>
        ELSE IF base = <<>> THEN <<>>
        ELSE IF cond.op = "binary.<" /\ IsConstant(loop.defs, cond.args[2], 0)
        THEN <<BoundedCheck(NoValue, base[1], FALSE)>>
        ELSE IF cond.op = "binary.>=" /\ cond.args[2].name \in DOMAIN loop.defs
        THEN IF length.op = "slice.len" /\ invariant(loop, cond.args[2])
             THEN <<BoundedCheck(length.args[1], base[1], TRUE)>> ELSE <<>>
        ELSE <<>>

\* What must hold for one instruction's check never to fail, if the counter
\* walks its index.
CheckOf(loop, instr) ==
    LET array == instr.args[1]
        base == indexBase(loop, instr.args[2])
    IN  CASE instr.op \in {"array.get_or_panic", "array.set"} ->
                IF array.type \in ReferenceTypes /\ array.name \notin loop.defined /\ base # <<>>
                THEN <<BoundedCheck(array, base[1], FALSE)>> ELSE <<>>
          [] instr.op = "cond_fail" -> findViewCheck(loop, instr)
          [] OTHER -> <<>>

\* findChecks: the answered instructions by position, and each check once.
findChecks(fn, loop) ==
    LET sites == FlattenSeq([p \in DOMAIN fn.blocks |->
            IF fn.blocks[p].name \notin loop.inside THEN <<>>
            ELSE [i \in DOMAIN fn.blocks[p].instrs |-> <<p, i>>]])
        check(at) == CheckOf(loop, fn.blocks[at[1]].instrs[at[2]])
        answered == SelectSeq(sites, LAMBDA at : check(at) # <<>>)
        once(list, at) == IF Contains(list, check(at)[1]) THEN list ELSE list \o check(at)
    IN  [loop EXCEPT !.answered = Range(answered), !.checks = FoldHeld(once, <<>>, answered)]

\* <<loop>> when the block at p heads a loop that can be versioned.
versionableLoop(fn, preds, tree, p) ==
    LET term == fn.blocks[p].term
        body == At(fn, term.target)
        inside == {p} \cup {q \in DOMAIN fn.blocks : dominates(tree, body, q)}
        instrs == UNION {Range(fn.blocks[q].instrs) : q \in inside}
        defs == Defs(fn)
        cond == defs[term.cond.name]
        pre == CHOOSE q \in Range(preds[p]) : ~dominates(tree, p, q)
        loop == [header |-> p, exit |-> term.els, pre |-> pre,
                 latch |-> CHOOSE q \in Range(preds[p]) : dominates(tree, p, q),
                 inside |-> {fn.blocks[q].name : q \in inside},
                 defined |-> {i.result.name : i \in instrs} \ {""}, defs |-> defs]
        counter == defs[cond.args[1].name]
        start == CHOOSE in \in Range(counter.incoming) : in.block = fn.blocks[pre].name
        found == findChecks(fn, loop @@ [counter |-> counter, start |-> start.value,
                                         limit |-> cond.args[2], checks |-> <<>>,
                                         answered |-> {}])
    IN  IF p = 1 \/ term.op # "branch" \/ term.target = term.els THEN <<>>
        ELSE IF ~splitEntries(fn, preds, tree, p) THEN <<>>
        ELSE IF ~ClosedLoop(fn, loop) \/ ~findCounter(fn, loop) THEN <<>>
        ELSE IF found.answered = {} THEN <<>> ELSE <<found>>

-----------------------------------------------------------------------------
(* version.go: the copy, and the test that picks it. *)

Hoisted(loop, prefix, v) ==
    IF v.name \in loop.defined THEN Value(prefix \o "pre." \o v.name, v.type) ELSE v

\* A value the test before the loop reads is recomputed there, once.
RECURSIVE hoist(_, _, _, _)
hoist(loop, prefix, w, v) ==
    IF v.name \notin loop.defined \/ v.name \in w.hoisted THEN w
    ELSE LET instr == loop.defs[v.name]
             below == FoldHeld(LAMBDA s, a : hoist(loop, prefix, s, a), w, instr.args)
             copied == [Rename(instr, LAMBDA a : Hoisted(loop, prefix, a))
                            EXCEPT !.result = Hoisted(loop, prefix, v)]
         IN  [below EXCEPT !.instrs = Append(@, copied), !.hoisted = @ \cup {v.name}]

\* Each condition of the test is a block: its instructions and its condition.
Finish(w, instrs, cond, used) ==
    [w EXCEPT !.tests = Append(@, [instrs |-> w.instrs \o instrs, cond |-> cond]),
              !.instrs = <<>>, !.next = @ + used]

writeNonNegative(loop, prefix, w, v) ==
    LET zero == Value(prefix \o "check.zero" \o ToString(w.next + 1), "i64")
        test == Value(prefix \o "check.nonneg" \o ToString(w.next + 2), "bool")
    IN  IF nonNegativeConstant(loop.defs, v) THEN w
        ELSE Finish(hoist(loop, prefix, w, v),
                    <<Instr(zero, "const", "", <<>>, <<0>>),
                      Instr(test, "binary.>=", "", <<Hoisted(loop, prefix, v), zero>>, <<>>)>>,
                    test, 2)

\* The limit is no more than the container's length less the base.
writeFits(loop, prefix, w, check) ==
    LET length == Value(prefix \o "check.len" \o ToString(w.next + 1), "i64")
        based == check.base # NoValue
        room == IF based THEN Value(prefix \o "check.room" \o ToString(w.next + 2), "i64")
                ELSE length
        used == IF based THEN 3 ELSE 2
        fits == Value(prefix \o "check.fits" \o ToString(w.next + used), "bool")
        h(v) == Hoisted(loop, prefix, v)
        more(s, instr) == [s EXCEPT !.instrs = Append(@, instr)]
        w1 == more(hoist(loop, prefix, w, check.container),
                   Instr(length, IF check.view THEN "slice.len" ELSE "array.len", "",
                         <<h(check.container)>>, <<>>))
        w2 == IF based THEN more(hoist(loop, prefix, w1, check.base),
                                 Instr(room, "binary.-", "", <<length, h(check.base)>>, <<>>))
              ELSE w1
    IN  Finish(hoist(loop, prefix, w2, loop.limit),
               <<Instr(fits, "binary.<=", "", <<h(loop.limit), room>>, <<>>)>>, fits, used)

\* The blocks of the test: each falls back to the loop as it was, the last
\* passes to the copy.
writeChecks(loop, prefix, slow, fast) ==
    LET based == SelectSeq(loop.checks, LAMBDA c : c.base # NoValue)
        bases == [i \in DOMAIN based |-> based[i].base]
        contained == SelectSeq(loop.checks, LAMBDA c : c.container # NoValue)
        signs == FoldHeld(LAMBDA w, v : writeNonNegative(loop, prefix, w, v),
                          [tests |-> <<>>, instrs |-> <<>>, hoisted |-> {}, next |-> 0],
                          <<loop.start>> \o bases)
        tests == FoldHeld(LAMBDA w, c : writeFits(loop, prefix, w, c), signs, contained).tests
        name(i) == prefix \o "check" \o ToString(i - 1)
    IN  IF tests = <<>> THEN <<Block(name(1), <<>>, Jump(fast))>>
        ELSE [i \in DOMAIN tests |->
                Block(name(i), tests[i].instrs,
                      Branch(tests[i].cond, IF i = Len(tests) THEN fast ELSE name(i + 1), slow))]

\* renamed: the copy's name for a value of the loop.
Copied(loop, prefix, v) ==
    IF v.name \in loop.defined THEN Value(prefix \o v.name, v.type) ELSE v

\* copyLoop: the loop's blocks under the copy's names, entered from the last
\* block of the test, without the answered checks.
copyLoop(fn, loop, prefix, entry) ==
    LET c(v) == Copied(loop, prefix, v)
        to(name) == IF name \in loop.inside THEN prefix \o name ELSE name
        edge(name) == IF name = fn.blocks[loop.pre].name THEN entry ELSE to(name)
        copyInstr(i) == [Rename(i, c) EXCEPT !.result = c(@),
                            !.incoming = [e \in DOMAIN @ |->
                                Incoming(edge(@[e].block), c(@[e].value))]]
        copyTerminator(t) == [t EXCEPT !.value = c(@), !.cond = c(@),
                                       !.target = to(@), !.els = to(@)]
        \* The accesses written unchecked are numbered in block order.
        site(at) == Cardinality({a \in loop.answered :
                        /\ fn.blocks[a[1]].instrs[a[2]].op # "cond_fail"
                        /\ a[1] < at[1] \/ (a[1] = at[1] /\ a[2] <= at[2])})
        copies(at, i) ==
            CASE at \notin loop.answered -> <<copyInstr(i)>>
              [] i.op = "cond_fail" -> <<>>
              [] OTHER -> answeredAccess(copyInstr(i),
                            prefix \o "unchecked" \o ToString(site(at)) \o ".")
        blocks == SelectSeq([p \in DOMAIN fn.blocks |-> p],
                            LAMBDA p : fn.blocks[p].name \in loop.inside)
    IN  [n \in DOMAIN blocks |->
            LET b == fn.blocks[blocks[n]] IN
            Block(prefix \o b.name,
                  FlattenSeq([i \in DOMAIN b.instrs |-> copies(<<blocks[n], i>>, b.instrs[i])]),
                  copyTerminator(b.term))]

\* The header's phis take what came from the preheader from each block of the
\* test that falls back to them.
redirectHeaderPhis(fn, loop, checks) ==
    LET falls == SelectSeq(checks, LAMBDA b : b.term.op = "branch")
        spread(in) == IF in.block # fn.blocks[loop.pre].name THEN <<in>>
                      ELSE [i \in DOMAIN falls |-> Incoming(falls[i].name, in.value)]
    IN  AtBlock(fn, loop.header, LAMBDA b :
            [b EXCEPT !.instrs = [i \in DOMAIN @ |->
                [@[i] EXCEPT !.incoming = FlattenSeq([e \in DOMAIN @ |-> spread(@[e])])]]])

\* The exit joins both loops: its phis take from the copy's header what they
\* took from the header, and a later read of a loop value reads a phi of both.
joinExit(fn, loop, prefix) ==
    LET header == fn.blocks[loop.header].name
        exit == At(fn, loop.exit)
        join(v) == IF v.name \in loop.defined THEN Value(prefix \o "x." \o v.name, v.type) ELSE v
        extendExitPhis(instr) ==
            LET hit == SelectSeq(instr.incoming, LAMBDA e : e.block = header)
            IN  IF hit = <<>> THEN instr
                ELSE [instr EXCEPT !.incoming =
                        Append(@, Incoming(prefix \o header, Copied(loop, prefix, hit[1].value)))]
        outer(name) == name \notin loop.inside /\ name # prefix \o header
        late(instr) == [Rename(instr, join) EXCEPT !.incoming = [e \in DOMAIN @ |->
                            IF outer(@[e].block) THEN Incoming(@[e].block, join(@[e].value))
                            ELSE @[e]]]
        joined == [p \in DOMAIN fn.blocks |->
            LET b == fn.blocks[p]
                ext == IF p = exit THEN [i \in DOMAIN b.instrs |-> extendExitPhis(b.instrs[i])]
                       ELSE b.instrs
            IN  IF b.name \in loop.inside THEN b
                ELSE Block(b.name, [i \in DOMAIN ext |-> late(ext[i])],
                           [b.term EXCEPT !.value = join(@), !.cond = join(@)])]
        used == usedValues([fn EXCEPT !.blocks = joined])
        read == SetToSeq({n \in loop.defined : prefix \o "x." \o n \in used})
        phi(n) == LET v == loop.defs[n].result IN
                  Phi(join(v), <<Incoming(header, v),
                                 Incoming(prefix \o header, Copied(loop, prefix, v))>>)
    IN  [fn EXCEPT !.blocks =
            [joined EXCEPT ![exit].instrs = [i \in DOMAIN read |-> phi(read[i])] \o @]]

version(fn, loop, prefix) ==
    LET header == fn.blocks[loop.header].name
        checks == writeChecks(loop, prefix, header, prefix \o header)
        copies == copyLoop(fn, loop, prefix, Last(checks).name)
        entered == [fn EXCEPT !.blocks[loop.pre].term.target = checks[1].name]
        joined == joinExit(redirectHeaderPhis(entered, loop, checks), loop, prefix).blocks
    IN  [fn EXCEPT !.blocks = SubSeq(joined, 1, loop.header - 1) \o checks
                              \o SubSeq(joined, loop.header, Len(joined)) \o copies]

\* Every qualifying loop, the function being read again after each; a loop is
\* looked at once, and so is the copy.
RECURSIVE VersionFrom(_, _, _)
VersionFrom(fn, site, seen) ==
    LET preds == blockPredecessors(fn)
        tree == buildDominatorTree(fn, preds)
        prefix == "ver" \o ToString(site) \o "."
        loops == [p \in DOMAIN fn.blocks |->
                    IF fn.blocks[p].name \in seen THEN <<>>
                    ELSE versionableLoop(fn, preds, tree, p)]
        found == {p \in DOMAIN loops : loops[p] # <<>>}
        first == CHOOSE p \in found : \A q \in found : p <= q
        past == {fn.blocks[p].name : p \in {q \in DOMAIN fn.blocks : q <= first}}
    IN  IF found = {} THEN fn
        ELSE VersionFrom(version(fn, loops[first][1], prefix), site + 1,
                         seen \cup past \cup {prefix \o fn.blocks[first].name})

versionLoopsIn(fn) == VersionFrom(fn, 1, {})

VersionLoopsForBounds(mod) == EachFunction(mod, versionLoopsIn)

-----------------------------------------------------------------------------
(* rotate.go. *)

isRepeatableOp(op) == op \in PureOps \ {"local.slot"}

repeatableHeader(block) ==
    LET own == SelectSeq(block.instrs, LAMBDA i : i.op # "phi")
    IN  Len(own) <= RotateLimit /\ \A i \in DOMAIN own : isRepeatableOp(own[i].op)

\* <<[header, body, exit, latches, outside]>> when the block at p heads a loop
\* that can be rotated.
rotatableLoop(fn, preds, tree, p) ==
    LET term == fn.blocks[p].term
        latches == SelectSeq(preds[p], LAMBDA q : dominates(tree, p, q))
        outside == SelectSeq(preds[p], LAMBDA q : ~dominates(tree, p, q))
        target == At(fn, term.target)
        other == At(fn, term.els)
        findBody(q) == enteredOnlyFrom(preds, q, p)
                       /\ \A l \in Range(latches) : dominates(tree, q, l)
        loop(body, exit) == [header |-> p, body |-> body, exit |-> exit,
                             latches |-> latches, outside |-> outside]
    IN  CASE \/ p = 1 \/ term.op # "branch" \/ term.target = term.els
             \/ latches = <<>> \/ outside = <<>>
             \/ \E l \in Range(latches) : fn.blocks[l].term.op # "jump"
             \/ ~repeatableHeader(fn.blocks[p]) -> <<>>
          [] target = p \/ other = p -> <<>>
          [] findBody(target) -> <<loop(target, other)>>
          [] findBody(other) -> <<loop(other, target)>>
          [] OTHER -> <<>>

Lists(block, phis) == [block EXCEPT !.instrs = phis \o @]

\* The header runs once as a guard and its test is copied to each latch.  A
\* value it defines is read as itself on the guard, as a phi at the top of the
\* body inside the loop, and as a phi at the exit after it.
rotateLoop(fn, tree, loop, prefix) ==
    LET header == fn.blocks[loop.header]
        defined == {header.instrs[i].result.name : i \in DOMAIN header.instrs}
        def(n) == CHOOSE i \in Range(header.instrs) : i.result.name = n
        renamed(role, v) == IF v.name \in defined THEN Value(prefix \o role \o v.name, v.type)
                            ELSE v
        inBody(v) == renamed("b.", v)
        inExit(v) == renamed("x.", v)
        latchName(k) == fn.blocks[loop.latches[k]].name
        role(k) == "l" \o ToString(k - 1) \o "."
        atLatch(k, v) ==
            IF v.name \notin defined THEN v
            ELSE IF def(v.name).op # "phi" THEN renamed(role(k), v)
            ELSE LET in == SelectSeq(def(v.name).incoming, LAMBDA e : e.block = latchName(k))
                 IN  IF in = <<>> THEN v ELSE inBody(in[1].value)
        region(p, v) ==
            CASE p = loop.header -> v
              [] dominates(tree, loop.body, p) -> inBody(v)
              [] dominates(tree, loop.exit, p) -> inExit(v)
              [] OTHER -> v
        \* renameUses
        renameUses(p, b) ==
            Block(b.name,
                  [i \in DOMAIN b.instrs |->
                    [Rename(b.instrs[i], LAMBDA v : region(p, v)) EXCEPT !.incoming =
                        [e \in DOMAIN @ |-> Incoming(@[e].block,
                                                     region(At(fn, @[e].block), @[e].value))]]],
                  [b.term EXCEPT !.value = region(p, @), !.cond = region(p, @)])
        \* extendPhis
        fromLatches(v) == [k \in DOMAIN loop.latches |-> Incoming(latchName(k), atLatch(k, v))]
        extend(instr) ==
            LET in == SelectSeq(instr.incoming, LAMBDA e : e.block = header.name)
            IN  IF in = <<>> THEN instr
                ELSE [instr EXCEPT !.incoming = @ \o fromLatches(Last(in).value)]
        \* copyHeaderInto
        own == SelectSeq(header.instrs, LAMBDA i : i.op # "phi")
        copyHeaderInto(k, b) ==
            Block(b.name,
                  b.instrs \o [i \in DOMAIN own |->
                    [Rename(own[i], LAMBDA v : atLatch(k, v)) EXCEPT !.result = renamed(role(k), @)]],
                  [header.term EXCEPT !.cond = atLatch(k, @)])
        latchAt(p) == {k \in DOMAIN loop.latches : loop.latches[k] = p}
        rewrite(p) ==
            LET named == IF p = loop.header THEN header ELSE renameUses(p, fn.blocks[p])
                extended == IF p \in {loop.body, loop.exit}
                            THEN [named EXCEPT !.instrs = [i \in DOMAIN @ |-> extend(@[i])]]
                            ELSE named
            IN  IF latchAt(p) = {} THEN extended
                ELSE copyHeaderInto(CHOOSE k \in latchAt(p) : TRUE, extended)
        moved == [fn EXCEPT !.blocks = [p \in DOMAIN @ |-> rewrite(p)]]
        \* fillExitPhis: one incoming for each edge into the exit.
        into == SelectSeq(Edges(moved), LAMBDA e : e[2] = loop.exit)
        arriving(p, v) ==
            IF latchAt(p) # {} THEN atLatch(CHOOSE k \in latchAt(p) : TRUE, v) ELSE region(p, v)
        exitPhi(v) == Phi(inExit(v), [i \in DOMAIN into |->
                            Incoming(fn.blocks[into[i][1]].name, arriving(into[i][1], v))])
        exits == LET used == usedValues(moved)
                 IN  SetToSeq({n \in defined : inExit(def(n).result).name \in used})
        exited == AtBlock(moved, loop.exit, LAMBDA b :
                    Lists(b, [i \in DOMAIN exits |-> exitPhi(def(exits[i]).result)]))
        \* fillBodyPhis: filling one can ask for another.
        bodyPhi(v) == Phi(inBody(v), <<Incoming(header.name, v)>> \o fromLatches(v))
        RECURSIVE filled(_)
        filled(names) ==
            LET asked == UNION {{in.value.name : in \in Range(bodyPhi(def(n).result).incoming)}
                                : n \in names}
                more == names \cup {n \in defined : inBody(def(n).result).name \in asked}
            IN  IF more = names THEN names ELSE filled(more)
        bodies == LET used == usedValues(exited) IN
                  SetToSeq(filled({n \in defined : inBody(def(n).result).name \in used}))
        bodied == AtBlock(exited, loop.body, LAMBDA b :
                    Lists(b, [i \in DOMAIN bodies |-> bodyPhi(def(bodies[i]).result)]))
        \* dropLatchIncoming
        latchNames == {latchName(k) : k \in DOMAIN loop.latches}
        dropped == AtBlock(bodied, loop.header, LAMBDA b :
                    [b EXCEPT !.instrs = [i \in DOMAIN @ |-> [@[i] EXCEPT !.incoming =
                        SelectSeq(@, LAMBDA e : e.block \notin latchNames)]]])
        \* foldGuardPhis
        guards == {i \in Range(dropped.blocks[loop.header].instrs) :
                    i.op = "phi" /\ Len(i.incoming) = 1}
        guarded == AtBlock(dropped, loop.header, LAMBDA b :
                    [b EXCEPT !.instrs = SelectSeq(@, LAMBDA i : i \notin guards)])
    IN  IF Len(loop.outside) # 1 THEN dropped
        ELSE replaceFunctionValues(guarded, [n \in {i.result.name : i \in guards} |->
                (CHOOSE i \in guards : i.result.name = n).incoming[1].value])

\* One dominator tree serves every rotation of the function; predecessors are
\* read again after each.
rotateLoopsIn(fn) ==
    LET tree == buildDominatorTree(fn, blockPredecessors(fn))
        try(s, p) ==
            LET loop == rotatableLoop(s.fn, blockPredecessors(s.fn), tree, p)
            IN  IF loop = <<>> THEN s
                ELSE [fn |-> Held(rotateLoop(s.fn, tree, loop[1],
                                             "rot" \o ToString(s.site + 1) \o ".")),
                      site |-> s.site + 1]
    IN  FoldHeld(try, [fn |-> fn, site |-> 0], [p \in DOMAIN fn.blocks |-> p]).fn

RotateLoops(mod) == EachFunction(mod, rotateLoopsIn)

-----------------------------------------------------------------------------
(* optimize.go: the passes in the order they run. *)

\* What every target gets.
Optimize ==
    <<"Inline", "EliminateTailRecursion", "ConstantFold", "FoldConstantTables", "CopyPropagate",
      "ForwardFieldLoads", "EliminateBoundsChecks", "SimplifyBranches", "DeadCodeEliminate">>

\* What a module gets besides when an engine compiles it again.
ReshapeForEngine ==
    <<"EliminateCommonSubexpressions", "EliminateBoundsChecks", "SimplifyBranches",
      "VersionLoopsForBounds", "SimplifyBranches", "RotateLoops", "ConstantFold",
      "SimplifyBranches", "DeadCodeEliminate">>

\* The module a pass makes of a module.
Pass(name, mod) ==
    CASE name = "Inline" -> Inline(mod)
      [] name = "EliminateTailRecursion" -> EliminateTailRecursion(mod)
      [] name = "ConstantFold" -> ConstantFold(mod)
      [] name = "FoldConstantTables" -> FoldConstantTables(mod)
      [] name = "CopyPropagate" -> CopyPropagate(mod)
      [] name = "ForwardFieldLoads" -> ForwardFieldLoads(mod)
      [] name = "EliminateBoundsChecks" -> EliminateBoundsChecks(mod)
      [] name = "SimplifyBranches" -> SimplifyBranches(mod)
      [] name = "DeadCodeEliminate" -> DeadCodeEliminate(mod)
      [] name = "EliminateCommonSubexpressions" -> EliminateCommonSubexpressions(mod)
      [] name = "VersionLoopsForBounds" -> VersionLoopsForBounds(mod)
      [] name = "RotateLoops" -> RotateLoops(mod)

=============================================================================
