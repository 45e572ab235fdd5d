------------------------------- MODULE WasmEmit -------------------------------
(***************************************************************************)
(* The wasm backend (internal/wasm) from a function of IR to structured     *)
(* code: the shape of its control flow (structure.go), the reads a loop     *)
(* takes from locals (hoist.go), the frame (frame.go), and the code of its  *)
(* blocks, edges, phis and tagged values (control.go, tagged.go).           *)
(*                                                                         *)
(* Blocks are numbered in reverse postorder.  An expression is a tuple:     *)
(*   <<"get", local>>      <<"const", n>>        <<"add", x, offset>>       *)
(*   <<"load", x>>         <<"eqz", x>>          <<"ne", x>> (not zero)     *)
(*   <<"op", operation, type, x, y>>             <<"table", values, x>>     *)
(* and so is an item of code:                                               *)
(*   <<"set", local, x>>   <<"store", x, y>>     <<"copy", to, from, size>> *)
(*   <<"block", label, code>>                    <<"loop", label, code>>    *)
(*   <<"if", x, code, code>>                     <<"br", label>>            *)
(*   <<"br_if", label, x>> <<"return", x>>       <<"call", f, xs, local>>   *)
(*   <<"reserve", size>>   <<"release">>         <<"unreachable">>          *)
(*   <<"panic", kind>>                                                      *)
(*   <<"data", local, x>>  <<"length", local, x>> (of an Array or a view)   *)
(*   <<"run", instr, xs, destination, data, length>>: an operation on       *)
(* Arrays, views and references, whose own code the model leaves to         *)
(* IRMachine; data and length are the hoisted locals it uses, or "".        *)
(***************************************************************************)
EXTENDS IRMachine

CONSTANTS
    BranchSubtreeLimit  \* blocks readsPhisBelow looks through

ASSUME EmitAssumption == BranchSubtreeLimit \in Nat

isMemoryType(type) == type \in {"?i64", "?&i64", "?&var i64", "E!i64", "E!void", "[]i64"}

isArrayRef(type) == type \in {"&Array", "&var Array"}

wasmType(type) == IF type \in {"i64", "u64", "E"} THEN "i64" ELSE "i32"

-----------------------------------------------------------------------------
(* structure.go *)

\* computeDominators, intersect: the rounds of Backend, over the blocks the
\* entry reaches.
computeDominators(preds) == immediateDominators(preds)

\* dominates
above(idom, a, b) == Climbs(idom, b, a)

\* analyze: what the emission of one function reads.  A back edge goes to a
\* block no later than its source; one that comes from outside its target's
\* dominance is refused.
analyze(fn) ==
    LET order == reversePostorder(fn)
        n == Len(order)
        blocks == [k \in 1..n |-> fn.blocks[order[k]]]
        at(name) == CHOOSE k \in 1..n : blocks[k].name = name
        into(k) == FlattenSeq([j \in 1..n |->
                      LET to == SelectSeq(Successors(blocks[j].term), LAMBDA t : t = blocks[k].name)
                      IN  [i \in DOMAIN to |-> j]])
        preds == [k \in 1..n |-> into(k)]
        idom == computeDominators(preds)
        headers == {k \in 1..n : \E i \in DOMAIN preds[k] : preds[k][i] >= k}
        merges == {k \in 1..n : Len(SelectSeq(preds[k], LAMBDA j : j < k)) >= 2}
    IN  [blocks |-> blocks,
         at |-> [name \in {blocks[k].name : k \in 1..n} |-> at(name)],
         idom |-> idom, headers |-> headers, merges |-> merges,
         reducible |-> \A k \in headers : \A i \in DOMAIN preds[k] :
                          preds[k][i] >= k => above(idom, k, preds[k][i]),
         \* latest first: the block of the latest is the outermost
         mergeChildren |-> [k \in 1..n |->
             SelectSeq([i \in 1..n |-> n + 1 - i], LAMBDA m : m \in merges /\ idom[m] = k)]]

Dominated(s, top) == {k \in DOMAIN s.blocks : above(s.idom, top, k)}

isBackEdge(s, source, target) == target \in s.headers /\ target <= source

-----------------------------------------------------------------------------
(* Reads. *)

\* forEachRead: each value read, with the operation that reads it and the
\* place it is read in; 0 for a phi's incoming, "" for a terminator.
BlockReads(block) ==
    FlattenSeq([i \in DOMAIN block.instrs |->
        LET instr == block.instrs[i] IN
        [a \in DOMAIN instr.args |-> [op |-> instr.op, at |-> a, value |-> instr.args[a]]] \o
        [a \in DOMAIN instr.incoming |->
            [op |-> instr.op, at |-> 0, value |-> instr.incoming[a].value]]])
    \o <<[op |-> "", at |-> 0, value |-> block.term.value],
         [op |-> "", at |-> 0, value |-> block.term.cond]>>

FunctionReads(fn) == FlattenSeq([p \in DOMAIN fn.blocks |-> BlockReads(fn.blocks[p])])

\* The results of some operations that are read by nothing but others.
OnlyReadBy(fn, made(_), readers) ==
    LET results == {i.result.name : i \in {j \in Range(Instrs(fn)) : made(j)}}
    IN  results \ {r.value.name : r \in {x \in Range(FunctionReads(fn)) : ~(x.at = 1 /\ x.op \in readers)}}

\* An E!void a flag local can hold, and an optional two locals can.
flagResultsOf(fn) ==
    OnlyReadBy(fn, LAMBDA i : i.op \in {"array.set", "array.append"} /\ i.result.type = "E!void",
               {"error.try", "error.has", "error.code"})

optionLocalsOf(fn) ==
    OnlyReadBy(fn, LAMBDA i : i.result.type \in {"?i64", "?&i64", "?&var i64"} /\
                              i.op \in {"opt.some", "opt.null", "array.at", "array.at_mut", "array.get"},
               {"opt.has", "opt.value"})

-----------------------------------------------------------------------------
(* hoist.go *)

readsArrayHeaderOnly(op) ==
    op \in {"array.len", "array.get", "array.get_or_panic", "array.at", "array.at_mut",
            "array.set", "ref.load"}

\* The candidates of one loop, in the order it first reads them, that no
\* instruction of the loop may change.
loopHoists(fn, s, header) ==
    LET inside == Dominated(s, header)
        made == UNION {{i.result.name : i \in Range(s.blocks[k].instrs)} : k \in inside}
        reads == FlattenSeq([k \in DOMAIN s.blocks |->
                    IF k \in inside THEN BlockReads(s.blocks[k]) ELSE <<>>])
        plain(r) == r.at = 1 /\ (IF isArrayRef(r.value.type) THEN readsArrayHeaderOnly(r.op)
                                 ELSE r.op \in {"slice.len", "slice.index", "slice.store"})
        ofKind == SelectSeq(reads, LAMBDA r : isArrayRef(r.value.type) \/ r.value.type = "[]i64")
        changed == {r.value.name : r \in {x \in Range(ofKind) : isArrayRef(x.value.type) /\ ~plain(x)}}
        found == SelectSeq(ofKind, LAMBDA r : plain(r) /\ r.value.name \notin made
                                              /\ r.value.name \notin changed)
    IN  FoldHeld(LAMBDA seen, r : IF Contains(seen, r.value) THEN seen ELSE Append(seen, r.value),
                 <<>>, found)

planLoopHoists(fn, s) ==
    [k \in DOMAIN s.blocks |-> IF k \in s.headers THEN loopHoists(fn, s, k) ELSE <<>>]

\* loopHoist: the locals a loop reads the pointer and the length from.
HoistLocals(header, value) ==
    LET name == "hoist" \o ToString(header) \o value.name
    IN  [data |-> name \o "data", length |-> name \o "len"]

-----------------------------------------------------------------------------
(* frame.go *)

SlotSize(type) == CASE type = "[]i64" -> 8 [] isMemoryType(type) -> 16 [] OTHER -> 8
SlotAlign(type) == IF type = "[]i64" THEN 4 ELSE 8

alignUp(n, to) == ((n + to - 1) \div to) * to

\* A phi of a block another phi of the block reads: it may have to be parked.
phisReadByPhis(block) ==
    LET phis == SelectSeq(block.instrs, LAMBDA i : i.op = "phi")
        names == {phis[i].result.name : i \in DOMAIN phis}
    IN  UNION {{in.value.name : in \in Range(phis[i].incoming)} \ {phis[i].result.name} : i \in DOMAIN phis}
        \cap names

\* planFrame: a slot for each result that lives in memory and each local
\* slot, then the slots phis keep and park their bytes in.
planFrame(fn, inLocals) ==
    LET slot(key, type) == <<[key |-> key, type |-> type]>>
        slots(i) ==
            IF i.op = "local.slot" THEN slot("local:" \o i.result.name, derefType(i.result.type))
            ELSE IF isMemoryType(i.result.type) /\ i.op # "phi" /\ i.result.name \notin inLocals
            THEN slot("result:" \o i.result.name, i.result.type) ELSE <<>>
        cells(block, i) ==
            IF i.op # "phi" \/ ~isMemoryType(i.result.type) THEN <<>>
            ELSE slot("phi:" \o i.result.name, i.result.type) \o
                 (IF i.result.name \in phisReadByPhis(block)
                  THEN slot("park:" \o i.result.name, i.result.type) ELSE <<>>)
        all == FlattenSeq([p \in DOMAIN fn.blocks |->
                   FlattenSeq([k \in DOMAIN fn.blocks[p].instrs |-> slots(fn.blocks[p].instrs[k])])])
               \o FlattenSeq([p \in DOMAIN fn.blocks |->
                   FlattenSeq([k \in DOMAIN fn.blocks[p].instrs |->
                                cells(fn.blocks[p], fn.blocks[p].instrs[k])])])
        allocate(frame, sl) ==
            LET offset == alignUp(frame.size, SlotAlign(sl.type))
            IN  [size |-> offset + SlotSize(sl.type), slots |-> (sl.key :> offset) @@ frame.slots]
        planned == FoldHeld(allocate, [size |-> 0, slots |-> <<>>], all)
    IN  [planned EXCEPT !.size = alignUp(@, 8)]

-----------------------------------------------------------------------------
(* The emitter e: what each value is read as, the hoisted reads in use,     *)
(* and the code written so far.  f is what writeFunction planned.           *)

\* valueInfo: an expression, or the locals of a flag or of an optional.
Info(x) == [expr |-> x, flag |-> "", payload |-> "", code |-> 0]

Frame == "__kizu_frame"
Result == "__kizu_result"
phiTempLocal(type) == "__kizu_phi_" \o type
optionPayloadLocal(name) == name \o ".payload"

addressAt(x, offset) == IF offset = 0 THEN x ELSE <<"add", x, offset>>

frameSlot(f, key) == addressAt(Get(Frame), f.frame.slots[key])

value(e, v) == IF v.name \in DOMAIN e.values THEN e.values[v.name] ELSE Info(Get(v.name))

Expr(e, v) == value(e, v).expr

Writes(e, item) == [e EXCEPT !.out = Append(@, item)]

Becomes(e, v, info) == [e EXCEPT !.values = (v.name :> info) @@ @]

writeScalarResult(e, v, x) == Becomes(Writes(e, <<"set", v.name, x>>), v, Info(Get(v.name)))

\* Writes code of its own: what `write` adds becomes the body of an item.
Inside(e, write(_), item(_)) ==
    LET inner == write([e EXCEPT !.out = <<>>])
    IN  [inner EXCEPT !.out = Append(e.out, item(inner.out))]

restoreFrame(f, e) == IF f.frame.size > 0 THEN Writes(e, <<"release">>) ELSE e

-----------------------------------------------------------------------------
(* Instructions. *)

\* Integers of every width share the wasm i64: a cast between them is the
\* expression it casts, and reading it reads what it casts.
writeCast(e, instr) == Becomes(e, instr.result, Info(Expr(e, instr.args[1])))

writeConst(e, instr) == Becomes(e, instr.result, Info(<<"const", instr.imm[1]>>))

writeBinary(e, instr) ==
    writeScalarResult(e, instr.result,
        <<"op", instr.op, instr.args[1].type, Expr(e, instr.args[1]), Expr(e, instr.args[2])>>)

writeTableGet(e, instr) ==
    writeScalarResult(e, instr.result, <<"table", instr.imm, Expr(e, instr.args[1])>>)

writeCondFail(e, instr) ==
    Writes(e, <<"if", Expr(e, instr.args[1]), << <<"panic", instr.of>> >>, <<>> >>)

\* A result in memory is written by the callee, into the slot it is lent.
writeCall(f, e, instr) ==
    LET xs == [a \in DOMAIN instr.args |-> Expr(e, instr.args[a])]
        v == instr.result
    IN  IF isMemoryType(v.type)
        THEN LET slot == frameSlot(f, "result:" \o v.name)
             IN  Becomes(Writes(e, <<"call", instr.of, <<slot>> \o xs, "">>), v, Info(slot))
        ELSE IF v.type = "void" THEN Writes(e, <<"call", instr.of, xs, "">>)
        ELSE Becomes(Writes(e, <<"call", instr.of, xs, v.name>>), v, Info(Get(v.name)))

writeLocalSlot(f, e, instr) ==
    LET slot == frameSlot(f, "local:" \o instr.result.name)
    IN  Becomes(Writes(e, <<"store", slot, Expr(e, instr.args[1])>>), instr.result, Info(slot))

\* writeTaggedResult, with the payload unless there is none.
writeTagged(f, e, v, tag, payload) ==
    LET slot == frameSlot(f, "result:" \o v.name)
        tagged == Becomes(Writes(e, <<"store", slot, <<"const", tag>> >>), v, Info(slot))
    IN  IF payload = <<>> THEN tagged
        ELSE Writes(tagged, <<"store", addressAt(slot, 8), payload[1]>>)

OptionInfo(v) ==
    [Info(<<>>) EXCEPT !.flag = v.name, !.payload = optionPayloadLocal(v.name)]

FlagInfo(v, code) == [Info(<<>>) EXCEPT !.flag = v.name, !.code = code]

writeOptional(f, e, instr, present, payload) ==
    LET v == instr.result
        set == Writes(e, <<"set", v.name, <<"const", present>> >>)
    IN  IF v.name \notin f.options THEN writeTagged(f, e, v, present, payload)
        ELSE Becomes(IF payload = <<>> THEN set
                     ELSE Writes(set, <<"set", optionPayloadLocal(v.name), payload[1]>>),
                     v, OptionInfo(v))

writeTaggedHas(e, instr) ==
    LET source == value(e, instr.args[1])
    IN  writeScalarResult(e, instr.result,
            IF source.flag # "" THEN Get(source.flag) ELSE <<"ne", <<"load", source.expr>> >>)

\* The payload behind a tag.
writePayload(e, instr) ==
    LET source == value(e, instr.args[1])
    IN  writeScalarResult(e, instr.result,
            IF source.payload # "" THEN Get(source.payload)
            ELSE <<"load", addressAt(source.expr, 8)>>)

writeErrorCode(e, instr) ==
    LET source == value(e, instr.args[1])
    IN  IF source.flag # "" THEN Becomes(e, instr.result, Info(<<"const", source.code>>))
        ELSE writePayload(e, instr)

\* A failure goes out through the function's own result.
writeErrorTry(f, e, instr) ==
    LET source == value(e, instr.args[1])
        failed == <<"eqz", IF source.flag # "" THEN Get(source.flag) ELSE <<"load", source.expr>> >>
        code == IF source.flag # "" THEN <<"const", source.code>>
                ELSE <<"load", addressAt(source.expr, 8)>>
        leave(in) == Writes(restoreFrame(f, Writes(Writes(in,
                        <<"store", Get(Result), <<"const", 0>> >>),
                        <<"store", addressAt(Get(Result), 8), code>>)), <<"br", "exit">>)
        tried == Inside(e, leave, LAMBDA body : <<"if", failed, body, <<>> >>)
    IN  IF instr.result.type = "void" THEN tried ELSE writePayload(tried, instr)

\* viewPointer, viewLength, arrayHeader: what an operation reads of its Array or view.
readsData(op) == op \in {"array.get", "array.get_or_panic", "array.at", "array.at_mut", "array.set",
                         "slice.index", "slice.store"}
readsLength(op) == op \in {"array.len", "array.get", "array.get_or_panic", "array.at", "array.at_mut",
                           "array.set", "slice.len"}

\* What is left to IRMachine, into a local, the two locals of an optional, a
\* flag, a slot of the frame, or nowhere.
writeRun(f, e, instr) ==
    LET v == instr.result
        xs == [a \in DOMAIN instr.args |-> Expr(e, instr.args[a])]
        first == instr.args[1].name
        data == IF first \in DOMAIN e.hoisted /\ readsData(instr.op) THEN e.hoisted[first].data ELSE ""
        length == IF first \in DOMAIN e.hoisted /\ readsLength(instr.op) THEN e.hoisted[first].length ELSE ""
        code(to) == Writes(e, <<"run", instr, xs, to, data, length>>)
        run(to, info) == Becomes(code(to), v, info)
        slot == frameSlot(f, "result:" \o v.name)
    IN  CASE v.type \in {"", "void"} -> code(<<"none">>)
          [] v.name \in f.options ->
                run(<<"option", v.name, optionPayloadLocal(v.name)>>, OptionInfo(v))
          [] v.name \in f.flags ->
                run(<<"flag", v.name>>, FlagInfo(v,
                    IF instr.op = "array.append" THEN OutOfMemory ELSE OutOfBounds))
          [] isMemoryType(v.type) -> run(<<"slot", slot>>, Info(slot))
          [] OTHER -> run(<<"local", v.name>>, Info(Get(v.name)))

writeInstr(f, e, instr) ==
    LET op == instr.op
        arg == [a \in DOMAIN instr.args |-> Expr(e, instr.args[a])]
    IN
    CASE op = "phi" -> e
      [] op = "const" -> writeConst(e, instr)
      [] op \in BinaryOps -> writeBinary(e, instr)
      [] op = "cond_fail" -> writeCondFail(e, instr)
      [] op = "call" -> writeCall(f, e, instr)
      [] op = "cast" -> writeCast(e, instr)
      [] op = "table.get" -> writeTableGet(e, instr)
      [] op = "local.slot" -> writeLocalSlot(f, e, instr)
      [] op = "opt.null" -> writeOptional(f, e, instr, 0, <<>>)
      [] op = "opt.some" -> writeOptional(f, e, instr, 1, arg)
      [] op = "error.ok" -> writeTagged(f, e, instr.result, 1, arg)
      [] op = "error.error" -> writeTagged(f, e, instr.result, 0, arg)
      [] op \in {"opt.has", "error.has"} -> writeTaggedHas(e, instr)
      [] op \in {"opt.value", "error.value"} -> writePayload(e, instr)
      [] op = "error.code" -> writeErrorCode(e, instr)
      [] op = "error.try" -> writeErrorTry(f, e, instr)
      [] OTHER -> writeRun(f, e, instr)

-----------------------------------------------------------------------------
(* Edges. *)

\* The locals an expression kept for a value reads.
RECURSIVE LocalsIn(_)
LocalsIn(x) == CASE x[1] = "get" -> {x[2]} [] x[1] = "add" -> LocalsIn(x[2]) [] OTHER -> {}

Phis(block) == SelectSeq(block.instrs, LAMBDA i : i.op = "phi")

\* The copies an edge makes.
Copies(f, e, source, target) ==
    LET from == f.s.blocks[source].name
        phis == Phis(f.s.blocks[target])
        copy(phi) ==
            LET in == SelectSeq(phi.incoming, LAMBDA i : i.block = from)
                src(i) == Expr(e, in[i].value)
            IN  [i \in DOMAIN in |->
                   [dst |-> phi.result.name, src |-> src(i), reads |-> LocalsIn(src(i))]]
    IN  FlattenSeq([p \in DOMAIN phis |-> copy(phis[p])])

hasPhiCell(v) == isMemoryType(v.type)

\* The copies of an edge are written in the turns Backend has; a value in
\* memory is copied to the phi's own slot, and parked in its park slot.
writePhiCopies(f, e, source, target) ==
    LET copies == Copies(f, e, source, target)
        results == {i.result : i \in Range(Phis(f.s.blocks[target]))}
        phi == [p \in Assigned(copies) |-> CHOOSE v \in results : v.name = p]
        cells == {p \in Assigned(copies) : hasPhiCell(phi[p])}
        parks == {"park:" \o p : p \in cells}
        spare == [p \in Assigned(copies) |->
                    IF p \in cells THEN "park:" \o p ELSE phiTempLocal(wasmType(phi[p].type))]
        held(x) == IF \E c \in parks : x = Get(c) THEN frameSlot(f, x[2]) ELSE x
        made(at, move) ==
            LET v == phi[move.dst]
                cell == frameSlot(f, "phi:" \o move.dst)
                src == held(move.src)
                moved == IF move.dst \in cells
                         THEN Writes(Writes(at, <<"copy", cell, src, SlotSize(v.type)>>),
                                     <<"set", move.dst, cell>>)
                         ELSE Writes(at, <<"set", move.dst, src>>)
            IN  Becomes(moved, v, Info(Get(move.dst)))
        parked(at, move) ==
            IF move.dst \in parks
            THEN Writes(at, <<"copy", frameSlot(f, move.dst), move.src, SlotSize(phi[move.src[2]].type)>>)
            ELSE Writes(at, <<"set", move.dst, move.src>>)
        turn(at, t) ==
            LET pending == Pending(copies, spare, t - 1)
                move == Move(pending, spare)
            IN  CASE pending = <<>> -> at
                  [] pending # <<>> /\ move.dst \in Assigned(copies) -> made(at, move)
                  [] OTHER -> parked(at, move)
    IN  FoldHeld(turn, e, [t \in 1..PhiTurns(copies) |-> t])

\* The phis of a header and every cast of one.
RECURSIVE CastsOf(_, _)
CastsOf(s, names) ==
    LET casts == UNION {{i.result.name : i \in {j \in Range(s.blocks[k].instrs) :
                            j.op = "cast" /\ j.args[1].name \in names}} : k \in DOMAIN s.blocks}
    IN  IF casts \subseteq names THEN names ELSE CastsOf(s, names \cup casts)

phisAndCasts(s, header) ==
    CastsOf(s, {phi.result.name : phi \in Range(Phis(s.blocks[header]))})

\* Whether a block below reads one of the names, or an edge leaving one
\* carries one into a phi.
readsNamesBelow(s, below, names) ==
    LET from == {s.blocks[k].name : k \in below} IN
    \/ \E k \in DOMAIN s.blocks : \E i \in Range(s.blocks[k].instrs) : \E in \in Range(i.incoming) :
            in.block \in from /\ in.value.name \in names
    \/ \E k \in below :
        \/ {s.blocks[k].term.value.name, s.blocks[k].term.cond.name} \cap names # {}
        \/ \E i \in Range(s.blocks[k].instrs) : \E a \in Range(i.args) : a.name \in names

readsPhisBelow(s, top, header) ==
    LET below == Dominated(s, top)
    IN  Cardinality(below) > BranchSubtreeLimit \/ readsNamesBelow(s, below, phisAndCasts(s, header))

\* Whether the condition, or a copy of the edge, reads a phi of the header.
edgeReadsPhis(f, e, source, target, header, cond) ==
    LET copies == Copies(f, e, source, target)
        reads == LocalsIn(cond) \cup UNION {c.reads : c \in Range(copies)}
    IN  \E phi \in Range(Phis(f.s.blocks[header])) : phi.result.name \in reads

LoopLabel(s, k) == "loop " \o s.blocks[k].name
BlockLabel(s, k) == "block " \o s.blocks[k].name

-----------------------------------------------------------------------------
(* Blocks: Ramsey's doTree. *)

\* What a loop reads before it is entered; a value an enclosing loop holds
\* keeps its locals.
writeLoopHoists(f, e, header) ==
    LET hoist(now, v) ==
            IF v.name \in DOMAIN now.hoisted THEN now
            ELSE LET held == HoistLocals(header, v)
                     read == Writes(now, <<"data", held.data, Expr(now, v)>>)
                 IN  [Writes(read, <<"length", held.length, Expr(now, v)>>) EXCEPT
                        !.hoisted = (v.name :> held) @@ @]
    IN  FoldHeld(hoist, e, f.hoists[header])

writeReturn(f, e, v) ==
    CASE v.type = "void" -> Writes(restoreFrame(f, e), <<"br", "exit">>)
      [] isMemoryType(v.type) ->
            Writes(restoreFrame(f, Writes(e, <<"copy", Get(Result), Expr(e, v), SlotSize(v.type)>>)),
                   <<"br", "exit">>)
      [] OTHER -> Writes(restoreFrame(f, e), <<"return", Expr(e, v)>>)

\* Without the look at what the edge to the other arm reads.
LoopBranchEdgeUnread(f, e, source, back, other, cond) ==
    /\ back # other
    /\ isBackEdge(f.s, source, back)
    /\ \/ isBackEdge(f.s, source, other) \/ other \in f.s.merges
       \/ ~readsPhisBelow(f.s, other, back)

\* The arm of a branch that goes back and the one that does not, when the
\* copies back can go ahead of the test: nothing the other arm reads, nor the
\* condition, is a phi they assign.
LoopBranch(f, e, source, back, other, cond) ==
    /\ back # other
    /\ isBackEdge(f.s, source, back)
    /\ \/ isBackEdge(f.s, source, other) \/ other \in f.s.merges
       \/ ~readsPhisBelow(f.s, other, back)
    /\ ~edgeReadsPhis(f, e, source, other, back, cond)

RECURSIVE writeTree(_, _, _)
RECURSIVE writeNodeWithin(_, _, _, _)
RECURSIVE writeBranchTo(_, _, _, _)

writeBranch(f, e, source) ==
    LET term == f.s.blocks[source].term
        then == f.s.at[term.target]
        else == f.s.at[term.els]
        cond == Expr(e, term.cond)
        negate == ~isBackEdge(f.s, source, then)
        back == IF negate THEN else ELSE then
        other == IF negate THEN then ELSE else
        ahead == Writes(writePhiCopies(f, e, source, back),
                        <<"br_if", LoopLabel(f.s, back), IF negate THEN <<"eqz", cond>> ELSE cond>>)
        first == writeBranchTo(f, [e EXCEPT !.out = <<>>], source, then)
        second == writeBranchTo(f, [first EXCEPT !.out = <<>>], source, else)
    IN  IF LoopBranch(f, e, source, back, other, cond)
        THEN writeBranchTo(f, ahead, source, other)
        ELSE [second EXCEPT !.out = Append(e.out, <<"if", cond, first.out, second.out>>)]

writeTerminator(f, e, k) ==
    LET term == f.s.blocks[k].term IN
    CASE term.op = "return" -> writeReturn(f, e, term.value)
      [] term.op = "jump" -> writeBranchTo(f, e, k, f.s.at[term.target])
      [] term.op = "branch" -> writeBranch(f, e, k)
      [] OTHER -> Writes(e, <<"unreachable">>)

\* The code of a target that is neither a loop above nor a merge is written
\* where its only edge leaves.
writeBranchTo(f, e, source, target) ==
    LET copied == writePhiCopies(f, e, source, target)
    IN  CASE isBackEdge(f.s, source, target) -> Writes(copied, <<"br", LoopLabel(f.s, target)>>)
          [] ~isBackEdge(f.s, source, target) /\ target \in f.s.merges ->
                Writes(copied, <<"br", BlockLabel(f.s, target)>>)
          [] OTHER -> writeTree(f, copied, target)

writeNodeWithin(f, e, k, merges) ==
    IF merges # <<>>
    THEN writeTree(f, Inside(e, LAMBDA in : writeNodeWithin(f, in, k, Tail(merges)),
                             LAMBDA body : <<"block", BlockLabel(f.s, merges[1]), body>>), merges[1])
    ELSE writeTerminator(f, FoldHeld(LAMBDA in, instr : writeInstr(f, in, instr),
                                     e, f.s.blocks[k].instrs), k)

writeTree(f, e, k) ==
    LET node(in) == writeNodeWithin(f, in, k, f.s.mergeChildren[k])
    IN  IF k \notin f.s.headers THEN node(e)
        ELSE [Inside(writeLoopHoists(f, e, k), node,
                     LAMBDA body : <<"loop", LoopLabel(f.s, k), body>>)
              EXCEPT !.hoisted = e.hoisted]

-----------------------------------------------------------------------------
(* Functions. *)

\* The wasm types of the phis another phi of their block reads.
phiTempTypes(fn) ==
    UNION {LET block == fn.blocks[p]
               read == phisReadByPhis(block)
           IN  {wasmType(phi.result.type) : phi \in
                    {i \in Range(Phis(block)) : i.result.name \in read}} : p \in DOMAIN fn.blocks}

functionParams(fn) ==
    (IF isMemoryType(fn.ret) THEN <<Result>> ELSE <<>>)
    \o [i \in DOMAIN fn.params |-> fn.params[i].name]

\* A local for each value, and the locals instructions work in beside them.
writeLocals(f, fn) ==
    LET made == SelectSeq(Instrs(fn), LAMBDA i : i.result.type \notin {"", "void"})
        names == [i \in DOMAIN made |-> made[i].result.name]
        options == SelectSeq(names, LAMBDA n : n \in f.options)
    IN  names \o [i \in DOMAIN options |-> optionPayloadLocal(options[i])]
        \o SetToSeq({phiTempLocal(type) : type \in phiTempTypes(fn)})
        \o FlattenSeq([k \in DOMAIN f.hoists |->
                FlattenSeq([h \in DOMAIN f.hoists[k] |->
                    LET held == HoistLocals(k, f.hoists[k][h]) IN <<held.data, held.length>>])])
        \o (IF f.frame.size > 0 THEN <<Frame>> ELSE <<>>)

\* Slots have their address before any block is written: a merge may be
\* written before the block that fills the slot it reads.
registerFrameValues(f, fn) ==
    LET slotted == {i \in Range(Instrs(fn)) : i.op = "local.slot" \/
                        (isMemoryType(i.result.type) /\ i.op # "phi"
                         /\ i.result.name \notin f.options \cup f.flags)}
        key(name) == IF ("local:" \o name) \in DOMAIN f.frame.slots THEN "local:" \o name
                     ELSE "result:" \o name
    IN  [name \in {i.result.name : i \in slotted} |-> Info(frameSlot(f, key(name)))]

\* A void return leaves the block named "exit"; the frame is released behind
\* it too.  A function whose control flow cannot be structured is refused.
writeFunction(fn) ==
    LET flags == flagResultsOf(fn)
        options == optionLocalsOf(fn)
        s == Held(analyze(fn))
        f == [s |-> s, flags |-> flags, options |-> options,
              frame |-> planFrame(fn, flags \cup options), hoists |-> planLoopHoists(fn, s)]
        start == [values |-> registerFrameValues(f, fn), hoisted |-> <<>>, out |-> <<>>]
        whole == << <<"block", "exit", writeTree(f, start, 1).out>> >>
        framed == IF f.frame.size = 0 THEN whole
                  ELSE << <<"reserve", f.frame.size>> >> \o whole \o << <<"release">> >>
        scalar == fn.ret # "void" /\ ~isMemoryType(fn.ret)
    IN  [name |-> fn.name, ret |-> fn.ret, params |-> functionParams(fn),
         locals |-> writeLocals(f, fn),
         code |-> IF ~s.reducible THEN << <<"refused">> >>
                  ELSE IF scalar THEN Append(framed, <<"unreachable">>) ELSE framed]

=============================================================================
