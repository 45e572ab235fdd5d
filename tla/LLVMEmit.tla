----------------------------- MODULE LLVMEmit -----------------------------
(***************************************************************************)
(* internal/llvm: a module of IR as LLVM text, for a native target.        *)
(*                                                                         *)
(* A block of the IR may become several of the text, and blocks are written*)
(* in their order in the function, which is not the order in which they    *)
(* run.  So what a value is written as, and in which block an edge starts, *)
(* may be known only later; four passes over the written lines come after. *)
(*                                                                         *)
(* The function called main is one of the program's own here, and not the  *)
(* entry point, which has C's arguments and result.                        *)
(***************************************************************************)
EXTENDS LLVMText

nicheOptional(type) == type \in {"?&i64", "?&var i64"}

-----------------------------------------------------------------------------
(* The emitter e: values is what each value is written as, out the lines,   *)
(* exits the label each block ended in, niches the optionals that are their *)
(* payload.                                                                *)

Goes(e, label) == Say(e, Line("br", <<>>, "", <<>>, <<label>>))

Becomes(e, v, operand) == [e EXCEPT !.values = (v.name :> operand) @@ @]

\* The value's own line: the register has its name.
Gets(e, v, op, of, uses) == Becomes(Define(e, localName(v.name), op, of, uses), v, localName(v.name))

Operands(e, instr) == [i \in DOMAIN instr.args |-> value(e, instr.args[i].name)]

-----------------------------------------------------------------------------
(* Before the blocks. *)

precomputeNicheAliases(fn) ==
    LET all == Instrs(fn)
        alias(instr) == \/ instr.op = "opt.some" /\ nicheOptional(instr.result.type)
                        \/ instr.op = "opt.value" /\ nicheOptional(instr.args[1].type)
        found == {i \in DOMAIN all : alias(all[i])}
    IN  [n \in {all[i].result.name : i \in found} |->
            all[CHOOSE i \in found : all[i].result.name = n].args[1].name]

\* What writes no line is known before any block is written.
registerForwardedValues(fn) ==
    LET defs == Defs(fn)
    IN  [n \in {m \in DOMAIN defs : forwardsOperand(defs[m])} |-> operandOf(defs, n)]

-----------------------------------------------------------------------------
(* Scalars, tables and checks. *)

llvmTypedPredicate(op, type) ==
    LET sign == IF type = "u64" THEN "u" ELSE "s" IN
    CASE op = "binary.==" -> "eq" [] op = "binary.!=" -> "ne"
      [] op = "binary.<" -> sign \o "lt" [] op = "binary.<=" -> sign \o "le"
      [] op = "binary.>" -> sign \o "gt" [] op = "binary.>=" -> sign \o "ge"

\* A shift by the width or more is poison: the amount is clamped before it,
\* and the result chosen after it.
writeShift(e, instr, a) ==
    LET v == instr.result
        clamp == Define(e, Own(v, "shift.in"), "icmp", "ult", <<a[2], Number(IntWidth)>>)
        amount == Define(clamp, Own(v, "shift.amount"), "select", "",
                         <<Own(v, "shift.in"), a[2], Number(0)>>)
        raw == Define(amount, Own(v, "shift.raw"), "shl", "", <<a[1], Own(v, "shift.amount")>>)
    IN  Gets(raw, v, "select", "", <<Own(v, "shift.in"), Own(v, "shift.raw"), Number(0)>>)

writeBinary(e, instr, a) ==
    LET v == instr.result IN
    CASE v.type = "bool" -> Gets(e, v, "icmp", llvmTypedPredicate(instr.op, instr.args[1].type), a)
      [] instr.op = "binary.<<" -> writeShift(e, instr, a)
      [] OTHER -> Gets(e, v, llvmBinaryOp(instr.op), "", a)

\* The index is clamped to the last entry.
writeTableGet(e, instr, a) ==
    LET v == instr.result
        last == Number(Len(instr.imm) - 1)
        in == Define(e, Own(v, "in"), "icmp", "ult", <<a[1], last>>)
        at == Define(in, Own(v, "at"), "select", "", <<Own(v, "in"), a[1], last>>)
        ptr == Define(at, Own(v, "ptr"), "id", "", <<Own(v, "at")>>)
    IN  Gets(ptr, v, "table", instr.imm, <<Own(v, "ptr")>>)

writeInternalCall(e, instr, a) ==
    IF instr.result.type = "void" THEN Say(e, Line("call", <<>>, instr.of, a, <<>>))
    ELSE Gets(e, instr.result, "call", instr.of, a)

-----------------------------------------------------------------------------
(* References, slots and views. *)

writeLocalSlot(e, v, a) == StoresTo(Gets(e, v, "alloca", 1, <<>>), localName(v.name), a[1])

writeRefLoad(e, v, a) == Gets(e, v, "load", "", a)

writeRefStore(e, v, a) == Becomes(StoresTo(e, a[1], a[2]), v, <<"void">>)

writeFieldRef(e, v, field, a) ==
    Gets(FieldAt(e, Own(v, "ptr"), a[1], field), v, "load", "", <<Own(v, "ptr")>>)

writeFieldAddr(e, v, field, a) == Becomes(FieldAt(e, localName(v.name), a[1], field), v, localName(v.name))

writeFieldRefSet(e, v, field, a) ==
    Becomes(StoresTo(FieldAt(e, Own(v, "ptr"), a[1], field), Own(v, "ptr"), a[2]), v, <<"void">>)

writeFieldInstr(e, instr, a) ==
    CASE instr.op = "field.ref" -> writeFieldRef(e, instr.result, instr.of, a)
      [] instr.op = "field.addr" -> writeFieldAddr(e, instr.result, instr.of, a)
      [] instr.op = "field.ref.set" -> writeFieldRefSet(e, instr.result, instr.of, a)

\* A view is its address and its length; a cond_fail stands before.
writeSliceLen(e, v, a) == Gets(e, v, "extract", "", <<a[1], Number(1)>>)

writeSliceIndex(e, v, a) ==
    LET data == Define(e, Own(v, "ptr"), "extract", "", <<a[1], Number(0)>>)
        elem == Define(data, Own(v, "elem.ptr"), "gep", "", <<Own(v, "ptr"), a[2]>>)
    IN  Gets(elem, v, "load", "", <<Own(v, "elem.ptr")>>)

writeSliceInstr(e, instr, a) ==
    CASE instr.op = "slice.len" -> writeSliceLen(e, instr.result, a)
      [] instr.op = "slice.index" -> writeSliceIndex(e, instr.result, a)
      [] instr.op = "slice.store" -> writeSliceStore(e, a)

-----------------------------------------------------------------------------
(* Optionals and error unions: { tag, payload } and { code, payload }, where *)
(* a code of zero is a success.                                             *)

writeOptSome(e, instr, a) ==
    LET v == instr.result IN
    IF nicheOptional(v.type) THEN Becomes(e, v, a[1])
    ELSE Gets(Define(e, Own(v, "some"), "insert", v.type, <<Zeroes, Number(1), Number(0)>>),
              v, "insert", v.type, <<Own(v, "some"), a[1], Number(1)>>)

writeOptNull(e, v) ==
    IF nicheOptional(v.type) THEN Becomes(e, v, null)
    ELSE Gets(e, v, "insert", v.type, <<Zeroes, Number(0), Number(0)>>)

writeOptHas(e, v, type, a) ==
    IF nicheOptional(type) THEN Gets(e, v, "icmp", "ne", <<a[1], null>>)
    ELSE Gets(Define(e, Own(v, "tag"), "extract", type, <<a[1], Number(0)>>),
              v, "icmp", "ne", <<Own(v, "tag"), Number(0)>>)

writeOptValue(e, v, type, a) ==
    IF nicheOptional(type) THEN Becomes(e, v, a[1])
    ELSE Gets(e, v, "extract", type, <<a[1], Number(1)>>)

writeOptInstr(e, instr, a) ==
    CASE instr.op = "opt.some" -> writeOptSome(e, instr, a)
      [] instr.op = "opt.null" -> writeOptNull(e, instr.result)
      [] instr.op = "opt.has" -> writeOptHas(e, instr.result, instr.args[1].type, a)
      [] instr.op = "opt.value" -> writeOptValue(e, instr.result, instr.args[1].type, a)

writeErrorTry(e, instr, a) ==
    LET v == instr.result
        type == instr.args[1].type
        ok == Own(v, "ok")
        succeeded == writeErrorSucceeded(e, ok, type, a[1])
        expected == Define(succeeded, Append(ok, "expected"), "id", "", <<ok>>)
        test == Chooses(expected, Append(ok, "expected"), Own(v, "try.ok"), Own(v, "try.err"))
        failed == writeErrorFailureReturn(Opens(test, Own(v, "try.err")), type, a[1])
        on == Opens(markCurrentBlockExit(failed, Own(v, "try.ok")), Own(v, "try.ok"))
    IN  IF v.type = "void" THEN on ELSE Gets(on, v, "extract", type, <<a[1], Number(1)>>)

writeErrorOK(e, v, a) ==
    IF v.type = "E!void" THEN Gets(e, v, "insert", v.type, <<Zeroes, Number(0), Number(0)>>)
    ELSE Gets(e, v, "insert", v.type, <<Zeroes, a[1], Number(1)>>)

writeErrorError(e, v, a) ==
    Becomes(writeErrorFailureCode(e, localName(v.name), v.type, a[1]), v, localName(v.name))

writeErrorHas(e, v, type, a) ==
    Becomes(writeErrorSucceeded(e, localName(v.name), type, a[1]), v, localName(v.name))

writeErrorValue(e, v, type, a) == Gets(e, v, "extract", type, <<a[1], Number(1)>>)

writeErrorCode(e, v, type, a) ==
    Becomes(failureCode(e, localName(v.name), type, a[1]), v, localName(v.name))

writeErrorInstr(e, instr, a) ==
    LET v == instr.result IN
    CASE instr.op = "error.ok" -> writeErrorOK(e, v, a)
      [] instr.op = "error.error" -> writeErrorError(e, v, a)
      [] instr.op = "error.has" -> writeErrorHas(e, v, instr.args[1].type, a)
      [] instr.op = "error.value" -> writeErrorValue(e, v, instr.args[1].type, a)
      [] instr.op = "error.code" -> writeErrorCode(e, v, instr.args[1].type, a)
      [] instr.op = "error.try" -> writeErrorTry(e, instr, a)

-----------------------------------------------------------------------------
(* Arrays: the address of a header of three words. *)

\* Null is the zero optional, a live address the element.
writeArrayOptionalLoadResult(e, instr) ==
    LET v == instr.result
        ptr == Made(e)
        part(p) == Own(v, p)
        test == Chooses(Define(markCurrentBlockExit(e, part("array.join")),
                               part("is_null"), "icmp", "eq", <<ptr, null>>),
                        part("is_null"), part("array.fail"), part("array.ok"))
        none == Goes(Opens(test, part("array.fail")), part("array.join"))
        elem == Define(Opens(none, part("array.ok")), part("value"), "load", "", <<ptr>>)
        some == Define(elem, part("some"), "insert", v.type, <<Zeroes, Number(1), Number(0)>>)
        whole == Define(some, part("ok"), "insert", v.type, <<part("some"), part("value"), Number(1)>>)
        join == Opens(Goes(whole, part("array.join")), part("array.join"))
    IN  Becomes(Say(join, Line("phi", localName(v.name), v.type, <<Zeroes, part("ok")>>,
                               <<part("array.fail"), part("array.ok")>>)),
                v, localName(v.name))

\* Length and storage are both read before the check.
writeArrayGetOrPanic(e, instr, a) ==
    LET length == arrayLoadField(e, a[1], Length)
        data == arrayLoadField(length, a[1], Data)
        elem == arrayElementAt(writeBoundsFailure(data, a[2], Made(length)), Made(data), a[2])
    IN  Gets(elem, instr.result, "load", "", <<Made(elem)>>)

\* writeErrorUnionFromBool.
writeArrayBoolResult(e, v, ok, code) ==
    Gets(Define(e, Own(v, "code"), "select", "", <<ok, Number(0), Number(code)>>),
         v, "insert", v.type, <<Zeroes, Own(v, "code"), Number(0)>>)

\* writeArrayCheckedStore included.
writeArraySet(e, instr, a) ==
    LET v == instr.result
        ok == Own(v, "ok")
        part(p) == Append(ok, p)
        length == arrayLoadField(e, a[1], Length)
        data == arrayLoadField(length, a[1], Data)
        in == Fresh(data, "array.set.in_range", "icmp", "ult", <<a[2], Made(length)>>)
        test == Chooses(markCurrentBlockExit(in, part("array.set.join")), Made(in),
                        part("array.set.store"), part("array.set.skip"))
        elem == arrayElementAt(Opens(test, part("array.set.store")), Made(data), a[2])
        stored == Goes(Define(elem, <<>>, "store", "", <<a[3], Made(elem)>>), part("array.set.join"))
        skipped == Goes(Opens(stored, part("array.set.skip")), part("array.set.join"))
        join == Say(Opens(skipped, part("array.set.join")),
                    Line("phi", ok, "i1", <<Number(1), Number(0)>>,
                         <<part("array.set.store"), part("array.set.skip")>>))
    IN  writeArrayBoolResult(join, v, ok, OutOfBounds)

\* The runtime is handed the storage and its size, never the header, and
\* answers in a slot; a size below zero is a refusal.
writeArrayGrowth(e, array, capacity, grown, ok) ==
    LET part(p) == Append(ok, p)
        addr == arrayFieldAddr(e, array, Data)
        data == Fresh(addr, "array.append.data", "load", "", <<Made(addr)>>)
        slot == Fresh(data, "array.append.storage", "alloca", 2, <<>>)
        call == Say(slot, Line("grow", <<>>, "", <<Made(slot), Made(data), capacity, grown>>, <<>>))
        storage == Fresh(call, "array.append.storage.data", "load", "", <<Made(slot)>>)
        sizeAt == Fresh(storage, "array.append.storage.cap.addr", "gep", "", <<Made(slot), Number(1)>>)
        size == Fresh(sizeAt, "array.append.storage.cap", "load", "", <<Made(sizeAt)>>)
        grew == Fresh(size, "array.append.grew", "icmp", "sge", <<Made(size), Number(0)>>)
        test == Chooses(grew, Made(grew), part("array.append.store"), part("array.append.join"))
        moved == Define(Opens(test, part("array.append.store")), <<>>, "store", "",
                        <<Made(storage), Made(addr)>>)
        room == arrayFieldAddr(moved, array, Capacity)
    IN  Goes(Define(room, <<>>, "store", "", <<Made(size), Made(room)>>), part("array.append.fast"))

\* writeArrayAppendPaths: into the tail where there is room, else after the
\* growth; the new length is stored last.
writeArrayAppend(e, instr, a) ==
    LET v == instr.result
        ok == Own(v, "ok")
        part(p) == Append(ok, p)
        lengthAt == arrayFieldAddr(e, a[1], Length)
        length == Fresh(lengthAt, "array.append.len", "load", "", <<Made(lengthAt)>>)
        capacity == arrayLoadField(length, a[1], Capacity)
        grown == Fresh(capacity, "array.append.grown", "add", "", <<Made(length), Number(1)>>)
        fits == Fresh(grown, "array.append.fits", "icmp", "slt", <<Made(length), Made(capacity)>>)
        test == Chooses(markCurrentBlockExit(fits, part("array.append.join")), Made(fits),
                        part("array.append.fast"), part("array.append.slow"))
        isNull == Fresh(Opens(test, part("array.append.slow")), "array.append.handle.null",
                        "icmp", "eq", <<a[1], null>>)
        slow == Chooses(isNull, Made(isNull), part("array.append.join"), part("array.append.grow"))
        more == writeArrayGrowth(Opens(slow, part("array.append.grow")), a[1], Made(capacity),
                                 Made(grown), ok)
        elem == ElementOf(Opens(more, part("array.append.fast")), a[1], Made(length))
        put == Define(elem, <<>>, "store", "", <<a[2], Made(elem)>>)
        counted == Define(put, <<>>, "store", "", <<Made(grown), Made(lengthAt)>>)
        join == Say(Opens(Goes(counted, part("array.append.join")), part("array.append.join")),
                    Line("phi", ok, "i1", <<Number(1), Number(0), Number(0)>>,
                         <<part("array.append.fast"), part("array.append.slow"),
                           part("array.append.grow")>>))
    IN  writeArrayBoolResult(join, v, ok, OutOfMemory)

writeArrayLen(e, v, a) ==
    LET addr == arrayFieldAddr(e, a[1], Length) IN Gets(addr, v, "load", "", <<Made(addr)>>)

writeArrayGet(e, instr, a) ==
    writeArrayOptionalLoadResult(arrayCheckedElement(e, a[1], a[2]), instr)

\* The address is the optional borrow, and null none.
writeBorrowOptionalResult(e, v) == Becomes(e, v, Made(e))

writeArrayAt(e, v, a) == writeBorrowOptionalResult(arrayCheckedElement(e, a[1], a[2]), v)

writeArrayInstr(e, instr, a) ==
    CASE instr.op = "array.len" -> writeArrayLen(e, instr.result, a)
      [] instr.op = "array.get" -> writeArrayGet(e, instr, a)
      [] instr.op \in {"array.at", "array.at_mut"} -> writeArrayAt(e, instr.result, a)
      [] instr.op = "array.get_or_panic" -> writeArrayGetOrPanic(e, instr, a)
      [] instr.op = "array.set" -> writeArraySet(e, instr, a)
      [] instr.op = "array.append" -> writeArrayAppend(e, instr, a)

-----------------------------------------------------------------------------
(* Blocks. *)

\* A value not written yet, and the block an edge starts in, are marks until
\* the body is written.
writePhi(e, instr) ==
    LET v == instr.result
        operand(in) == IF in.value.name \in DOMAIN e.values THEN value(e, in.value.name)
                       ELSE <<"phi.value", in.value.name>>
    IN  Becomes(Say(e, Line("phi", localName(v.name), v.type,
                            [i \in DOMAIN instr.incoming |-> operand(instr.incoming[i])],
                            [i \in DOMAIN instr.incoming |-> <<"phi.from", instr.incoming[i].block>>])),
                v, localName(v.name))

\* writeRuntimeInstr included.  An operation none of these is, is refused.
writeInstr(e, instr) ==
    LET op == instr.op
        a == Operands(e, instr)
    IN
    CASE op \in {"const", "cast"} ->
            Becomes(e, instr.result, IF op = "const" THEN Number(instr.imm[1]) ELSE a[1])
      [] op \in BinaryOps -> writeBinary(e, instr, a)
      [] op = "call" -> writeInternalCall(e, instr, a)
      [] op = "phi" -> writePhi(e, instr)
      [] op = "local.slot" -> writeLocalSlot(e, instr.result, a)
      [] op = "ref.load" -> writeRefLoad(e, instr.result, a)
      [] op = "ref.store" -> writeRefStore(e, instr.result, a)
      [] op \in {"field.ref", "field.addr", "field.ref.set"} -> writeFieldInstr(e, instr, a)
      [] op = "cond_fail" -> writeCondFail(e, instr, a)
      [] op \in {"array.len", "array.get", "array.get_or_panic", "array.at", "array.at_mut",
                 "array.set", "array.append"} -> writeArrayInstr(e, instr, a)
      [] op = "emit" -> Say(e, Line("print", <<>>, "", a, <<>>))
      [] op \in {"slice.len", "slice.index", "slice.store"} -> writeSliceInstr(e, instr, a)
      [] op \in {"error.ok", "error.error", "error.value", "error.code", "error.has", "error.try"} ->
            writeErrorInstr(e, instr, a)
      [] op \in {"opt.has", "opt.null", "opt.some", "opt.value"} -> writeOptInstr(e, instr, a)
      [] op = "table.get" -> writeTableGet(e, instr, a)
      [] OTHER -> Say(e, Line("refused", <<>>, op, <<>>, <<>>))

\* A union that is not the function's own (writeErrorUnionReturn) does not get
\* here: lowering wraps what is returned.
writeTerminator(e, term) ==
    CASE term.op = "return" ->
            IF term.value.type \in {"", "void"} THEN Returns(e, "void", <<>>)
            ELSE Returns(e, term.value.type, <<value(e, term.value.name)>>)
      [] term.op = "jump" -> Goes(e, <<term.target>>)
      [] term.op = "branch" -> Chooses(e, value(e, term.cond.name), <<term.target>>, <<term.els>>)
      [] OTHER -> Say(e, Line("unreachable", <<>>, "", <<>>, <<>>))

writeBlock(e, block) ==
    LET open == [Opens(e, <<block.name>>) EXCEPT !.block = block.name]
    IN  writeTerminator(FoldHeld(writeInstr, open, block.instrs), block.term)

-----------------------------------------------------------------------------
(* After the blocks, over the lines. *)

\* A mutant: an edge starts where its block does.
resolvePhiValues(e) ==
    LET operand(x) == IF x[1] = "phi.value" THEN value(e, x[2]) ELSE x
        label(x) == IF x[1] = "phi.from" THEN <<x[2]>> ELSE x
    IN  [i \in DOMAIN e.out |->
            IF e.out[i].op # "phi" THEN e.out[i]
            ELSE [e.out[i] EXCEPT !.uses = [k \in DOMAIN @ |-> operand(@[k])],
                                  !.to = [k \in DOMAIN @ |-> label(@[k])]]]

\* Each mark becomes what it stands for: the operand a value was written as,
\* the label a block ended in.
resolvePhiPredecessors(e) ==
    LET operand(x) == IF x[1] = "phi.value" THEN value(e, x[2]) ELSE x
        label(x) == IF x[1] # "phi.from" THEN x
                    ELSE IF x[2] \in DOMAIN e.exits THEN e.exits[x[2]] ELSE <<x[2]>>
    IN  [i \in DOMAIN e.out |->
            IF e.out[i].op # "phi" THEN e.out[i]
            ELSE [e.out[i] EXCEPT !.uses = [k \in DOMAIN @ |-> operand(@[k])],
                                  !.to = [k \in DOMAIN @ |-> label(@[k])]]]

\* A union put together from a register for each field.
Assemble(type, field(_), built(_)) ==
    [i \in 1..aggregateFields(type) |->
        Line("insert", built(i - 1), type,
             <<IF i = 1 THEN Zeroes ELSE built(i - 2), field(i - 1), Number(i - 1)>>, <<>>)]

\* The returns of a union from more than one place become one, fed by a phi
\* for each field.
unifyAggregateReturns(lines, type, references) ==
    LET rets == SelectSeq([i \in DOMAIN lines |-> i], LAMBDA i : lines[i].op = "ret")
        blocks == BlockOf(lines)
        part(arm, f) == ReturnJoin \o <<"arm" \o ToString(arm), "f" \o ToString(f)>>
        field(f) == Append(ReturnJoin, "f" \o ToString(f))
        built(f) == Append(ReturnJoin, "built" \o ToString(f))
        arm(i) == CHOOSE k \in DOMAIN rets : rets[k] = i
        leaves(i) ==
            [f \in 1..aggregateFields(type) |->
                Line("extract", part(arm(i), f - 1), type, <<lines[i].uses[1], Number(f - 1)>>, <<>>)]
            \o <<Line("br", <<>>, "", <<>>, <<ReturnJoin>>)>>
        phi(f) == Line("phi", field(f), "", [k \in DOMAIN rets |-> part(k, f)],
                       [k \in DOMAIN rets |-> blocks[rets[k]]])
    IN  IF \/ aggregateFields(type) = 0 \/ Len(rets) < 2
           \/ references # 1 /\ Len(lines) > inlinableBodyLines
        THEN lines
        ELSE FlattenSeq([i \in DOMAIN lines |-> IF lines[i].op = "ret" THEN leaves(i) ELSE <<lines[i]>>])
             \o <<Line("label", ReturnJoin, "", <<>>, <<>>)>>
             \o [f \in 1..aggregateFields(type) |-> phi(f - 1)]
             \o Assemble(type, field, built)
             \o <<Line("ret", <<>>, type, <<built(aggregateFields(type) - 1)>>, <<>>)>>

\* A phi of a union becomes one for each field.  The fields are read at the
\* end of the block they arrive from; the union is put together again behind
\* the last phi of its block.
splitAggregatePhis(lines) ==
    LET blocks == BlockOf(lines)
        split == SelectSeq([i \in DOMAIN lines |-> i], LAMBDA i :
                    lines[i].op = "phi" /\ aggregateFields(lines[i].of) > 0)
        part(k, arm, f) == lines[split[k]].def \o
                           <<"split" \o ToString(k), "arm" \o ToString(arm), "f" \o ToString(f)>>
        field(k, f) == lines[split[k]].def \o <<"split" \o ToString(k), "f" \o ToString(f)>>
        built(k, f) == IF f + 1 = aggregateFields(lines[split[k]].of) THEN lines[split[k]].def
                       ELSE lines[split[k]].def \o <<"split" \o ToString(k), "built" \o ToString(f)>>
        phis(k) == LET line == lines[split[k]] IN
            [f \in 1..aggregateFields(line.of) |->
                Line("phi", field(k, f - 1), "", [arm \in DOMAIN line.to |-> part(k, arm, f - 1)], line.to)]
        builds(k) == LET fieldOf(f) == field(k, f)
                         builtOf(f) == built(k, f)
                     IN  Assemble(lines[split[k]].of, fieldOf, builtOf)
        reads(k, label) == LET line == lines[split[k]] IN
            FlattenSeq([f \in 1..aggregateFields(line.of) |->
                LET arms == SelectSeq([a \in DOMAIN line.to |-> a], LAMBDA a : line.to[a] = label)
                IN  [j \in DOMAIN arms |->
                        Line("extract", part(k, arms[j], f - 1), line.of,
                             <<line.uses[arms[j]], Number(f - 1)>>, <<>>)]])
        order == [k \in DOMAIN split |-> k]
        \* the split phis whose block's phis end at line i
        pending(i) == SelectSeq(order, LAMBDA k :
                        /\ split[k] < i
                        /\ \A j \in split[k]..(i - 1) : lines[j].op = "phi")
        becomes(i) ==
            CASE lines[i].op = "phi" /\ aggregateFields(lines[i].of) > 0 ->
                    phis(CHOOSE k \in DOMAIN split : split[k] = i)
              [] lines[i].op = "phi" -> <<lines[i]>>
              [] OTHER ->
                    LET due == pending(i) IN
                    FlattenSeq([d \in DOMAIN due |-> builds(due[d])])
                    \o (IF ~isBlockTerminator(lines[i]) THEN <<>>
                        ELSE FlattenSeq([k \in DOMAIN order |-> reads(k, blocks[i])]))
                    \o <<lines[i]>>
    IN  IF split = <<>> THEN lines ELSE FlattenSeq([i \in DOMAIN lines |-> becomes(i)])

\* An alloca outside the entry block would take stack on every turn.
hoistAllocasToEntry(lines) ==
    LET isAlloca(line) == line.op = "alloca"
        kept == SelectSeq(lines, LAMBDA line : line.op # "alloca")
    IN  <<Head(kept)>> \o SelectSeq(lines, isAlloca) \o Tail(kept)

\* Every name read is defined in the function, and every alloca is in its
\* entry block.
verifyEmittedText(fn) ==
    LET lines == fn.lines
        defs == {lines[i].def : i \in DOMAIN lines} \cup Range(fn.params)
        reads == UNION {{x \in Range(lines[i].uses) : x[1] = "kizu"} \cup Range(lines[i].to) :
                        i \in DOMAIN lines}
        blocks == BlockOf(lines)
    IN  /\ reads \subseteq defs
        /\ \A i \in DOMAIN lines : lines[i].op = "alloca" => blocks[i] = blocks[1]

writeFunction(mod, fn) ==
    LET params == definitionParams(fn)
        given == [n \in {fn.params[i].name : i \in DOMAIN fn.params} |-> localName(n)]
        start == [values |-> registerForwardedValues(fn) @@ given, out |-> <<>>, next |-> 0,
                  block |-> "", exits |-> <<>>, niches |-> precomputeNicheAliases(fn), ret |-> fn.ret]
        body == resolvePhiPredecessors(FoldHeld(writeBlock, start, fn.blocks))
        joined == Held(unifyAggregateReturns(body, fn.ret, countReferences(mod, fn.name)))
        split == Held(splitAggregatePhis(joined))
    IN  [name |-> fn.name, params |-> params, ret |-> fn.ret, lines |-> hoistAllocasToEntry(split)]

-----------------------------------------------------------------------------
(* clang, and the machine that runs what it makes. *)

\* The code of each function, or why there is none.
EmitModule(mod) ==
    LET made(f) == LET fn == Held(writeFunction(mod, mod[f])) IN
            IF ~verifyEmittedText(fn) \/ \E i \in DOMAIN fn.lines : fn.lines[i].op = "refused"
            THEN [name |-> fn.name, ok |-> "refused"]
            ELSE IF ~Sound(fn) THEN [name |-> fn.name, ok |-> "rejected"]
            ELSE [name |-> fn.name, ok |-> "", params |-> fn.params, ret |-> fn.ret,
                  entry |-> fn.lines[1].def, blocks |-> Blocks(fn)]
    IN  [f \in DOMAIN mod |-> Held(made(f))]

=============================================================================
