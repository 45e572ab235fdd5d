------------------------------ MODULE LLVMText ------------------------------
(***************************************************************************)
(* The text the LLVM backend writes (internal/llvm), its emitter, and the  *)
(* short sequences of lines the operations of LLVMEmit are written with.   *)
(*                                                                         *)
(* A name of the text is a sequence of the parts the code joins with dots: *)
(* <<"kizu", "v3", "ptr">> is %kizu.v3.ptr, <<"if.then.2">> a block of the *)
(* IR.  Registers and labels share one space of names, as in LLVM.  An     *)
(* operand is a register, a literal <<"#", n>> or zeroinitializer.         *)
(***************************************************************************)
EXTENDS IRMachine

\* op and its operands; def is the register or label the line defines, of a
\* type, predicate, function or panic, to the labels it names: the targets of
\* a branch, or where each arm of a phi arrives from.
Line(op, def, of, uses, to) == [op |-> op, def |-> def, of |-> of, uses |-> uses, to |-> to]

Number(n) == <<"#", n>>
Zeroes == <<"zeroinitializer">>
null == Number(0)

localName(name) == <<"kizu", name>>

\* The tagged unions: the fields each has.  A ?&T is its own address.
aggregateFields(type) ==
    CASE type \in {"?i64", "E!i64"} -> 2 [] type = "E!void" -> 1 [] OTHER -> 0

-----------------------------------------------------------------------------
(* The emitter e: values is what each value is written as, out the lines,   *)
(* exits the label each block ended in, niches the optionals that are their *)
(* payload.                                                                *)

Say(e, line) == [e EXCEPT !.out = Append(@, line)]

Define(e, name, op, of, uses) == Say(e, Line(op, name, of, uses, <<>>))

\* nextSyntheticValue, and the line that defines the name.
Fresh(e, prefix, op, of, uses) ==
    Define([e EXCEPT !.next = @ + 1], <<"kizu", prefix, ToString(e.next + 1)>>, op, of, uses)

Made(e) == Last(e.out).def

Opens(e, label) == Define(e, label, "label", "", <<>>)

Chooses(e, cond, then, else) == Say(e, Line("condbr", <<>>, "", <<cond>>, <<then, else>>))

markCurrentBlockExit(e, label) == [e EXCEPT !.exits = (e.block :> label) @@ @]

Own(v, part) == Append(localName(v.name), part)

\* What an optional that is its payload stands for, through any number of them.
RECURSIVE nicheAliasSource(_, _)
nicheAliasSource(niches, name) ==
    IF niches[name] \in DOMAIN niches /\ niches[name] # name
    THEN nicheAliasSource(niches, niches[name]) ELSE niches[name]

named(e, name) == IF name \in DOMAIN e.values THEN e.values[name] ELSE localName(name)

value(e, name) ==
    IF name \notin DOMAIN e.values /\ name \in DOMAIN e.niches
    THEN named(e, nicheAliasSource(e.niches, name)) ELSE named(e, name)

-----------------------------------------------------------------------------
(* Before the blocks. *)

\* A cast between i64 and u64 changes no bit (castForwardsOperand).
forwardsOperand(instr) == instr.op \in {"const", "cast"}

RECURSIVE operandOf(_, _)
operandOf(defs, name) ==
    IF name \notin DOMAIN defs \/ ~forwardsOperand(defs[name]) THEN localName(name)
    ELSE IF defs[name].op = "const" THEN Number(defs[name].imm[1])
    ELSE operandOf(defs, defs[name].args[1].name)

definitionParams(fn) == [i \in DOMAIN fn.params |-> localName(fn.params[i].name)]

-----------------------------------------------------------------------------
(* Scalars, tables and checks. *)

llvmBinaryOp(op) ==
    CASE op = "binary.+" -> "add" [] op = "binary.-" -> "sub" [] op = "binary.*" -> "mul"
      [] op = "binary.&" -> "and" [] op = "binary.|" -> "or" [] op = "binary.^" -> "xor"

IntWidth == CHOOSE w \in 1..64 : 2^w = 2 * IntLimit

\* writePanicCall.
Panics(e, kind, args) ==
    Say(Say(e, Line("panic", <<>>, kind, args, <<>>)), Line("unreachable", <<>>, "", <<>>, <<>>))

\* The labels are the check's own: two checks may test one condition.
writeCondFail(e, instr, a) ==
    LET check == <<"kizu", "check", ToString(e.next + 1)>>
        fail == Append(check, "fail")
        pass == Append(check, "pass")
        test == Chooses(markCurrentBlockExit([e EXCEPT !.next = @ + 1], pass), a[1], fail, pass)
    IN  Opens(Panics(Opens(test, fail), instr.of, Tail(a)), pass)

-----------------------------------------------------------------------------
(* References, slots and views. *)

StoresTo(e, address, x) == Define(e, <<>>, "store", "", <<x, address>>)

FieldAt(e, name, ref, field) == Define(e, name, "gep", "", <<ref, Number(FieldCell(field))>>)

writeSliceStore(e, a) ==
    LET base == Fresh(e, "slice.store", "extract", "", <<a[1], Number(0)>>)
        cell == Fresh(base, "slice.store.elem", "gep", "", <<Made(base), a[2]>>)
    IN  StoresTo(cell, Made(cell), a[3])

-----------------------------------------------------------------------------
(* Optionals and error unions: { tag, payload } and { code, payload }, where *)
(* a code of zero is a success.                                             *)

failureCode(e, name, type, union) == Define(e, name, "extract", type, <<union, Number(0)>>)

writeErrorSucceeded(e, name, type, union) ==
    Define(failureCode(e, Append(name, "code"), type, union), name, "icmp", "eq",
           <<Append(name, "code"), Number(0)>>)

writeErrorFailureCode(e, name, type, code) ==
    Define(e, name, "insert", type, <<Zeroes, code, Number(0)>>)

Returns(e, type, operands) == Say(e, Line("ret", <<>>, type, operands, <<>>))

\* The failed union is the function's own, or its code is put in one that is.
writeErrorFailureReturn(e, type, union) ==
    LET name == <<"kizu", "try.err", ToString(e.next + 1)>>
        code == failureCode([e EXCEPT !.next = @ + 1], Append(name, "code"), type, union)
    IN  IF type = e.ret THEN Returns(e, type, <<union>>)
        ELSE Returns(writeErrorFailureCode(code, name, e.ret, Append(name, "code")), e.ret, <<name>>)

-----------------------------------------------------------------------------
(* Arrays: the address of a header of three words. *)

Data == 0
Length == 1
Capacity == 2

arrayFieldAddr(e, array, field) == Fresh(e, "array.addr", "gep", "", <<array, Number(field)>>)

arrayLoadField(e, array, field) ==
    LET addr == arrayFieldAddr(e, array, field) IN Fresh(addr, "array.word", "load", "", <<Made(addr)>>)

arrayElementAt(e, data, index) == Fresh(e, "array.elem", "gep", "", <<data, index>>)

\* arrayElementAddr.
ElementOf(e, array, index) ==
    LET data == arrayLoadField(e, array, Data) IN arrayElementAt(data, Made(data), index)

\* The element's address, or null outside: an unsigned comparison, so that a
\* negative index is outside as well.
arrayCheckedElement(e, array, index) ==
    LET length == arrayLoadField(e, array, Length)
        in == Fresh(length, "array.in_range", "icmp", "ult", <<index, Made(length)>>)
        elem == ElementOf(in, array, index)
    IN  Fresh(elem, "array.checked", "select", "", <<Made(in), Made(elem), null>>)

writeBoundsFailure(e, index, length) ==
    LET in == <<"kizu", "array.get.panic.in_range", ToString(e.next + 1)>>
        ok == Append(in, "ok")
        fail == Append(in, "array.get.panic.bounds")
        test == Chooses(Define(markCurrentBlockExit([e EXCEPT !.next = @ + 1], ok),
                               in, "icmp", "ult", <<index, length>>), in, ok, fail)
    IN  Opens(Panics(Opens(test, fail), "bounds", <<index, length>>), ok)

-----------------------------------------------------------------------------
(* After the blocks, over the lines. *)

\* The label of the block each line is in.
BlockOf(lines) ==
    LET step(labels, line) ==
            Append(labels, IF line.op = "label" THEN line.def ELSE Last(labels))
    IN  Tail(FoldHeld(step, << <<>> >>, lines))

inlinableBodyLines == 100

ReturnJoin == <<"kizu", "return", "join">>

isBlockTerminator(line) == line.op \in {"br", "condbr", "ret", "unreachable"}

countReferences(mod, name) ==
    FoldLeft(LAMBDA n, f : n + Len(SelectSeq(Instrs(f), LAMBDA i : i.op = "call" /\ i.of = name)), 0, mod)

-----------------------------------------------------------------------------
(***************************************************************************)
(* clang, and the machine that runs what it makes of the text (external).  *)
(***************************************************************************)
\* What clang refuses: a name defined twice, a phi behind another
\* instruction, and one whose arms are not the edges into its block.
Sound(fn) ==
    LET lines == fn.lines
        defs == SelectSeq([i \in DOMAIN lines |-> lines[i].def], LAMBDA d : d # <<>>) \o fn.params
        blocks == BlockOf(lines)
        count(seq, x) == Cardinality({i \in DOMAIN seq : seq[i] = x})
        edges == FlattenSeq([i \in DOMAIN lines |->
                    IF lines[i].op \notin {"br", "condbr"} THEN <<>>
                    ELSE [k \in DOMAIN lines[i].to |-> <<blocks[i], lines[i].to[k]>>]])
        into(label) == LET in == SelectSeq(edges, LAMBDA x : x[2] = label)
                       IN  [k \in DOMAIN in |-> in[k][1]]
    IN  /\ Cardinality(Range(defs)) = Len(defs)
        /\ \A i \in DOMAIN lines : lines[i].op = "phi" =>
            /\ lines[i - 1].op \in {"phi", "label"}
            /\ LET from == into(blocks[i]) IN
               \A label \in Range(from) \cup Range(lines[i].to) :
                    count(from, label) = count(lines[i].to, label)

\* The lines of each block, by its label.
Blocks(fn) ==
    LET lines == fn.lines
        blocks == BlockOf(lines)
    IN  [label \in Range(blocks) |->
            LET mine == SelectSeq([i \in DOMAIN lines |-> i], LAMBDA i :
                            blocks[i] = label /\ lines[i].op # "label")
            IN  [k \in DOMAIN mine |-> lines[mine[k]]]]

Undefined == -1000

ZeroOf(type) ==
    LET n == aggregateFields(type) IN IF n = 0 THEN 0 ELSE [i \in 1..n |-> 0]

\* Bits are read as a signed integer.
Operand(s, type, x) ==
    CASE x[1] = "#" -> Wrap(x[2]) [] x = Zeroes -> ZeroOf(type)
      [] x \in DOMAIN s.env -> s.env[x] [] OTHER -> Undefined

Defined(s, x) == x[1] = "#" \/ x = Zeroes \/ x \in DOMAIN s.env

Compare(pred, l, r) ==
    CASE pred = "eq" -> l = r [] pred = "ne" -> l # r
      [] pred = "slt" -> l < r [] pred = "sle" -> l <= r
      [] pred = "sgt" -> l > r [] pred = "sge" -> l >= r
      [] pred = "ult" -> Unsigned(l) < Unsigned(r) [] pred = "ule" -> Unsigned(l) <= Unsigned(r)
      [] pred = "ugt" -> Unsigned(l) > Unsigned(r) [] pred = "uge" -> Unsigned(l) >= Unsigned(r)

Computes(line, u) ==
    CASE line.op = "add" -> Wrap(u[1] + u[2])
      [] line.op = "sub" -> Wrap(u[1] - u[2])
      [] line.op = "mul" -> Wrap(u[1] * u[2])
      [] line.op = "and" -> Wrap(Unsigned(u[1]) & Unsigned(u[2]))
      [] line.op = "or"  -> Wrap(Unsigned(u[1]) | Unsigned(u[2]))
      [] line.op = "xor" -> Wrap(Unsigned(u[1]) ^^ Unsigned(u[2]))
      [] line.op = "shl" -> IF Unsigned(u[2]) < IntWidth THEN Wrap(ShiftLeft(u[1], u[2])) ELSE Undefined
      [] line.op = "icmp" -> Truth(Compare(line.of, u[1], u[2]))
      [] line.op = "select" -> IF u[1] = 1 THEN u[2] ELSE u[3]
      [] line.op = "id" -> u[1]
      [] line.op = "table" -> line.of[u[1] + 1]
      [] line.op = "gep" -> u[1] + u[2]
      [] line.op = "extract" -> u[1][u[2] + 1]
      [] line.op = "insert" -> [u[1] EXCEPT ![u[3] + 1] = u[2]]

\* kizu_array_grow_capacity for elements of eight bytes.  What is asked for
\* beyond ArrayLimit is cut to it, so that an append is refused where the
\* source's is.
kizu_array_grow_capacity(minimum) ==
    LET init == Min({8, 4 * minimum})
        next == Max({2 * minimum, init})
    IN  Min({next + (next % 2), ArrayLimit})

\* kizu_array_grow and kizu_array_reserve_storage: the elements move to new
\* storage, and the old is gone.
Grow(s, slot, data, cap, needed) ==
    IF needed > ArrayLimit THEN [s EXCEPT !.mem[ObjectOf(slot)] = <<data, -1>>]
    ELSE LET size == kizu_array_grow_capacity(needed)
             old == IF data = 0 THEN <<>> ELSE Elements(s.mem, data)
             new == [i \in 1..size |-> IF i <= cap THEN old[i] ELSE Undefined]
             freed == IF data = 0 THEN s.mem ELSE [s.mem EXCEPT ![ObjectOf(data)] = <<>>]
         IN  [s EXCEPT !.mem = [Append(freed, new) EXCEPT
                                    ![ObjectOf(slot)] = <<(Len(freed) + 1) * Stride, size>>]]

Writes(s, line, n) == [s EXCEPT !.env = (line.def :> n) @@ @]

RECURSIVE RunNative(_, _, _, _, _)

\* One line that is neither a phi nor a terminator.
ExecLine(text, s, line, u) ==
    CASE line.op = "alloca" ->
            Writes([s EXCEPT !.mem = Append(@, [i \in 1..line.of |-> Undefined])], line,
                   (Len(s.mem) + 1) * Stride)
      [] line.op = "load" -> Reach(s, u[1], LAMBDA at : Writes(s, line, Load(s.mem, at)))
      [] line.op = "store" -> Reach(s, u[2], LAMBDA at : [s EXCEPT !.mem = Store(@, at, u[1])])
      [] line.op = "print" -> [s EXCEPT !.out = Append(@, u[1])]
      [] line.op = "panic" -> Halts(s, line.of)
      [] line.op = "grow" -> Grow(s, u[1], u[2], u[3], u[4])
      [] line.op = "call" ->
            LET done == RunNative(text, line.of, u, s.mem, s.out)
                after == [s EXCEPT !.mem = done.mem, !.out = done.out]
            IN  IF done.halt # "return" THEN Halts(after, done.halt)
                ELSE IF line.def = <<>> THEN after ELSE Writes(after, line, done.value)
      [] OTHER -> Writes(s, line, Computes(line, u))

\* The phis of a block read what held on the edge, all before any is set.
ArriveAt(s, lines) ==
    LET phis == SelectSeq(lines, LAMBDA l : l.op = "phi")
        taken(phi) == Operand(s, phi.of, phi.uses[CHOOSE k \in DOMAIN phi.to : phi.to[k] = s.prev])
    IN  IF phis = <<>> THEN s
        ELSE [s EXCEPT !.env = [d \in {phis[i].def : i \in DOMAIN phis} |->
                    taken(phis[CHOOSE i \in DOMAIN phis : phis[i].def = d])] @@ @]

\* A register is read only once it has been set.
ExecBlock(text, fn, s) ==
    LET lines == fn.blocks[s.at]
        goto(r, label) == [r EXCEPT !.prev = r.at, !.at = label]
        step(r, line) ==
            IF r.halt # "" \/ line.op = "phi" THEN r
            ELSE LET u == [i \in DOMAIN line.uses |-> Operand(r, line.of, line.uses[i])] IN
            CASE \E i \in DOMAIN line.uses : ~Defined(r, line.uses[i]) -> Halts(r, "undefined")
              [] line.op = "br" -> goto(r, line.to[1])
              [] line.op = "condbr" -> goto(r, line.to[IF u[1] = 1 THEN 1 ELSE 2])
              [] line.op = "ret" ->
                    [r EXCEPT !.halt = "return", !.value = IF u = <<>> THEN 0 ELSE u[1]]
              [] line.op = "unreachable" -> Halts(r, "fault")
              [] OTHER -> ExecLine(text, r, line, u)
    IN  FoldHeld(step, ArriveAt(s, lines), lines)

RECURSIVE ExecBlocks(_, _, _, _)
ExecBlocks(text, fn, s, n) ==
    CASE s.halt # "" \/ n = 0 -> s
      [] n = 1 -> ExecBlock(text, fn, s)
      [] OTHER -> ExecBlocks(text, fn, ExecBlocks(text, fn, s, n \div 2), n - (n \div 2))

BlocksEach == 8

RunNative(text, name, args, mem, out) ==
    LET fn == text[FunctionAt(text, name)]
        start == [env |-> <<>>, mem |-> mem, out |-> out, halt |-> fn.ok, value |-> 0,
                  at |-> <<>>, prev |-> <<>>]
        set == [d \in Range(fn.params) |-> args[CHOOSE i \in DOMAIN args : fn.params[i] = d]]
        end == IF fn.ok # "" THEN start
               ELSE ExecBlocks(text, fn, [start EXCEPT !.env = set, !.at = fn.entry], BlocksEach * Fuel)
    IN  IF end.halt = "" THEN Halts(end, "fuel") ELSE end

\* The Array becomes a header and its storage, a view its address and length;
\* and back, for what a caller can tell.
RunText(text, input) ==
    LET elems == input.mem[1]
        size == Len(elems)
        data == IF size = 0 THEN 0 ELSE 4 * Stride
        mem == << <<data, size, size>>, input.mem[2], input.mem[3], elems>>
        args == <<input.args[1], input.args[2], <<input.args[3], Len(input.mem[3])>>, input.args[4]>>
        end == RunNative(text, "main", args, mem, <<>>)
        header == end.mem[1]
        ret == text[FunctionAt(text, "main")]
        given == CASE end.halt # "return" -> 0
                   [] ret.ret = "E!i64" ->
                        IF end.value[1] = 0 THEN end.value[2] ELSE Failed + end.value[1]
                   [] ret.ret = "E!void" -> IF end.value[1] = 0 THEN 0 ELSE Failed + end.value[1]
                   [] OTHER -> end.value
        held == IF header[2] = 0 THEN <<>> ELSE SubSeq(Elements(end.mem, header[1]), 1, header[2])
    IN  Observe([end EXCEPT !.value = given, !.mem[1] = held], Len(input.mem))

=============================================================================
