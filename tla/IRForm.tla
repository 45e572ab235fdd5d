------------------------------- MODULE IRForm -------------------------------
(***************************************************************************)
(* The typed SSA form between lowering and the backends                    *)
(* (internal/ir/ir.go), the control flow graph of a function (verify.go),  *)
(* the rewriting that every pass is made of, and the values and the memory *)
(* of the machine that runs a module.                                      *)
(*                                                                         *)
(* A module is a sequence of functions, a function a sequence of blocks, a *)
(* block a sequence of instructions and a terminator.  An operation that   *)
(* carries a name in its spelling ("call.f", "field.ref.x") keeps the name *)
(* in the field "of".  An immediate is a sequence of integers: the value   *)
(* of a constant (a truth value is 0 or 1), or the values of a table.      *)
(* Struct literals, cleanups and foreign calls are not represented.        *)
(*                                                                         *)
(* Every value is an integer.  An i64 or u64 has 2 * IntLimit values and   *)
(* wraps.  Memory is a sequence of objects: a struct S of two fields, an   *)
(* Array or a view with its elements, a slot of one value; the address of  *)
(* cell o of object n is n * Stride + o, and 0 is the absent reference.    *)
(* An optional i64 is absent as Null.  An error union holds its success    *)
(* value, or Failed + code.                                                *)
(***************************************************************************)
EXTENDS Backend, FiniteSets, SequencesExt, Functions, Bitwise, TLC

CONSTANTS
    IntLimit,    \* i64 values are -IntLimit .. IntLimit - 1
    ArrayLimit,  \* the allocator refuses an Array more elements than this
    Fuel         \* blocks one call may run

ASSUME MachineAssumption ==
    /\ IntLimit \in Nat \ {0} /\ ArrayLimit \in Nat /\ Fuel \in Nat


Value(name, type) == [name |-> name, type |-> type]

NoValue == Value("", "")

\* What a void-like return carries (lower.go returnVoidValue).
VoidValue == Value("void", "void")

Instr(result, op, of, args, imm) ==
    [result |-> result, op |-> op, of |-> of, args |-> args, imm |-> imm,
     incoming |-> <<>>]

Incoming(block, value) == [block |-> block, value |-> value]

Phi(result, incoming) ==
    [Instr(result, "phi", "", <<>>, <<>>) EXCEPT !.incoming = incoming]

Open == [op |-> "", value |-> NoValue, cond |-> NoValue, target |-> "", els |-> ""]

Jump(target) == [Open EXCEPT !.op = "jump", !.target = target]

Branch(cond, target, els) ==
    [Open EXCEPT !.op = "branch", !.cond = cond, !.target = target, !.els = els]

Return(value) == [Open EXCEPT !.op = "return", !.value = value]

Unreachable == [Open EXCEPT !.op = "unreachable"]

\* FoldLeft, each step done before the next begins.
FoldHeld(op(_, _), base, seq) ==
    LET RECURSIVE from(_, _)
        from(acc, i) ==
            IF i > Len(seq) THEN acc
            ELSE LET next == op(acc, seq[i]) IN IF next = next THEN from(next, i + 1) ELSE acc
    IN  from(base, 1)

Block(name, instrs, term) == [name |-> name, instrs |-> instrs, term |-> term]

Successors(term) == SelectSeq(<<term.target, term.els>>, LAMBDA t : t # "")

-----------------------------------------------------------------------------
(* Operations. *)

BinaryOps == {"binary.+", "binary.-", "binary.*", "binary.&", "binary.|", "binary.^",
              "binary.<<", "binary.<", "binary.<=", "binary.>", "binary.>=",
              "binary.==", "binary.!="}

\* isPureOp: the operations that only compute their result.
PureOps == BinaryOps \cup
    {"const", "id", "phi", "cast", "local.slot", "ref.load",
     "opt.null", "opt.some", "opt.has", "opt.value",
     "error.ok", "error.error", "error.has", "error.value", "error.code",
     "slice.len", "slice.index", "table.get",
     "array.len", "array.get", "array.at", "array.at_mut", "field.ref", "field.addr"}

hasEffect(instr) == instr.op \notin PureOps

isWrappingInteger(type) == type \in {"i64", "u64"}

isForwardScalar(type) == type = "bool" \/ isWrappingInteger(type)

ReferenceTypes == {"&S", "&var S", "&Array", "&var Array", "&i64", "&var i64"}

MutableReferenceTypes == {"&var S", "&var Array", "&var i64"}

derefType(type) ==
    CASE type \in {"&S", "&var S"} -> "S"
      [] type \in {"&Array", "&var Array"} -> "Array"
      [] type \in {"&i64", "&var i64"} -> "i64"
      [] OTHER -> type

-----------------------------------------------------------------------------
(* The control flow graph: blocks by position, edges by terminator. *)

Names(fn) == [p \in DOMAIN fn.blocks |-> fn.blocks[p].name]

HasBlock(fn, name) == \E p \in DOMAIN fn.blocks : fn.blocks[p].name = name

At(fn, name) == CHOOSE p \in DOMAIN fn.blocks : fn.blocks[p].name = name

\* For each block those its terminator may go to.
Targets(fn) ==
    Held([p \in DOMAIN fn.blocks |->
        LET to == SelectSeq(Successors(fn.blocks[p].term), LAMBDA t : HasBlock(fn, t))
        IN  [i \in DOMAIN to |-> At(fn, to[i])]])

Edges(fn) ==
    LET targets == Targets(fn)
    IN  FlattenSeq([p \in DOMAIN targets |-> [i \in DOMAIN targets[p] |-> <<p, targets[p][i]>>]])

\* One entry for each edge into a block, so a branch whose arms share a
\* target is listed twice.
blockPredecessors(fn) ==
    LET edges == Edges(fn)
        into(p) == SelectSeq(edges, LAMBDA e : e[2] = p)
    IN  [p \in DOMAIN fn.blocks |-> LET in == into(p) IN [i \in DOMAIN in |-> in[i][1]]]

reversePostorder(fn) == postorderReversed(Targets(fn))

buildDominatorTree(fn, preds) == DominatorTree(Targets(fn), preds)

\* The position of a block's immediate dominator.
Idom(tree, p) == tree.order[tree.idom[tree.place[p]]]

-----------------------------------------------------------------------------
(* Rewriting. *)

Rename(instr, r(_)) ==
    [instr EXCEPT !.args = [i \in DOMAIN @ |-> r(@[i])]]

RenameIncoming(instr, r(_)) ==
    [instr EXCEPT !.incoming = [i \in DOMAIN @ |-> Incoming(@[i].block, r(@[i].value))]]

RECURSIVE Resolve(_, _)
Resolve(replacements, value) ==
    IF value.name \in DOMAIN replacements
    THEN Resolve(replacements, replacements[value.name]) ELSE value

\* replaceFunctionValues: every read of a replaced name, following a
\* replacement that is itself replaced.
replaceFunctionValues(fn, replacements) ==
    LET r(v) == Resolve(replacements, v)
        in(instr) == RenameIncoming(Rename(instr, r), r)
    IN  Held([fn EXCEPT !.blocks = [p \in DOMAIN @ |->
            [@[p] EXCEPT !.instrs = [i \in DOMAIN @ |-> in(@[i])],
                         !.term = [@ EXCEPT !.value = r(@), !.cond = r(@)]]]])

EachInstr(fn, f(_)) ==
    Held([fn EXCEPT !.blocks = [p \in DOMAIN @ |->
        [@[p] EXCEPT !.instrs = [i \in DOMAIN @ |-> f(@[i])]]]])

KeepInstrs(fn, keep(_)) ==
    Held([fn EXCEPT !.blocks = [p \in DOMAIN @ |->
        [@[p] EXCEPT !.instrs = SelectSeq(@, keep)]]])

\* Instructions and incoming of the block at p alone.
AtBlock(fn, p, f(_)) == [fn EXCEPT !.blocks[p] = f(@)]

EachFunction(mod, pass(_)) == [f \in DOMAIN mod |-> Held(pass(mod[f]))]

\* Every instruction of a function, block by block.
Instrs(fn) == FlattenSeq([p \in DOMAIN fn.blocks |-> fn.blocks[p].instrs])

\* The instruction that defines each name.
Defs(fn) ==
    LET all == SelectSeq(Instrs(fn), LAMBDA i : i.result.name # "")
    IN  [n \in {all[i].result.name : i \in DOMAIN all} |->
            all[CHOOSE i \in DOMAIN all : all[i].result.name = n]]

-----------------------------------------------------------------------------
(* Values. *)

Stride == 16
Null == 500
Failed == 1000
OutOfBounds == 1
OutOfMemory == 2

Wrap(n) == ((n + IntLimit) % (2 * IntLimit)) - IntLimit

Unsigned(n) == n % (2 * IntLimit)

Typed(type, n) == IF type = "u64" THEN Unsigned(n) ELSE Wrap(n)

Truth(b) == IF b THEN 1 ELSE 0

\* A shift by the width or more leaves no bit, and gives 0.
ShiftLeft(l, r) == l * 2^Unsigned(r)

BinaryResult(op, type, l, r) ==
    CASE op = "binary.+"  -> Typed(type, l + r)
      [] op = "binary.-"  -> Typed(type, l - r)
      [] op = "binary.*"  -> Typed(type, l * r)
      [] op = "binary.&"  -> Typed(type, Unsigned(l) & Unsigned(r))
      [] op = "binary.|"  -> Typed(type, Unsigned(l) | Unsigned(r))
      [] op = "binary.^"  -> Typed(type, Unsigned(l) ^^ Unsigned(r))
      [] op = "binary.<<" -> Typed(type, ShiftLeft(l, r))
      [] op = "binary.<"  -> Truth(l < r)
      [] op = "binary.<=" -> Truth(l <= r)
      [] op = "binary.>"  -> Truth(l > r)
      [] op = "binary.>=" -> Truth(l >= r)
      [] op = "binary.==" -> Truth(l = r)
      [] op = "binary.!=" -> Truth(l # r)

-----------------------------------------------------------------------------
(* Memory. *)

ObjectOf(address) == address \div Stride
CellOf(address) == (address % Stride) + 1

InMemory(mem, address) ==
    /\ ObjectOf(address) \in DOMAIN mem
    /\ CellOf(address) \in DOMAIN mem[ObjectOf(address)]

Store(mem, address, n) == [mem EXCEPT ![ObjectOf(address)][CellOf(address)] = n]

Elements(mem, address) == mem[ObjectOf(address)]

FieldCell(f) == IF f = "x" THEN 0 ELSE 1

InBounds(mem, address, i) == 0 <= i /\ i < Len(Elements(mem, address))

-----------------------------------------------------------------------------
(* One instruction.  A run s is [env, mem, out, halt, value, at, prev]. *)

Read(s, v) == IF v.name \in DOMAIN s.env THEN s.env[v.name] ELSE 0

Gives(s, instr, n) == [s EXCEPT !.env = (instr.result.name :> n) @@ @]

Halts(s, why) == [s EXCEPT !.halt = why]

Table(values, i) ==
    IF 0 <= i /\ i < Len(values) - 1 THEN values[i + 1] ELSE Last(values)

FunctionAt(mod, name) == CHOOSE f \in DOMAIN mod : mod[f].name = name

=============================================================================
