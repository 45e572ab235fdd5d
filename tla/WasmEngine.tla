----------------------------- MODULE WasmEngine -----------------------------
(***************************************************************************)
(* The engine that runs a wasm binary (external).                          *)
(*                                                                         *)
(* It keeps the frames of the calls in one stack of 8-byte cells from      *)
(* FrameBase up, under a stack pointer that code moves, and the caller's   *)
(* objects in the memory of IRMachine.  A local holds the bits of an       *)
(* integer, read as a signed one.                                          *)
(***************************************************************************)
EXTENDS WasmEmit

FrameBase == 10000

RECURSIVE U32(_)
U32(bytes) ==
    IF Head(bytes) < 128 THEN Head(bytes) ELSE (Head(bytes) - 128) + 128 * U32(Tail(bytes))

RECURSIVE S64(_)
S64(bytes) ==
    IF Len(bytes) > 1 THEN (Head(bytes) - 128) + 128 * S64(Tail(bytes))
    ELSE IF Head(bytes) >= 64 THEN Head(bytes) - 128 ELSE Head(bytes)

Width == CHOOSE w \in 1..64 : 2^w = 2 * IntLimit

\* i64 arithmetic on bits; a comparison of u64 reads them unsigned, and a
\* shift by the width or more is chosen away by the select around it.
Operation(op, type, l, r) ==
    IF op = "binary.<<"
    THEN IF Unsigned(r) < Width THEN Wrap(l * 2^(Unsigned(r) % Width)) ELSE 0
    ELSE IF type = "u64" THEN BinaryResult(op, "i64", Unsigned(l), Unsigned(r))
    ELSE BinaryResult(op, "i64", l, r)

CellAt(st, address) == IF address \in DOMAIN st.stack THEN st.stack[address] ELSE 0

RECURSIVE Eval(_, _)
Eval(st, x) ==
    CASE x[1] = "get" -> st.locals[U32(x[2]) + 1]
      [] x[1] = "const" -> S64(x[2])
      [] x[1] = "add" -> Eval(st, x[2]) + S64(x[3])
      [] x[1] = "load" -> CellAt(st, Eval(st, x[2]))
      [] x[1] = "eqz" -> Truth(Eval(st, x[2]) = 0)
      [] x[1] = "ne" -> Truth(Eval(st, x[2]) # 0)
      [] x[1] = "op" -> Operation(x[2], x[3], Eval(st, x[4]), Eval(st, x[5]))
      [] x[1] = "table" ->
            LET i == Eval(st, x[3])
                last == Len(x[2]) - 1
            IN  x[2][(IF Unsigned(i) < last THEN i ELSE last) + 1]

SetLocal(st, bytes, n) == [st EXCEPT !.locals[U32(bytes) + 1] = n]

\* Below the stack lies what no frame may write.
StoreCell(st, address, n) ==
    IF address < FrameBase THEN [st EXCEPT !.halt = "fault"]
    ELSE [st EXCEPT !.stack = (address :> n) @@ @]

\* A reference may name a slot of a frame, or a cell of the caller's objects.
RunOn(st, instr, a) ==
    LET s == [env |-> <<>>, mem |-> st.mem, out |-> st.out, halt |-> "", value |-> 0] IN
    CASE instr.op = "ref.load" /\ a[1] >= FrameBase -> Gives(s, instr, CellAt(st, a[1]))
      [] instr.op = "ref.store" /\ a[1] >= FrameBase -> s
      [] OTHER -> Simple(s, instr, a)

\* An integer as its bits, and bits as the integer they are of a type.
Bits(type, n) == IF type = "u64" THEN Wrap(n) ELSE n
OfBits(type, n) == IF type = "u64" THEN Unsigned(n) ELSE n

Present(type, n) ==
    CASE type = "?i64" -> n # Null [] type \in ErrorUnions -> n < Failed [] OTHER -> n # 0

\* What an operation gives, where it is put: a tagged value is a tag, and a
\* payload or an error code.
Put(st, type, to, n) ==
    LET tag == Truth(Present(type, n))
        payload == IF type \in ErrorUnions /\ tag = 0 THEN n - Failed ELSE n
    IN  CASE to[1] = "none" -> st
          [] to[1] = "local" -> SetLocal(st, to[2], Bits(type, n))
          [] to[1] = "flag" -> SetLocal(st, to[2], tag)
          [] to[1] = "option" ->
                IF tag = 0 THEN SetLocal(st, to[2], 0)
                ELSE SetLocal(SetLocal(st, to[2], 1), to[3], n)
          [] to[1] = "slot" ->
                LET at == Eval(st, to[2]) IN StoreCell(StoreCell(st, at, tag), at + 8, payload)

\* Where the elements of an Array or a view are.  Every append moves them, as it
\* may when the storage is full.
DataOf(mem, address) == address + 1000000 * Len(Elements(mem, address))

\* What an operation was handed, read before the loop, is no longer so.
Stale(st, local, now) == local[1] = "local" /\ st.locals[U32(local[2]) + 1] # now

\* An operation that trusts a pointer or a length read before the loop finds it
\* stale when the elements have moved, or the length has changed, since.
ExecRun(st, item) ==
    LET instr == item[2]
        a == [i \in DOMAIN item[3] |-> OfBits(instr.args[i].type, Eval(st, item[3][i]))]
        stale == \/ Stale(st, item[5], DataOf(st.mem, a[1]))
                 \/ Stale(st, item[6], Len(Elements(st.mem, a[1])))
        done == RunOn(st, instr, a)
        after == [st EXCEPT !.mem = done.mem, !.out = done.out]
    IN  CASE stale -> [st EXCEPT !.halt = "stale"]
          [] done.halt # "" -> [after EXCEPT !.halt = done.halt]
          [] instr.op = "ref.store" /\ a[1] >= FrameBase -> StoreCell(after, a[1], a[2])
          [] instr.result.type \in {"", "void"} -> after
          [] OTHER -> Put(after, instr.result.type, item[4], done.env[instr.result.name])

RECURSIVE Exec(_, _, _)

\* From the item at k to the end of a sequence, or to what leaves it: a jump
\* of so many blocks, or a halt.
RECURSIVE ExecFrom(_, _, _, _)
ExecFrom(bin, st, code, k) ==
    IF k > Len(code) \/ st.jump >= 0 \/ st.halt # "" THEN st
    ELSE ExecFrom(bin, Held(Exec(bin, st, code[k])), code, k + 1)

\* A jump that ends here, or has one block less to go.
Leaves(st) == [st EXCEPT !.jump = IF @ > 0 THEN @ - 1 ELSE -1]

RECURSIVE ExecLoop(_, _, _, _)
ExecLoop(bin, st, code, turns) ==
    LET end == ExecFrom(bin, st, code, 1)
    IN  IF end.jump # 0 \/ end.halt # "" THEN Leaves(end)
        ELSE IF turns = 0 THEN [end EXCEPT !.halt = "fuel"]
        ELSE ExecLoop(bin, [end EXCEPT !.jump = -1], code, turns - 1)

Returning == 1000

RECURSIVE Invoke(_, _, _, _)

ExecCall(bin, st, item) ==
    LET done == Invoke(bin, st, item[2], [i \in DOMAIN item[3] |-> Eval(st, item[3][i])])
        after == [done EXCEPT !.locals = st.locals, !.jump = -1]
    IN  IF done.halt = "" /\ item[4][1] = "local" THEN SetLocal(after, item[4][2], done.value)
        ELSE after

Exec(bin, st, item) ==
    LET head == item[1] IN
    CASE head = "set" -> SetLocal(st, item[2], Eval(st, item[3]))
      [] head = "data" -> SetLocal(st, item[2], DataOf(st.mem, Eval(st, item[3])))
      [] head = "length" -> SetLocal(st, item[2], Len(Elements(st.mem, Eval(st, item[3]))))
      [] head = "store" -> StoreCell(st, Eval(st, item[2]), Eval(st, item[3]))
      [] head = "copy" ->
            LET to == Eval(st, item[2])
                from == Eval(st, item[3])
            IN  [st EXCEPT !.stack = [c \in {to + 8 * i : i \in 0..((item[4] \div 8) - 1)} |->
                                        CellAt(st, from + (c - to))] @@ @]
      [] head = "block" -> Leaves(ExecFrom(bin, st, item[2], 1))
      [] head = "loop" -> ExecLoop(bin, st, item[2], Fuel)
      [] head = "if" ->
            Leaves(ExecFrom(bin, st, IF Eval(st, item[2]) # 0 THEN item[3] ELSE item[4], 1))
      [] head = "br" -> [st EXCEPT !.jump = U32(item[2])]
      [] head = "br_if" -> IF Eval(st, item[3]) = 0 THEN st ELSE [st EXCEPT !.jump = U32(item[2])]
      [] head = "return" -> [st EXCEPT !.jump = Returning, !.value = Eval(st, item[2])]
      [] head = "call" -> ExecCall(bin, st, item)
      [] head = "reserve" -> [SetLocal(st, item[2], st.sp) EXCEPT !.sp = @ + item[3]]
      [] head = "release" -> [st EXCEPT !.sp = st.locals[U32(item[2]) + 1]]
      [] head = "run" -> ExecRun(st, item)
      [] head = "panic" -> [st EXCEPT !.halt = item[2]]
      [] OTHER -> [st EXCEPT !.halt = head]

\* A call gets locals of its own.  It gives back the stack as deep as it found
\* it.
Invoke(bin, st, name, args) ==
    LET fn == bin[FunctionAt(bin, name)]
        end == ExecFrom(bin, [st EXCEPT !.value = 0,
                    !.locals = args \o [i \in 1..(fn.locals - Len(args)) |-> 0]], fn.code, 1)
    IN  IF end.halt = "" /\ end.sp # st.sp THEN [end EXCEPT !.halt = "stack"] ELSE end

=============================================================================
