----------------------------- MODULE IRMachine -----------------------------
(***************************************************************************)
(* What a module of IR does when it runs, as both backends implement it,   *)
(* over the values and the memory of IRForm.                               *)
(*                                                                         *)
(* A run ends "return", "bounds" or another panic, "fault" (an access no   *)
(* check stands before left the object), or "fuel" (it did not end).       *)
(***************************************************************************)
EXTENDS IR

-----------------------------------------------------------------------------
(* Memory. *)

Load(mem, address) == mem[ObjectOf(address)][CellOf(address)]

-----------------------------------------------------------------------------
(* One instruction.  A run s is [env, mem, out, halt, value, at, prev]. *)

\* The cell an access with no check of its own reaches.
Reach(s, address, then(_)) ==
    IF InMemory(s.mem, address) THEN then(address) ELSE Halts(s, "fault")

\* Arithmetic, constants, casts, tables and the checks a function makes.
ScalarOp(s, instr, a) ==
    LET op == instr.op IN
    CASE op = "const" -> Gives(s, instr, instr.imm[1])
      [] op \in BinaryOps ->
            Gives(s, instr, BinaryResult(op, instr.result.type, a[1], a[2]))
      [] op = "cast" -> Gives(s, instr, Typed(instr.result.type, a[1]))
      [] op = "id" -> Gives(s, instr, a[1])
      [] op = "table.get" -> Gives(s, instr, Table(instr.imm, a[1]))
      [] op = "cond_fail" -> IF a[1] = 1 THEN Halts(s, instr.of) ELSE s
      [] op = "emit" -> [s EXCEPT !.out = Append(@, a[1])]

\* Slots, references and the fields of a lent struct.
MemoryOp(s, instr, a) ==
    LET op == instr.op
        address == a[1] + (IF op \in {"field.ref", "field.ref.set"} THEN FieldCell(instr.of) ELSE 0)
    IN
    CASE op = "local.slot" ->
            Gives([s EXCEPT !.mem = Append(@, <<a[1]>>)], instr, (Len(s.mem) + 1) * Stride)
      [] op \in {"ref.load", "field.ref"} ->
            Reach(s, address, LAMBDA at : Gives(s, instr, Load(s.mem, at)))
      [] op \in {"ref.store", "field.ref.set"} ->
            Reach(s, address, LAMBDA at : [s EXCEPT !.mem = Store(@, at, a[2])])
      [] op = "field.addr" -> Gives(s, instr, a[1] + FieldCell(instr.of))

\* Optionals and error unions.
TaggedOp(s, instr, a) ==
    LET op == instr.op IN
    CASE op = "opt.has" ->
            Gives(s, instr, Truth(a[1] # IF instr.args[1].type = "?i64" THEN Null ELSE 0))
      [] op = "opt.null" -> Gives(s, instr, Null)
      [] op \in {"opt.some", "opt.value", "error.value"} -> Gives(s, instr, a[1])
      [] op = "error.ok" -> Gives(s, instr, IF a = <<>> THEN 0 ELSE a[1])
      [] op = "error.error" -> Gives(s, instr, Failed + a[1])
      [] op = "error.code" -> Gives(s, instr, a[1] - Failed)
      [] op = "error.has" -> Gives(s, instr, Truth(a[1] < Failed))
      [] op = "error.try" ->
            IF a[1] >= Failed THEN [s EXCEPT !.halt = "return", !.value = a[1]]
            ELSE Gives(s, instr, a[1])

\* A view has no check of its own: what reaches it passed a cond_fail.
ViewOp(s, instr, a) ==
    LET op == instr.op IN
    CASE op = "slice.len" -> Gives(s, instr, Len(Elements(s.mem, a[1])))
      [] op = "slice.index" ->
            Reach(s, a[1] + Unsigned(a[2]), LAMBDA at : Gives(s, instr, Load(s.mem, at)))
      [] op = "slice.store" ->
            Reach(s, a[1] + Unsigned(a[2]), LAMBDA at : [s EXCEPT !.mem = Store(@, at, a[3])])

\* An Array answers an index outside it: absent, a panic or an error.
ArrayOp(s, instr, a) ==
    LET op == instr.op
        inside == InBounds(s.mem, a[1], a[2])
    IN
    CASE op = "array.len" -> Gives(s, instr, Len(Elements(s.mem, a[1])))
      [] op = "array.get" -> Gives(s, instr, IF inside THEN Load(s.mem, a[1] + a[2]) ELSE Null)
      [] op = "array.get_or_panic" ->
            IF inside THEN Gives(s, instr, Load(s.mem, a[1] + a[2])) ELSE Halts(s, "bounds")
      [] op \in {"array.at", "array.at_mut"} ->
            Gives(s, instr, IF inside THEN a[1] + a[2] ELSE 0)
      [] op = "array.set" ->
            IF inside THEN Gives([s EXCEPT !.mem = Store(@, a[1] + a[2], a[3])], instr, 0)
            ELSE Gives(s, instr, Failed + OutOfBounds)
      [] op = "array.append" ->
            IF Len(Elements(s.mem, a[1])) < ArrayLimit
            THEN Gives([s EXCEPT !.mem[ObjectOf(a[1])] = Append(@, a[2])], instr, 0)
            ELSE Gives(s, instr, Failed + OutOfMemory)

\* writeInstr, writeMemoryInstr and writeTaggedOwnerInstr: which kind of
\* operation an instruction is.
Simple(s, instr, a) ==
    LET op == instr.op IN
    CASE op \in {"local.slot", "ref.load", "ref.store", "field.ref", "field.ref.set", "field.addr"} ->
            MemoryOp(s, instr, a)
      [] op \in {"opt.has", "opt.null", "opt.some", "opt.value", "error.ok", "error.error",
                 "error.value", "error.code", "error.has", "error.try"} -> TaggedOp(s, instr, a)
      [] op \in {"slice.len", "slice.index", "slice.store"} -> ViewOp(s, instr, a)
      [] op \in {"array.len", "array.get", "array.get_or_panic", "array.at", "array.at_mut",
                 "array.set", "array.append"} -> ArrayOp(s, instr, a)
      [] OTHER -> ScalarOp(s, instr, a)

\* The phis of a block take their values together, from the edge taken.
Arrive(fn, s) ==
    LET phis == SelectSeq(fn.blocks[s.at].instrs, LAMBDA i : i.op = "phi")
        from == IF s.prev = 0 THEN "" ELSE fn.blocks[s.prev].name
        taken(phi) == LET in == SelectSeq(phi.incoming, LAMBDA e : e.block = from)
                      IN  IF in = <<>> THEN 0 ELSE Read(s, in[1].value)
        entered == [n \in {phis[i].result.name : i \in DOMAIN phis} |->
                        taken(phis[CHOOSE i \in DOMAIN phis : phis[i].result.name = n])]
    IN  IF phis = <<>> THEN s ELSE [s EXCEPT !.env = entered @@ @]

Leave(fn, s) ==
    LET term == fn.blocks[s.at].term
        goto(name) == [s EXCEPT !.prev = s.at, !.at = At(fn, name)]
    IN  CASE s.halt # "" -> s
          [] term.op = "return" -> [s EXCEPT !.halt = "return", !.value = Read(s, term.value)]
          [] term.op = "jump" -> goto(term.target)
          [] term.op = "branch" ->
                goto(IF Read(s, term.cond) = 1 THEN term.target ELSE term.els)
          [] OTHER -> Halts(s, "fault")

RECURSIVE RunBlocks(_, _, _, _)
RECURSIVE RunCall(_, _, _, _, _)

\* One block: its phis, its instructions up to one that ends the run, its
\* terminator.
RunBlock(mod, fn, s) ==
    LET step(r, instr) ==
            IF r.halt # "" \/ instr.op = "phi" THEN r
            ELSE LET a == [i \in DOMAIN instr.args |-> Read(r, instr.args[i])] IN
            IF instr.op # "call" THEN Simple(r, instr, a)
            ELSE LET done == RunCall(mod, instr.of, a, r.mem, r.out) IN
                 LET after == [r EXCEPT !.mem = done.mem, !.out = done.out] IN
                 IF done.halt = "return" THEN Gives(after, instr, done.value)
                 ELSE Halts(after, done.halt)
    IN  Leave(fn, FoldHeld(step, Arrive(fn, s), fn.blocks[s.at].instrs))

RunBlocks(mod, fn, s, n) ==
    CASE s.halt # "" \/ n = 0 -> s
      [] n = 1 -> RunBlock(mod, fn, s)
      [] OTHER -> RunBlocks(mod, fn, RunBlocks(mod, fn, s, n \div 2), n - (n \div 2))

RunCall(mod, name, args, mem, out) ==
    LET fn == mod[FunctionAt(mod, name)]
        end == RunBlocks(mod, fn,
                 [env |-> [p \in {fn.params[i].name : i \in DOMAIN fn.params} |->
                            args[CHOOSE i \in DOMAIN fn.params : fn.params[i].name = p]],
                  mem |-> mem, out |-> out, halt |-> "", value |-> 0, at |-> 1, prev |-> 0],
                 Fuel)
    IN  IF end.halt = "" THEN Halts(end, "fuel") ELSE end

\* What a caller outside the module can tell of a run on an input: how it
\* ended, what it returned and printed, and what became of the caller's
\* objects.
Observe(end, objects) ==
    [halt |-> end.halt, out |-> end.out,
     value |-> IF end.halt = "return" THEN end.value ELSE 0,
     mem |-> SubSeq(end.mem, 1, objects)]

RunModule(mod, name, input) ==
    Observe(RunCall(mod, name, input.args, input.mem, <<>>), Len(input.mem))

=============================================================================
