----------------------------- MODULE WasmBinary -----------------------------
(***************************************************************************)
(* The encoding of wasm text (internal/wasm/binary.go and                  *)
(* binary_instruction.go).                                                 *)
(*                                                                         *)
(* Encoding replaces what the text names by what the binary counts: a local*)
(* by its index, a label by how many enclosing blocks lie between, both as *)
(* unsigned LEB128, and a number by signed LEB128.  Opcodes and the order  *)
(* of operands are left out.  A name that cannot be resolved has no bytes. *)
(* WasmEngine runs the result.                                             *)
(***************************************************************************)
EXTENDS WasmEngine

-----------------------------------------------------------------------------
(* Encoding. *)

RECURSIVE appendU32(_)
appendU32(n) == IF n < 128 THEN <<n>> ELSE <<128 + (n % 128)>> \o appendU32(n \div 128)

\* The last byte is the one whose sign bit says what the rest would be.
RECURSIVE appendSigned(_)
appendSigned(n) ==
    LET current == n % 128
        rest == n \div 128
    IN  IF (rest = 0 /\ current < 64) \/ (rest = -1 /\ current >= 64) THEN <<current>>
        ELSE <<128 + current>> \o appendSigned(rest)

\* The encoder keeps the locals of the function, by index, and the labels
\* around the item, innermost last.
localIndex(c, name) ==
    IF ~Contains(c.locals, name) THEN <<>>
    ELSE appendU32(SelectInSeq(c.locals, LAMBDA l : l = name) - 1)

labelDepth(c, label) ==
    IF ~Contains(c.labels, label) THEN <<>>
    ELSE appendU32(Len(c.labels) - SelectLastInSeq(c.labels, LAMBDA l : l = label))

Within(c, label) == [c EXCEPT !.labels = Append(@, label)]

RECURSIVE encodeExpr(_, _)
encodeExpr(c, x) ==
    CASE x[1] = "get" -> <<"get", localIndex(c, x[2])>>
      [] x[1] = "const" -> <<"const", appendSigned(x[2])>>
      [] x[1] = "add" -> <<"add", encodeExpr(c, x[2]), appendSigned(x[3])>>
      [] x[1] \in {"load", "eqz", "ne"} -> <<x[1], encodeExpr(c, x[2])>>
      [] x[1] = "op" -> <<"op", x[2], x[3], encodeExpr(c, x[4]), encodeExpr(c, x[5])>>
      [] x[1] = "table" -> <<"table", x[2], encodeExpr(c, x[3])>>

encodeExprs(c, xs) == [i \in DOMAIN xs |-> encodeExpr(c, xs[i])]

encodeDestination(c, to) ==
    CASE to[1] = "none" -> to
      [] to[1] \in {"local", "flag"} -> <<to[1], localIndex(c, to[2])>>
      [] to[1] = "option" -> <<"option", localIndex(c, to[2]), localIndex(c, to[3])>>
      [] to[1] = "slot" -> <<"slot", encodeExpr(c, to[2])>>

RECURSIVE encode(_, _)

encodeSequence(c, code) == [i \in DOMAIN code |-> encode(c, code[i])]

\* An `if` is a control frame of its own, though no label names it.
encodeIf(c, item) ==
    <<"if", encodeExpr(c, item[2]), encodeSequence(Within(c, ""), item[3]),
      encodeSequence(Within(c, ""), item[4])>>

\* A call that fills no local drops what it gives.
optionalLocal(c, name) == IF name = "" THEN <<"none">> ELSE <<"local", localIndex(c, name)>>

encode(c, item) ==
    LET head == item[1] IN
    CASE head \in {"set", "data", "length"} -> <<head, localIndex(c, item[2]), encodeExpr(c, item[3])>>
      [] head = "store" -> <<head, encodeExpr(c, item[2]), encodeExpr(c, item[3])>>
      [] head = "copy" -> <<head, encodeExpr(c, item[2]), encodeExpr(c, item[3]), item[4]>>
      [] head \in {"block", "loop"} -> <<head, encodeSequence(Within(c, item[2]), item[3])>>
      [] head = "if" -> encodeIf(c, item)
      [] head = "br" -> <<head, labelDepth(c, item[2])>>
      [] head = "br_if" -> <<head, labelDepth(c, item[2]), encodeExpr(c, item[3])>>
      [] head = "return" -> <<head, encodeExpr(c, item[2])>>
      [] head = "call" -> <<head, item[2], encodeExprs(c, item[3]), optionalLocal(c, item[4])>>
      [] head = "reserve" -> <<head, localIndex(c, Frame), item[2]>>
      [] head = "release" -> <<head, localIndex(c, Frame)>>
      [] head = "run" -> <<head, item[2], encodeExprs(c, item[3]), encodeDestination(c, item[4]),
                           optionalLocal(c, item[5]), optionalLocal(c, item[6])>>
      [] OTHER -> item

\* addLocal refuses a name that is there already.
encodeFunctionBody(text) ==
    LET locals == text.params \o text.locals
        c == [locals |-> locals, labels |-> <<>>]
    IN  [name |-> text.name, ret |-> text.ret, locals |-> Len(locals),
         code |-> IF Cardinality(Range(locals)) # Len(locals) THEN << <<"refused">> >>
                  ELSE encodeSequence(c, text.code)]

EmitModule(mod) == [i \in DOMAIN mod |-> Held(encodeFunctionBody(writeFunction(mod[i])))]

-----------------------------------------------------------------------------
(* The engine. *)

\* main is lent the first cells of the stack for a result in memory.
RunBinary(bin, input) ==
    LET main == bin[FunctionAt(bin, "main")]
        inMemory == isMemoryType(main.ret)
        start == [locals |-> <<>>, stack |-> <<>>, sp |-> FrameBase + 16, mem |-> input.mem,
                  out |-> <<>>, halt |-> "", value |-> 0, jump |-> -1]
        end == Invoke(bin, start, "main", (IF inMemory THEN <<FrameBase>> ELSE <<>>) \o input.args)
        given == IF ~inMemory THEN end.value
                 ELSE (IF CellAt(end, FrameBase) = 0 THEN Failed ELSE 0) +
                      (IF CellAt(end, FrameBase) # 0 /\ main.ret = "E!void" THEN 0
                       ELSE CellAt(end, FrameBase + 8))
    IN  Observe([end EXCEPT !.halt = IF @ = "" THEN "return" ELSE @, !.value = given],
                Len(input.mem))

=============================================================================
