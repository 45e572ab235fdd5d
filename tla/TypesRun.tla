------------------------------ MODULE TypesRun ------------------------------
(***************************************************************************)
(* What a checked program does, with no type in sight: every value carries  *)
(* what it is, and an operation on the wrong kind of value is a fault.      *)
(* The state machine gives a program to Check and, when it is accepted,     *)
(* runs its function `run` on every choice of arguments.                    *)
(*                                                                         *)
(* A value is a tuple with a string for its head:                           *)
(*   <<"i", T, n>>      an integer of the type named T, "lit" while no       *)
(*                     context has said which                               *)
(*   <<"b", TRUE>>  <<"void">>  <<"null">>  <<"some", v>>                    *)
(*   <<"e", E, tag>>   a tag        <<"x", E, name>>  an error               *)
(*   <<"ok", v>>  <<"err", x>>      an error union                          *)
(*   <<"s", S, fields>>  <<"u", U, tag, payload>>  <<"a", elems>>            *)
(*   <<"A", elems>>    an Array     <<"fn", f>>       a function             *)
(*   <<"ref", cell, path, write>>   a borrow; write when it may be written  *)
(*   <<"view", ref>>   a view       <<"p", ref>>      a raw pointer          *)
(* Arithmetic only keeps the type of its result: the number is the left      *)
(* operand's.                                                               *)
(*                                                                         *)
(* The machine m: scopes (name -> ref), store (a sequence of values),        *)
(* unsafe (below an unsafe with its comment), ret, subst, ints, insts (the   *)
(* instances Check read) and fuel, which bounds calls and turns of a loop.   *)
(* An evaluation gives [m, v, exit]; exit is "" when it went through, and v  *)
(* names the fault when exit is "fault".                                    *)
(***************************************************************************)
EXTENDS TypeCheck

CONSTANTS
    \* @type: Set(Program);  the programs given to the checker
    Programs,
    \* @type: Set(Program);  programs like those of examples/negative, and their mended twins
    Refused, Mended,
    \* @type: Seq(Decl);  the declarations every program starts with
    Prelude,
    \* @type: Type => Set(Value);  the values a parameter of `run` may have
    Inputs(_),
    \* @type: Nat;  how many calls and turns of loops a run may take
    MaxFuel,
    \* @type: Program => State;  Check of the prelude and the program
    Verdict(_),
    \* @type: (Machine, Seq(Stmt)) => Evaluation;  Advance
    Advances(_, _),
    \* @type: (Evaluation, Type) => Evaluation;  Returned
    Ends(_, _)

Out(m, v) == [m |-> m, v |-> v, exit |-> ""]
Leave(m, v, exit) == [m |-> m, v |-> v, exit |-> exit]
Fault(m, what) == Leave(m, what, "fault")
On(o, Rest(_)) == IF o.exit # "" THEN o ELSE Rest(o)
Guard(m, holds, what, o) == IF holds THEN o ELSE Fault(m, what)

(***************************************************************************)
(* Values and places                                                       *)
(***************************************************************************)
Part(v, step) == CASE v[1] = "s" -> v[3][step]
                   [] v[1] \in {"a", "A"} -> v[2][step]
                   [] v[1] = "u" -> v[4]
                   [] OTHER -> v[2]
RECURSIVE At(_, _)
At(v, path) == IF path = <<>> THEN v ELSE At(Part(v, Head(path)), Tail(path))
RECURSIVE Put(_, _, _)
Put(v, path, w) ==
    IF path = <<>> THEN w
    ELSE LET inner == Put(Part(v, Head(path)), Tail(path), w)
         IN  CASE v[1] = "s" -> [v EXCEPT ![3][Head(path)] = inner]
               [] v[1] \in {"a", "A"} -> [v EXCEPT ![2][Head(path)] = inner]
               [] v[1] = "u" -> [v EXCEPT ![4] = inner]
               [] OTHER -> [v EXCEPT ![2] = inner]

Ref(cell, write) == <<"ref", cell, <<>>, write>>
Within(ref, step) == <<"ref", ref[2], Append(ref[3], step), ref[4]>>
Shared(ref) == <<"ref", ref[2], ref[3], FALSE>>
Load(m, ref) == At(m.store[ref[2]], ref[3])
Store(m, ref, v) == [m EXCEPT !.store[ref[2]] = Put(@, ref[3], v)]
\* A new cell for v, and the machine that has it.
NewCell(m, v) == [m EXCEPT !.store = Append(@, v)]
NewRef(m, write) == Ref(Len(m.store) + 1, write)
Bind(m, x, ref) == IF x = "_" THEN m ELSE [m EXCEPT !.scopes = Append(Front(@), With(Last(@), x, ref))]
BindValue(m, x, v, write) == Bind(NewCell(m, v), x, NewRef(m, write))
Open(m) == [m EXCEPT !.scopes = Append(@, <<>>)]
Close(o) == [o EXCEPT !.m.scopes = Front(@)]
Known(m, x) == \E i \in DOMAIN m.scopes : x \in DOMAIN m.scopes[i]
Named(m, x) ==
    LET i == CHOOSE i \in DOMAIN m.scopes :
                x \in DOMAIN m.scopes[i] /\ \A j \in i + 1 .. Len(m.scopes) : x \notin DOMAIN m.scopes[j]
    IN  m.scopes[i][x]

\* The integers of the type named t, from its width and its sign alone.
Width == [i8 |-> 8, u8 |-> 8, i16 |-> 16, u16 |-> 16, i32 |-> 32, u32 |-> 32, i64 |-> 64, u64 |-> 64,
          isize |-> 64, usize |-> 64]
InRange(n, t) ==
    IF <<t>> \in signedNumericTypes THEN n \in -Power(Width[t] - 1) .. Power(Width[t] - 1) - 1
    ELSE n \in 0 .. Power(Width[t]) - 1

\* Whether v is a value of the type t, from the declarations alone.
RECURSIVE HasType(_, _, _)
HasType(m, v, t) ==
    CASE t \in integerTypes -> v[1] = "i" /\ v[2] = t[1] /\ InRange(v[3], t[1])
      [] t = Bool -> v[1] = "b"
      [] t = Void -> v[1] = "void"
      [] Is(t, "?") /\ Is(t[2], "ptr") -> v[1] = "null" \/ HasType(m, v, t[2])
      [] Is(t, "?") -> v[1] = "null" \/ (v[1] = "some" /\ HasType(m, v[2], t[2]))
      [] Is(t, "!") ->
            \/ v[1] = "ok" /\ HasType(m, v[2], t[3])
            \/ v[1] = "err" /\ (t[2] = NoType \/ <<v[2][2], v[2][3]>> \in ErrorValues(m.c, t[2][1]))
      [] isBorrow(t) -> v[1] = "ref" /\ (Is(t, "&var") => v[4]) /\ HasType(m, Load(m, v), t[2])
      [] isSliceType(t) -> v[1] = "view" /\ \A w \in Range(Load(m, v[2])[2]) : HasType(m, w, t[2])
      [] Is(t, "[n]") -> v[1] = "a" /\ Len(v[2]) = t[2] /\ \A w \in Range(v[2]) : HasType(m, w, t[3])
      [] Is(t, "Array") -> v[1] = "A" /\ \A w \in Range(v[2]) : HasType(m, w, t[2])
      [] Is(t, "ptr") -> v[1] = "p" /\ HasType(m, Load(m, v[2]), rawPointerDerefType(t))
                                    /\ (Is(t[2], "const") \/ v[2][4])
      [] Is(t, "fn") -> v[1] = "fn" /\ functionPointerValue(m.c.functions[v[2]]) = t
      [] t[1] \in DOMAIN m.c.enums -> v[1] = "e" /\ v[2] = t[1]
      [] t[1] \in DOMAIN m.c.errorSets -> v[1] = "x" /\ <<v[2], v[3]>> \in ErrorValues(m.c, t[1])
      [] t[1] \in DOMAIN m.c.structs ->
            /\ v[1] = "s" /\ v[2] = t[1]
            /\ \A f \in Range(m.c.structs[t[1]].fields) : HasType(m, v[3][f.name], f.ty)
      [] t[1] \in DOMAIN m.c.unions ->
            v[1] = "u" /\ v[2] = t[1]
            /\ \E w \in variantOf(m.c, t[1], v[3]) : w.ty = NoType \/ HasType(m, v[4], w.ty)
      [] OTHER -> v[1] = t[1]

\* A literal that meets no context is an i64.
Loose(v) == IF v[1] = "i" /\ v[2] = "lit" THEN <<"i", "i64", v[3]>> ELSE v

\* v where a t is expected: a literal takes the type, a value goes into the
\* optional or the error union that is wanted.
RECURSIVE Into(_, _)
Into(v, t) ==
    CASE v[1] = "i" /\ v[2] = "lit" /\ t \in integerTypes -> <<"i", t[1], v[3]>>
      [] isOptional(t) /\ v[1] \notin {"null", "some"} -> <<"some", Into(v, t[2])>>
      [] Is(t, "!") /\ v[1] = "x" -> <<"err", v>>
      [] Is(t, "!") /\ v[1] \notin {"ok", "err"} -> <<"ok", Into(v, t[3])>>
      [] OTHER -> v

\* A literal that its type does not hold is a fault of its own.
RECURSIVE Misfit(_)
Misfit(v) == CASE v[1] = "i" /\ v[2] # "lit" -> ~InRange(v[3], v[2])
               [] v[1] \in {"some", "ok"} -> Misfit(v[2])
               [] OTHER -> FALSE
Settle(o, t) ==
    On(o, LAMBDA p : LET v == Into(p.v, t)
                     IN  IF Misfit(v) THEN Fault(p.m, "range")
                         ELSE Guard(p.m, HasType(p.m, v, t), "type", [p EXCEPT !.v = v]))

TypeHere(m, t) == instanceType(t, m.subst, m.ints)

\* A value of the type t, from a function whose body is elsewhere.
RECURSIVE Sample(_, _)
Sample(c, t) ==
    CASE t \in integerTypes -> <<"i", t[1], 0>>
      [] t = Bool -> <<"b", TRUE>>
      [] Is(t, "?") -> <<"null">>
      [] Is(t, "!") -> <<"ok", Sample(c, t[3])>>
      [] Is(t, "Array") -> <<"A", <<Sample(c, t[2])>>>>
      [] OTHER -> <<t[1]>>

(***************************************************************************)
(* Evaluation                                                              *)
(***************************************************************************)
RECURSIVE Eval(_, _), Place(_, _), Run(_, _), RunStmt(_, _), Call(_, _, _, _, _)

Marked(m, e, Inner(_)) ==
    LET o == Inner([m EXCEPT !.unsafe = e.safety]) IN [o EXCEPT !.m.unsafe = m.unsafe]
Needs(m, o) == Guard(m, m.unsafe, "unsafe", o)

\* The element i of a view or an array; an index outside it stops the program.
Element(m, ref, i) ==
    LET held == Load(m, ref)
        elems == IF held[1] = "view" THEN held[2] ELSE ref
        n == Len(Load(m, elems)[2])
    IN  CASE held[1] \notin {"view", "a"} \/ i[1] # "i" \/ i[2] \notin {"i64", "lit"} -> Fault(m, "type")
          [] i[3] \notin 0 .. n - 1 -> Leave(m, i, "panic")
          [] OTHER -> Out(m, Within(elems, i[3] + 1))

\* Where e is: a ref.  What is no place is put into a cell of its own.
Place(m, e) ==
    CASE e.k = "ident" /\ Known(m, e.x) -> Out(m, Named(m, e.x))
      [] e.k = "field" ->
            On(Place(m, e.e), LAMBDA o :
                LET v == Load(o.m, o.v)
                    of == IF v[1] = "ref" THEN v ELSE o.v
                    s == Load(o.m, of)
                IN  IF s[1] # "s" THEN Fault(o.m, "type")
                    ELSE Guard(o.m, e.f \in DOMAIN s[3], "field", Out(o.m, Within(of, e.f))))
      [] e.k = "index" ->
            On(Place(m, e.e), LAMBDA o : On(Eval(o.m, e.i), LAMBDA i : Element(i.m, o.v, i.v)))
      [] e.k = "deref" ->
            IF e.e.k = "ident" /\ Known(m, e.e.x) /\ Load(m, Named(m, e.e.x))[1] # "p" THEN Out(m, Named(m, e.e.x))
            ELSE On(Eval(m, e.e), LAMBDA o :
                     CASE o.v[1] = "ref" -> o
                       [] o.v[1] = "p" -> Needs(o.m, Out(o.m, o.v[2]))
                       [] OTHER -> Fault(o.m, "type"))
      [] e.k = "unsafe" -> Marked(m, e, LAMBDA n : Place(n, e.e))
      [] e.k = "borrow" -> Place(m, e.e)
      [] OTHER -> On(Eval(m, e), LAMBDA o :
                      IF o.v[1] = "ref" THEN o ELSE Out(NewCell(o.m, Loose(o.v)), NewRef(o.m, FALSE)))

Read(o) == On(o, LAMBDA p : Out(p.m, Load(p.m, p.v)))
Lend(o, write) ==
    On(o, LAMBDA p : Guard(p.m, write => p.v[4], "write", IF write THEN p ELSE Out(p.m, Shared(p.v))))

(***************************************************************************)
(* Operators                                                               *)
(***************************************************************************)
\* Both operands at one type: a literal takes the other one's.
Align(o, l, r) ==
    CASE l[1] = "i" /\ l[2] = "lit" /\ r[1] = "i" -> <<Settle(Out(o.m, l), <<IF r[2] = "lit" THEN "i64" ELSE r[2]>>), Loose(r)>>
      [] r[1] = "i" /\ r[2] = "lit" /\ l[1] = "i" -> <<Settle(Out(o.m, r), <<l[2]>>), l>>
      [] OTHER -> <<Out(o.m, l), r>>

Scalar(v) == v[1] \in {"i", "b", "e", "x", "p", "fn", "null"}
Arithmetic(o, op, l, r) ==
    LET both == Align(o, l, r)
    IN  On(both[1], LAMBDA p :
            LET a == p.v
                b == both[2]
            IN  CASE op \in {"==", "!="} ->
                        Guard(p.m, Scalar(a) /\ a[1] = b[1] /\ (a[1] \in {"i", "e"} => a[2] = b[2]), "type",
                              Out(p.m, <<"b", (a = b) = (op = "==")>>))
                  [] a[1] # "i" \/ b[1] # "i" -> Fault(p.m, "type")
                  [] a[2] # b[2] -> Fault(p.m, "type")
                  [] isComparison(op) -> Out(p.m, <<"b", a[3] < b[3]>>)
                  [] OTHER -> Out(p.m, a))

Binary(m, e) ==
    On(Eval(m, e.l), LAMBDA l :
        CASE e.op = "orelse" ->
                CASE l.v[1] = "some" -> Out(l.m, l.v[2])
                  [] l.v[1] = "null" -> Eval(l.m, e.r)
                  [] l.v[1] = "p" -> l
                  [] OTHER -> Fault(l.m, "type")
          [] e.op = "catch" ->
                CASE l.v[1] = "ok" -> Out(l.m, l.v[2])
                  [] l.v[1] = "err" -> Eval(l.m, e.r)
                  [] OTHER -> Fault(l.m, "type")
          [] e.op \in {"and", "or"} ->
                CASE l.v[1] # "b" -> Fault(l.m, "type")
                  [] l.v[2] = (e.op = "or") -> l
                  [] OTHER -> On(Eval(l.m, e.r), LAMBDA r : Guard(r.m, r.v[1] = "b", "type", r))
          [] OTHER -> On(Eval(l.m, e.r), LAMBDA r : Arithmetic(r, e.op, l.v, r.v)))

Prefix(m, e) ==
    On(Eval(m, e.e), LAMBDA o :
        CASE e.op = "-" -> Guard(o.m, o.v[1] = "i" /\ <<o.v[2]>> \in signedNumericTypes \cup {<<"lit">>}, "type",
                                 Out(o.m, <<"i", o.v[2], -o.v[3]>>))
          [] e.op = "!" -> Guard(o.m, o.v[1] = "b", "type", Out(o.m, <<"b", ~o.v[2]>>))
          [] OTHER -> Guard(o.m, o.v[1] = "i", "type", Out(o.m, Loose(o.v))))

(***************************************************************************)
(* Calls                                                                   *)
(***************************************************************************)
\* The arguments in order: what each parameter's name stands for.
RECURSIVE Pass(_, _, _, _, _)
Pass(m, args, params, tys, refs) ==
    IF params = <<>> THEN Out(m, refs)
    ELSE LET p == params[1]
             lent == Lend(Place(m, args[1]), p.mut)
             typed == On(lent, LAMBDA o :
                        LET v == Into(Load(o.m, o.v), tys[1])
                        IN  Guard(o.m, HasType(o.m, v, tys[1]), "type", o))
             given == Settle(Eval(m, args[1]), tys[1])
         IN  IF p.borrow /\ ~isSliceType(tys[1])
             THEN On(typed, LAMBDA o : Pass(o.m, Tail(args), Tail(params), Tail(tys), Append(refs, o.v)))
             ELSE On(given, LAMBDA o : Pass(NewCell(o.m, o.v), Tail(args), Tail(params), Tail(tys),
                                            Append(refs, NewRef(o.m, FALSE))))

Returned(o, ret) ==
    CASE o.exit = "return" -> Settle(Out(o.m, o.v), ret)
      [] o.exit = "" -> Guard(o.m, ret = Void, "fell", Out(o.m, <<"void">>))
      [] o.exit \in {"break", "continue"} -> Fault(o.m, "loop")
      [] OTHER -> o

\* The body of f in scopes of its own.  An instance is one that was checked.
Call(m, f, refs, subst, ints) ==
    LET ret == instanceType(f.ret, subst, ints)
        names == [i \in DOMAIN f.params |-> f.params[i].name]
        scope == [x \in Range(names) |-> refs[CHOOSE i \in DOMAIN names : names[i] = x]]
        inner == [m EXCEPT !.scopes = <<scope>>, !.unsafe = FALSE, !.ret = ret, !.subst = subst, !.ints = ints,
                           !.fuel = @ - 1]
        o == Returned(Run(inner, f.body), ret)
    IN  CASE m.fuel = 0 -> Leave(m, <<"void">>, "fuel")
          [] f.body = <<>> -> Out(m, Sample(m.c, ret))
          [] f.statics # <<>> /\ <<f.name, subst, ints>> \notin m.insts -> Fault(m, "instance")
          [] OTHER -> [o EXCEPT !.m.scopes = m.scopes, !.m.unsafe = m.unsafe, !.m.ret = m.ret,
                                !.m.subst = m.subst, !.m.ints = m.ints]

CallFunction(m, f, args, subst, ints) ==
    LET tys == [i \in DOMAIN f.params |-> instanceType(f.params[i].ty, subst, ints)]
        call == On(Pass(m, args, f.params, tys, <<>>), LAMBDA o : Call(o.m, f, o.v, subst, ints))
    IN  IF Len(args) < Len(f.params) THEN Fault(m, "type")
        ELSE IF f.abi # "" \/ f.unsafe THEN Needs(m, call) ELSE call

Apply(m, e) ==
    LET f == m.c.functions[e.f]
        subst == Bound(f, StaticParams(f, TRUE), LAMBDA i : Substitute(e.targs[i], m.subst))
        ints == Bound(f, StaticParams(f, FALSE), LAMBDA i : IF e.targs[i][1] = "x" THEN m.ints[e.targs[i][2]] ELSE e.targs[i][2])
    IN  CallFunction(m, f, e.args, subst, ints)

PtrCall(m, e) ==
    On(Eval(m, e.args[1]), LAMBDA p :
        CASE p.v[1] # "p" -> Fault(p.m, "type")
          [] e.f = "ptr_read" -> Needs(p.m, Out(p.m, Load(p.m, p.v[2])))
          [] e.f = "ptr_write" ->
                On(Eval(p.m, e.args[2]), LAMBDA o :
                    LET old == Load(o.m, p.v[2])
                        new == IF old[1] = "i" THEN Settle(o, <<old[2]>>) ELSE o
                    IN  On(new, LAMBDA n : Needs(n.m, Guard(n.m, p.v[2][4], "write",
                            Guard(n.m, n.v[1] = old[1], "type", Out(Store(n.m, p.v[2], n.v), <<"void">>))))))
          [] OTHER -> Needs(p.m, p))

NamedCall(m, e) ==
    CASE e.f \in ptrBuiltins -> PtrCall(m, e)
      [] Known(m, e.f) ->
            LET v == Load(m, Named(m, e.f))
            IN  IF v[1] = "fn" THEN CallFunction(m, m.c.functions[v[2]], e.args, <<>>, <<>>) ELSE Fault(m, "type")
      [] e.f \in DOMAIN m.c.functions -> CallFunction(m, m.c.functions[e.f], e.args, <<>>, <<>>)
      [] OTHER -> Fault(m, "name")

\* The methods of Array, as std writes them: a reference to an element or the
\* element, null when there is none.
ArrayMethod(m, e, ref) ==
    LET elems == Load(m, ref)[2]
        at(i) == i[1] = "i" /\ i[3] \in 0 .. Len(elems) - 1
    IN  CASE e.name = "len" -> Out(m, <<"i", "i64", Len(elems)>>)
          [] e.name = "append" ->
                On(Eval(m, e.args[1]), LAMBDA o :
                    LET v == IF elems = <<>> THEN Loose(o.v) ELSE Into(o.v, <<elems[1][2]>>)
                    IN  IF Misfit(v) THEN Fault(o.m, "range")
                        ELSE Guard(o.m, elems = <<>> \/ (v[1] = elems[1][1] /\ v[2] = elems[1][2]), "type",
                                   Out(Store(o.m, ref, <<"A", Append(elems, v)>>), <<"void">>)))
          [] e.name \in {"get", "at", "at_mut"} ->
                On(Eval(m, e.args[1]), LAMBDA i :
                    CASE ~at(i.v) -> Out(i.m, <<"null">>)
                      [] e.name = "get" -> Out(i.m, <<"some", elems[i.v[3] + 1]>>)
                      [] OTHER -> On(Lend(Out(i.m, Within(ref, i.v[3] + 1)), e.name = "at_mut"),
                                     LAMBDA o : Out(o.m, <<"some", o.v>>)))
          [] OTHER -> Guard(m, ref[4], "write", Out(Store(m, ref, <<"A", <<>>>>), <<"void">>))

ViewOf(m, e, ref) ==
    On(Lend(Out(m, ref), isMutView(e.name)), LAMBDA o : Out(o.m, <<"view", o.v>>))

Method(m, e) ==
    On(Place(m, e.on), LAMBDA o :
        LET v == Load(o.m, o.v)
            impl == IF v[1] \in {"s", "u", "e"} THEN implMethod(o.m.c, v[2], e.name) ELSE <<>>
            self == impl[1].params[1]
            f == impl[1]
            call == On(Lend(o, self.mut), LAMBDA p :
                      On(Pass(p.m, e.args, Tail(f.params), TypesOf(Tail(f.params)), <<p.v>>), LAMBDA q :
                         Call(q.m, f, q.v, <<>>, <<>>)))
        IN  CASE v[1] = "A" -> ArrayMethod(o.m, e, o.v)
              [] v[1] = "a" /\ isViewMethodName(e.name) -> ViewOf(o.m, e, o.v)
              [] impl = <<>> -> Fault(o.m, "name")
              [] Len(e.args) # Len(f.params) - 1 -> Fault(o.m, "type")
              [] OTHER -> IF f.unsafe THEN Needs(o.m, call) ELSE call)

(***************************************************************************)
(* Aggregates, conditions and matches                                      *)
(***************************************************************************)
RECURSIVE Fields(_, _, _, _)
Fields(m, decl, vs, got) ==
    IF vs = <<>> THEN Out(m, got)
    ELSE LET fs == {f \in Range(decl.fields) : f.name = vs[1].name}
         IN  IF fs = {} THEN Fault(m, "field")
             ELSE On(Settle(Eval(m, vs[1].e), (CHOOSE f \in fs : TRUE).ty), LAMBDA o :
                     Fields(o.m, decl, Tail(vs), With(got, vs[1].name, o.v)))
StructLiteral(m, e) ==
    IF e.name \notin DOMAIN m.c.structs THEN Fault(m, "name")
    ELSE LET decl == m.c.structs[e.name]
             made == On(Fields(m, decl, e.fields, <<>>), LAMBDA o :
                        Guard(o.m, DOMAIN o.v = Range(NamesOf(decl.fields)), "field",
                              Out(o.m, <<"s", e.name, o.v>>)))
         IN  IF decl.unsafe THEN Needs(m, made) ELSE made

RECURSIVE Elements(_, _, _, _)
Elements(m, es, t, got) ==
    IF es = <<>> THEN Out(m, got)
    ELSE On(Settle(Eval(m, es[1]), t), LAMBDA o : Elements(o.m, Tail(es), t, Append(got, o.v)))

Made(m, e) ==
    LET ws == IF e.union \in DOMAIN m.c.unions THEN variantOf(m.c, e.union, e.tag) ELSE {}
    IN  IF ws = {} THEN Fault(m, "name")
        ELSE On(Settle(Eval(m, e.args[1]), (CHOOSE w \in ws : TRUE).ty), LAMBDA o :
                Out(o.m, <<"u", e.union, e.tag, o.v>>))

NamedValue(m, e) ==
    CASE e.ns \in DOMAIN m.c.enums -> Guard(m, Contains(m.c.enums[e.ns].tags, e.name), "name", Out(m, <<"e", e.ns, e.name>>))
      [] e.ns \in DOMAIN m.c.errorSets ->
            Guard(m, <<e.ns, e.name>> \in ErrorValues(m.c, e.ns), "name", Out(m, <<"x", e.ns, e.name>>))
      [] OTHER -> Out(m, <<"u", e.ns, e.name, <<"void">>>>)

\* The branch a condition takes and the machine in its scope: <<m, taken>>.
Branch(o, st) ==
    LET v == o.v
        opened == Open(o.m)
        Take(x, w) == IF w[1] = "ref" THEN Bind(opened, x, w) ELSE BindValue(opened, x, w, FALSE)
    IN  CASE v[1] = "b" -> <<Guard(opened, st.capture = "", "type", Out(opened, v)), v[2]>>
          [] v[1] \in {"some", "ok"} ->
                <<Guard(opened, st.capture # "" \/ v[2] = <<"void">>, "type",
                        Out(IF st.capture = "" THEN opened ELSE Take(st.capture, v[2]), v)), TRUE>>
          [] v[1] = "p" -> <<Guard(opened, st.capture # "", "type", Out(Take(st.capture, v), v)), TRUE>>
          [] v[1] = "null" -> <<Guard(opened, st.capture # "", "type", Out(opened, v)), FALSE>>
          [] v[1] = "err" -> <<Guard(opened, st.errCapture # "", "type", Out(Take(st.errCapture, v[2]), v)), FALSE>>
          [] OTHER -> <<Fault(opened, "type"), FALSE>>

If(m, st) ==
    On(Eval(m, st.e), LAMBDA o :
        LET b == Branch(o, st)
        IN  On(b[1], LAMBDA p : Close(Run(p.m, IF b[2] THEN st.then ELSE st.else))))

ArmFor(m, st, v) ==
    {i \in DOMAIN st.arms :
        \/ st.arms[i].tag = "_"
        \/ v[1] \in {"e", "x", "u"} /\ st.arms[i].tag = v[3] /\ st.arms[i].set \in {"", v[2]}}
Match(m, st) ==
    On(Place(m, st.e), LAMBDA o :
        LET v == Load(o.m, o.v)
            fit == ArmFor(o.m, st, v)
            arm == st.arms[CHOOSE i \in fit : \A j \in fit : i <= j]
            inner == IF arm.bind = "" THEN Open(o.m) ELSE Bind(Open(o.m), arm.bind, Within(o.v, 1))
        IN  IF fit = {} THEN Fault(o.m, "match")
            ELSE IF arm.bind # "" /\ (v[1] # "u" \/ v[4] = <<"void">>) THEN Fault(o.m, "type")
            ELSE Close(Run(inner, arm.body)))

Exit(o, st) ==
    CASE st.k = "return" -> RunStmt(o.m, st)
      [] OTHER -> Leave(o.m, st.label, st.k)

Try(o) ==
    CASE o.v[1] = "ok" -> Out(o.m, o.v[2])
      [] o.v[1] = "err" -> Leave(o.m, o.v, "return")
      [] OTHER -> Fault(o.m, "type")

Cast(o, t) ==
    CASE o.v[1] = "i" /\ t \in integerTypes ->
            Out(o.m, <<"i", t[1], IF InRange(o.v[3], t[1]) THEN o.v[3] ELSE 0>>)
      [] o.v[1] = "p" /\ Is(t, "ptr") -> Needs(o.m, o)
      [] OTHER -> Fault(o.m, "type")

Eval(m, e) ==
    CASE e.k = "int" -> Out(m, <<"i", "lit", e.n>>)
      [] e.k = "bool" -> Out(m, <<"b", e.b>>)
      [] e.k = "null" -> Out(m, <<"null">>)
      [] e.k = "ident" -> IF Known(m, e.x) THEN Out(m, Load(m, Named(m, e.x)))
                          ELSE Guard(m, e.x \in DOMAIN m.c.functions, "name", Out(m, <<"fn", e.x>>))
      [] e.k = "borrow" -> Lend(Place(m, e.e), e.mut)
      [] e.k = "prefix" -> Prefix(m, e)
      [] e.k = "binary" -> Binary(m, e)
      [] e.k = "call" -> NamedCall(m, e)
      [] e.k = "apply" -> Apply(m, e)
      [] e.k = "method" -> Method(m, e)
      [] e.k = "make" -> Made(m, e)
      [] e.k = "ns" -> NamedValue(m, e)
      [] e.k = "lit" -> StructLiteral(m, e)
      [] e.k = "array" ->
            LET t == TypeHere(m, e.ty)
            IN  On(IF e.fill THEN Out(m, [i \in 1 .. t[2] |-> Sample(m.c, t[3])]) ELSE Elements(m, e.es, t[3], <<>>),
                   LAMBDA o : Out(o.m, <<"a", o.v>>))
      [] e.k \in {"field", "index", "deref"} -> Read(Place(m, e))
      [] e.k = "cast" -> On(Eval(m, e.e), LAMBDA o : Cast(o, TypeHere(m, e.ty)))
      [] e.k = "try" -> On(Eval(m, e.e), LAMBDA o : Try(o))
      [] e.k = "unsafe" -> Marked(m, e, LAMBDA n : Eval(n, e.e))
      [] e.k = "move" -> Eval(m, e.e)
      [] e.k = "if" -> If(m, e)
      [] e.k = "match" -> Match(m, e)
      [] OTHER -> \* a guard: the value, or the way out
            On(Eval(m, e.e), LAMBDA o :
                CASE o.v[1] \in {"some", "ok"} -> Out(o.m, o.v[2])
                  [] o.v[1] \in {"null", "err"} -> Exit(o, e.exit)
                  [] OTHER -> Fault(o.m, "type"))

(***************************************************************************)
(* Statements                                                              *)
(***************************************************************************)
Let(m, st) ==
    LET o == IF st.ty = NoType THEN Eval(m, st.e) ELSE Settle(Eval(m, st.e), TypeHere(m, st.ty))
        lent == Eval(m, st.e)
    IN  IF st.e.k = "borrow" THEN On(lent, LAMBDA p : Out(Bind(p.m, st.x, p.v), <<"void">>))
        ELSE On(o, LAMBDA p : IF p.v[1] = "ref" THEN Out(Bind(p.m, st.x, p.v), <<"void">>)
                              ELSE Out(BindValue(p.m, st.x, Loose(p.v), st.mut), <<"void">>))

\* What is written keeps the type of what was there.
Assign(m, st) ==
    On(Place(m, st.t), LAMBDA o :
        LET old == Load(o.m, o.v)
            v == Eval(o.m, st.e)
            new == IF old[1] = "i" THEN Settle(v, <<old[2]>>)
                   ELSE IF old[1] \in {"null", "some"} /\ v.exit = ""
                   THEN [v EXCEPT !.v = IF @[1] \in {"null", "some"} THEN @ ELSE <<"some", Into(@, I64)>>] ELSE v
        IN  On(new, LAMBDA p :
                Guard(p.m, o.v[4], "write",
                    Guard(p.m, \/ p.v[1] \in {"null", "some"} /\ old[1] \in {"null", "some"}
                               \/ p.v[1] = old[1] /\ (old[1] \in {"i", "s", "e", "u"} => p.v[2] = old[2]),
                          "type", Out(Store(p.m, o.v, p.v), <<"void">>)))))

Return(m, st) ==
    LET o == CASE st.e.k = "none" -> Out(m, <<"void">>)
               [] isBorrow(m.ret) -> Lend(Place(m, st.e), Is(m.ret, "&var"))
               [] OTHER -> Eval(m, st.e)
    IN  On(o, LAMBDA p : Leave(p.m, p.v, "return"))

\* A break or continue that names another loop goes on to it.
MineToTake(o, st) == o.exit \in {"break", "continue"} /\ o.v \in {"", st.label}

RECURSIVE While(_, _), For(_, _, _, _)
While(m, st) ==
    IF m.fuel = 0 THEN Leave(m, <<"void">>, "fuel")
    ELSE On(Eval(m, st.e), LAMBDA o :
        LET b == Branch(o, st)
            turn == Close(Run(b[1].m, st.body))
            next == [turn.m EXCEPT !.fuel = @ - 1]
        IN  IF b[1].exit # "" THEN b[1]
            ELSE IF ~b[2] THEN Close(Out(b[1].m, <<"void">>))
            ELSE IF turn.exit = "" \/ (MineToTake(turn, st) /\ turn.exit = "continue") THEN While(next, st)
            ELSE IF MineToTake(turn, st) THEN Out(turn.m, <<"void">>) ELSE turn)
For(m, st, i, high) ==
    LET turn == Close(Run(BindValue(Open(m), st.x, <<"i", "i64", i>>, FALSE), st.body))
    IN  IF i >= high THEN Out(m, <<"void">>)
        ELSE IF turn.exit = "" \/ (MineToTake(turn, st) /\ turn.exit = "continue") THEN For(turn.m, st, i + 1, high)
        ELSE IF MineToTake(turn, st) THEN Out(turn.m, <<"void">>) ELSE turn
ForStmt(m, st) ==
    On(Eval(m, st.lo), LAMBDA l : On(Eval(l.m, st.hi), LAMBDA h :
        Guard(h.m, {Loose(l.v)[1], Loose(h.v)[1]} = {"i"} /\ {Loose(l.v)[2], Loose(h.v)[2]} = {"i64"}, "type",
              For(h.m, st, l.v[3], h.v[3]))))

RunStmt(m, st) ==
    CASE st.k = "let" -> Let(m, st)
      [] st.k = "assign" -> Assign(m, st)
      [] st.k = "return" -> Return(m, st)
      [] st.k = "expr" -> Eval(m, st.e)
      [] st.k = "if" -> If(m, st)
      [] st.k = "while" -> While(m, st)
      [] st.k = "for" -> ForStmt(m, st)
      [] st.k \in {"break", "continue"} -> Leave(m, st.label, st.k)
      [] st.k = "match" -> Match(m, st)
      [] OTHER -> Close(Run(Open(m), st.body))

\* A deferred call runs when its block is left, an errdefer on an error.
Fails(o) == o.exit = "return" /\ o.v[1] \in {"x", "err"}
Deferred(o, st) ==
    LET r == Eval(o.m, st.e)
    IN  IF o.exit \in {"fault", "panic", "fuel"} \/ (st.k = "errdefer" /\ ~Fails(o)) THEN o
        ELSE IF r.exit # "" THEN r ELSE Guard(r.m, r.v[1] = "void", "type", [o EXCEPT !.m = r.m])

\* The value of a block is the value of its last statement.
Run(m, body) ==
    IF body = <<>> THEN Out(m, <<"void">>)
    ELSE IF body[1].k \in {"defer", "errdefer"} THEN Deferred(Run(m, Tail(body)), body[1])
    ELSE LET o == RunStmt(m, body[1])
         IN  IF o.exit # "" \/ Len(body) = 1 THEN o ELSE Run(o.m, Tail(body))

Advance(m, body) == IF body[1].k \in {"defer", "errdefer"} THEN Run(m, body) ELSE RunStmt(m, body[1])

RECURSIVE Given(_)
Given(params) ==
    IF params = <<>> THEN {<<>>}
    ELSE {<<v>> \o rest : v \in Inputs(params[1].ty), rest \in Given(Tail(params))}

(***************************************************************************)
(* Checking a program, and running it                                      *)
(***************************************************************************)
VARIABLES
    prog,     \* the declarations given, `run` the last
    phase,    \* "given", "refused", "accepted", "running", "done"
    verdict,  \* what Check made of it: [ok, insts, c]
    todo,     \* the statements of `run` that are left
    out       \* where the run stands: an evaluation
vars == <<prog, phase, verdict, todo, out>>

Halted == Out([c |-> <<>>], <<"void">>)
\* The tables are kept with the verdict, and not in every machine.
Bare(o) == [o EXCEPT !.m.c = <<>>]
Here == [out.m EXCEPT !.c = verdict.c]
Main(c) == c.functions["run"]

Init ==
    /\ prog \in Programs \cup Refused \cup Mended /\ phase = "given"
    /\ verdict = [ok |-> FALSE, insts |-> {}, c |-> newCheckerMetadata]
    /\ todo = <<>> /\ out = Halted

CheckProgram ==
    /\ phase = "given"
    /\ LET r == Verdict(prog)
       IN  /\ verdict' = IF r.ok THEN [ok |-> TRUE, insts |-> r.insts, c |-> r.c] ELSE verdict
           /\ phase' = IF r.ok THEN "accepted" ELSE "refused"
    /\ UNCHANGED <<prog, todo, out>>

\* A parameter that borrows is given a cell of the caller's.
Machine(given) ==
    LET c == verdict.c
        f == Main(c)
        names == [i \in DOMAIN f.params |-> f.params[i].name]
    IN  [c |-> <<>>, store |-> [i \in DOMAIN given |-> given[i]], unsafe |-> FALSE, ret |-> f.ret, subst |-> <<>>,
         ints |-> <<>>, insts |-> verdict.insts, fuel |-> MaxFuel,
         scopes |-> <<[x \in Range(names) |->
                         LET i == CHOOSE j \in DOMAIN names : names[j] = x IN Ref(i, f.params[i].mut)]>>]

Start ==
    /\ phase = "accepted" /\ "run" \in DOMAIN verdict.c.functions
    /\ LET f == Main(verdict.c)
       IN  \E given \in Given(f.params) :
               /\ out' = Out(Machine(given), <<"void">>)
               /\ todo' = f.body
    /\ phase' = "running"
    /\ UNCHANGED <<prog, verdict>>

\* One statement of `run`.
Step ==
    /\ phase = "running" /\ out.exit = "" /\ todo # <<>>
    /\ out' = Bare(Advances(Here, todo))
    /\ todo' = IF todo[1].k \in {"defer", "errdefer"} THEN <<>> ELSE Tail(todo)
    /\ UNCHANGED <<prog, phase, verdict>>

Finish ==
    /\ phase = "running" /\ (out.exit # "" \/ todo = <<>>)
    /\ out' = Bare(Ends([out EXCEPT !.m = Here], Main(verdict.c).ret))
    /\ phase' = "done"
    /\ UNCHANGED <<prog, verdict, todo>>

Next == CheckProgram \/ Start \/ Step \/ Finish
Spec == Init /\ [][Next]_vars

Faulted(kinds) == out.exit = "fault" /\ out.v \in kinds

\* A program that was accepted never applies an operation to a value it is
\* not for: no operand, argument, field, returned value or match arm of
\* another type, no literal outside the range of the type its place gave it,
\* and no non-void function that ends without a value (checkBlock,
\* checkContextualExpr, coerceContextualIntegerLiteral, checkReturnStmt,
\* armsCover).
NeverGoesWrong == ~Faulted({"type", "range", "name", "field", "match", "fell", "loop"})

\* A program that was accepted does only what it was let do: what is written
\* was declared `var` or lent with `&var`, through every borrow, field, view,
\* element and receiver (checkAssignableTarget, requireMutableBorrowArg,
\* mutableReceiverPlace), and nothing that needs `unsafe` runs outside a mark
\* with its SAFETY comment (requireUnsafeCapability, underMark).
OnlyPermitted == ~Faulted({"write", "unsafe"})

\* A generic body runs only with the types and the lengths it was checked
\* with (checkGenericInstantiation, checkedInstances).
InstancesWereChecked == ~Faulted({"instance"})

\* A program of examples/negative is refused, and the same program with its
\* one fault mended is accepted: the rules on declarations, on what C can
\* name, on containers, captures, vectors, raw pointers and unsafe structs,
\* of which no value tells at run time.
ExamplesAsTested ==
    /\ prog \in Refused => phase \in {"given", "refused"}
    /\ prog \in Mended => phase # "refused"
=============================================================================
