------------------------------ MODULE MCTypes ------------------------------
(***************************************************************************)
(* Small programs for the type checker: a prelude of declarations and a     *)
(* function `run` written from templates whose holes are filled with every  *)
(* expression of a small set, well typed or not.                           *)
(***************************************************************************)
EXTENDS TypesRun

(***************************************************************************)
(* Writing programs                                                        *)
(***************************************************************************)
N(n) == [k |-> "int", n |-> n]
V(x) == [k |-> "ident", x |-> x]
T(b) == [k |-> "bool", b |-> b]
Neg(e) == [k |-> "prefix", op |-> "-", e |-> e]
Op(op, l, r) == [k |-> "binary", op |-> op, l |-> l, r |-> r]
CallOf(f, args) == [k |-> "call", f |-> f, args |-> args]
ApplyOf(f, targs, args) == [k |-> "apply", f |-> f, targs |-> targs, args |-> args]
MethodOf(on, name, args) == [k |-> "method", on |-> on, name |-> name, args |-> args]
Dot(e, f) == [k |-> "field", e |-> e, f |-> f]
Idx(e, i) == [k |-> "index", e |-> e, i |-> i]
Star(e) == [k |-> "deref", e |-> e]
Amp(mut, e) == [k |-> "borrow", mut |-> mut, e |-> e]
Of(ns, name) == [k |-> "ns", ns |-> ns, name |-> name]
TryOf(e) == [k |-> "try", e |-> e]
CastTo(t, e) == [k |-> "cast", ty |-> t, e |-> e]
Unsafe(safety, e) == [k |-> "unsafe", safety |-> safety, e |-> e]
ArrayOf(t, es) == [k |-> "array", ty |-> <<"[n]", Len(es), t>>, es |-> es, fill |-> FALSE]
NullE == [k |-> "null"]

LetS(x, mut, t, e) == [k |-> "let", x |-> x, mut |-> mut, ty |-> t, e |-> e]
AssignS(t, e) == [k |-> "assign", t |-> t, e |-> e]
Ret(e) == [k |-> "return", e |-> e]
Do(e) == [k |-> "expr", e |-> e, semi |-> TRUE]
Value(e) == [k |-> "expr", e |-> e, semi |-> FALSE]
IfS(e, cap, err, then, else) ==
    [k |-> "if", e |-> e, capture |-> cap, errCapture |-> err, then |-> then, else |-> else, hasElse |-> else # <<>>]
WhileS(e, cap, body) ==
    [k |-> "while", e |-> e, capture |-> cap, errCapture |-> "", body |-> body, label |-> ""]
ForS(x, lo, hi, body, label) == [k |-> "for", x |-> x, lo |-> lo, hi |-> hi, body |-> body, label |-> label]
MatchS(e, arms) == [k |-> "match", e |-> e, arms |-> arms]
Arm(tag, bind, body) == [tag |-> tag, set |-> "", bind |-> bind, body |-> body]

P(name, t) == [name |-> name, ty |-> t, borrow |-> FALSE, mut |-> FALSE]
PRef(name, t) == [P(name, t) EXCEPT !.borrow = TRUE]
PVar(name, t) == [P(name, t) EXCEPT !.borrow = TRUE, !.mut = TRUE]
Function(name, params, ret, body) ==
    [k |-> "fn", name |-> name, pub |-> FALSE, recv |-> "", method |-> "", statics |-> <<>>, params |-> params,
     ret |-> ret, abi |-> "", export |-> "", link |-> FALSE, variadic |-> FALSE, reserved |-> FALSE,
     unsafe |-> FALSE, doc |-> FALSE, std |-> FALSE, mod |-> "m", body |-> body]
MethodFn(recv, method, params, ret, body) ==
    [Function(recv \o "." \o method, params, ret, body) EXCEPT !.recv = recv, !.method = method]
GenericFn(name, statics, params, ret, body) == [Function(name, params, ret, body) EXCEPT !.statics = statics]
UnsafeFn(f) == [f EXCEPT !.unsafe = TRUE, !.doc = TRUE]
ExternFn(f) == [f EXCEPT !.abi = "c"]
StructOf(name, fields) ==
    [k |-> "struct", name |-> name, pub |-> FALSE, abi |-> "", params |-> <<>>, unsafe |-> FALSE, doc |-> FALSE,
     mod |-> "m", fields |-> fields]
FieldOf(name, t) == [name |-> name, ty |-> t, borrow |-> FALSE, pub |-> FALSE]
UnionOf(name, variants) == [k |-> "union", name |-> name, pub |-> FALSE, params |-> <<>>, variants |-> variants]
ErrorOf(name, members, combines) ==
    [k |-> "error", name |-> name, pub |-> FALSE, members |-> members, combines |-> combines]

(***************************************************************************)
(* The prelude                                                             *)
(***************************************************************************)
Point == <<"Point">>
Shape == <<"Shape">>
Color == <<"Color">>
Opt == <<"?", I64>>
Fall(set, t) == <<"!", <<set>>, t>>
Bytes8 == <<"Array", U8>>
Word == <<"ptr", I64>>
TypeParam == [name |-> "T", ty |-> TypeType]
LengthParam == [name |-> "N", ty |-> I64]
TVar == <<"T">>

StdMethod(recv, self, method, params, ret) ==
    [MethodFn(recv, method, <<self>> \o params, ret, <<>>) EXCEPT !.statics = <<TypeParam>>, !.std = TRUE]
StdArray(method, params, ret) == StdMethod("Array", PRef("self", <<"Array", TVar>>), method, params, ret)
StdBox(method, params, ret) == StdMethod("Box", P("self", <<"Box", TVar>>), method, params, ret)
StdArena(method, params, ret) == StdMethod("Arena", PRef("self", <<"Arena", TVar>>), method, params, ret)
HandleT == <<"Handle", TVar>>
MCStd ==
    <<ErrorOf("MemError", <<"OutOfMemory">>, <<>>),
      StdArray("len", <<>>, I64), StdArray("get", <<P("i", I64)>>, <<"?", TVar>>),
      StdArray("at", <<P("i", I64)>>, <<"?", <<"&", TVar>>>>),
      StdArray("at_mut", <<P("i", I64)>>, <<"?", <<"&var", TVar>>>>), StdArray("clear", <<>>, Void),
      StdArray("append", <<P("a", Allocator), P("v", TVar)>>, Fallible("MemError")),
      StdArray("append_bytes", <<P("a", Allocator), P("v", Bytes)>>, Fallible("MemError")),
      StdArray("deinit", <<P("a", Allocator)>>, Void),
      StdBox("deinit", <<P("a", Allocator)>>, Void), StdBox("take", <<P("a", Allocator)>>, TVar),
      StdArena("add", <<P("v", TVar)>>, <<"!", <<"MemError">>, HandleT>>),
      StdArena("at_mut", <<P("h", HandleT)>>, <<"?", <<"&var", TVar>>>>), StdArena("deinit", <<P("a", Allocator)>>, Void),
      [GenericFn("print", <<TypeParam>>, <<P("v", TVar)>>, Void, <<>>) EXCEPT !.std = TRUE]>>

MCPrelude ==
    <<StructOf("Point", <<FieldOf("x", I64), FieldOf("y", U8)>>),
      [StructOf("Raw", <<FieldOf("p", Word)>>) EXCEPT !.unsafe = TRUE, !.doc = TRUE],
      [k |-> "enum", name |-> "Color", pub |-> FALSE, tags |-> <<"red", "blue">>],
      UnionOf("Shape", <<[name |-> "dot", ty |-> NoType], [name |-> "line", ty |-> Point], [name |-> "size", ty |-> U8]>>),
      ErrorOf("A", <<"bad", "worse">>, <<>>), ErrorOf("B", <<"bad">>, <<>>), ErrorOf("AB", <<>>, <<"A", "B">>),
      Function("next", <<P("n", I64)>>, I64, <<Ret(Op("+", V("n"), N(1)))>>),
      Function("small", <<P("b", U8)>>, U8, <<Ret(V("b"))>>),
      Function("put", <<PVar("p", Point), P("n", I64)>>, Void, <<AssignS(Dot(V("p"), "x"), V("n"))>>),
      Function("reads", <<PRef("p", Point)>>, I64, <<Ret(Dot(V("p"), "x"))>>),
      Function("same", <<PVar("p", Point)>>, <<"&var", Point>>, <<Ret(V("p"))>>),
      Function("find", <<P("n", I64)>>, Opt,
               <<IfS(Op("==", V("n"), N(0)), "", "", <<Ret(NullE)>>, <<Ret(V("n"))>>)>>),
      Function("fails", <<P("c", Color)>>, Fall("A", I64),
               <<MatchS(V("c"), <<Arm("red", "", <<Ret(Of("A", "bad"))>>), Arm("blue", "", <<Ret(N(1))>>)>>)>>),
      Function("failsB", <<>>, Fall("B", I64), <<Ret(Of("B", "bad"))>>),
      MethodFn("Point", "shift", <<PVar("self", Point), P("n", I64)>>, Void, <<AssignS(Dot(V("self"), "x"), V("n"))>>),
      MethodFn("Point", "far", <<PRef("self", Point)>>, I64, <<Ret(Dot(V("self"), "x"))>>),
      UnsafeFn(Function("danger", <<P("n", I64)>>, I64, <<Ret(V("n"))>>)),
      UnsafeFn(MethodFn("Point", "poke", <<PRef("self", Point)>>, I64, <<Ret(N(1))>>)),
      ExternFn(Function("outside", <<P("n", I64)>>, I64, <<>>)),
      GenericFn("id", <<TypeParam>>, <<P("v", TVar)>>, TVar, <<Ret(V("v"))>>),
      GenericFn("twice", <<TypeParam>>, <<P("v", TVar)>>, TVar, <<Ret(ApplyOf("id", <<TVar>>, <<V("v")>>))>>),
      GenericFn("last", <<LengthParam>>, <<P("a", <<"[N]", "N", I64>>)>>, I64, <<Ret(Idx(V("a"), N(2)))>>),
      GenericFn("wrap", <<TypeParam>>, <<P("v", TVar)>>, <<"?", TVar>>, <<Ret(V("v"))>>)>>

MCTables == CheckDecls(newCheckerMetadata, MCStd).c
MCVerdict(p) == LET r == Check(MCTables, MCPrelude \o p) IN r

MCAdvances(m, body) == LET o == Advance(m, body) IN o
MCEnds(o, ret) == LET r == Returned(o, ret) IN r

MCInputs(t) ==
    CASE t \in integerTypes -> {<<"i", t[1], 1>>}
      [] t = Opt -> {<<"null">>, <<"some", <<"i", "i64", 1>>>>}
      [] t = Color -> {<<"e", "Color", "red">>, <<"e", "Color", "blue">>}
      [] t = <<"AB">> -> {<<"x", "A", "bad">>, <<"x", "A", "worse">>, <<"x", "B", "bad">>}
      [] t = Point -> {<<"s", "Point", [x |-> <<"i", "i64", 1>>, y |-> <<"i", "u8", 1>>]>>}
      [] t = Shape -> {<<"u", "Shape", "dot", <<"void">>>>,
                       <<"u", "Shape", "line", <<"s", "Point", [x |-> <<"i", "i64", 1>>, y |-> <<"i", "u8", 1>>]>>>>,
                       <<"u", "Shape", "size", <<"i", "u8", 1>>>>}
      [] t = Bytes8 -> {<<"A", <<<<"i", "u8", 1>>>>>>, <<"A", <<>>>>}
      [] t = <<"fn", "", <<I64>>, I64, FALSE>> -> {<<"fn", "next">>}
      \* the pointer is to the first parameter, an i64 of the caller's
      [] t = Word -> {<<"p", Ref(1, TRUE)>>}
      [] OTHER -> {}

MainOf(params, ret, body) == <<Function("run", params, ret, body)>>

(***************************************************************************)
(* Values in places                                                        *)
(***************************************************************************)
Params == <<P("n", I64), P("b", U8), PRef("p", Point), P("o", Opt), P("c", Color)>>
Atoms == {N(1), N(300), Neg(N(1)), T(TRUE), V("n"), V("b"), V("o"), V("c"), V("p"), Dot(V("p"), "x"),
          Dot(V("p"), "y"), V("nowhere"), V("next"), NullE}
Numbers == {N(1), N(300), V("n"), V("b")}
Composite ==
    {CallOf(f, <<a>>) : f \in {"next", "small", "find", "fails", "reads"}, a \in Atoms}
    \cup {ApplyOf("id", <<t>>, <<a>>) : t \in {I64, U8, Opt}, a \in Atoms}
    \cup {Op(op, l, r) : op \in {"+", "==", "orelse", "catch", "and", "<"}, l \in Numbers \cup {V("o"), V("c"), T(TRUE), Dot(V("p"), "y"), CallOf("fails", <<V("c")>>)},
                          r \in Numbers \cup {T(TRUE), V("c")}}
    \cup {TryOf(CallOf(f, <<V("c")>>)) : f \in {"fails", "find"}}
    \cup {CastTo(t, a) : t \in {U8, I64, Point}, a \in {N(300), V("n"), V("c")}}
    \cup {[IfS(V("o"), cap, "", <<Value(V("k"))>>, <<Value(a)>>) EXCEPT !.k = "if"] : cap \in {"", "k"}, a \in Numbers}
    \cup {MatchS(V("c"), <<Arm("red", "", <<Value(a)>>), Arm("blue", "", <<Value(b)>>)>>) : a, b \in Numbers}
    \cup {[k |-> "orelse_guard", e |-> V("o"), exit |-> Ret(a)] : a \in Numbers}
    \cup {[k |-> "lit", name |-> "Point", fields |-> <<[name |-> "x", e |-> a], [name |-> "y", e |-> b]>>] :
             a, b \in {N(1), N(300), V("n"), V("b"), NullE}}
    \cup {ArrayOf(U8, <<a, b>>) : a, b \in Numbers}
Returns == {I64, U8, Opt, Fall("A", I64), Bool}
ValuePrograms ==
    {MainOf(Params, r, <<LetS("z", FALSE, t, e), Ret(V("z"))>>) :
        r \in Returns, t \in {NoType, I64, U8, Opt}, e \in Atoms}
    \cup {MainOf(Params, r, <<Ret(e)>>) : r \in Returns, e \in Composite}
    \cup {MainOf(Params, I64, <<LetS("z", FALSE, t, e), Ret(Dot(V("z"), f))>>) :
             t \in {NoType, Point}, f \in {"x", "y", "nowhere"},
             e \in {c \in Composite : c.k = "lit"}}

\* A literal on either side of each bound, wherever a context gives it its type.
Edges ==
    {N(n) : n \in {0, 127, 128, 255, 256, 32767, 32768, 65535, 65536, Power(31) - 1, Power(31), Power(32) - 1,
                   Power(32), Power(63) - 1}}
    \cup {Neg(N(n)) : n \in {1, 128, 129, 32768, 32769, Power(31), Power(31) + 1, Power(63) - 1}}
EdgePrograms ==
    UNION {{MainOf(<<P("n", t)>>, r, <<Ret(e)>>) : r \in {t, <<"?", t>>, Fall("A", t)}, e \in Edges}
           \cup {MainOf(<<P("n", t)>>, t, <<LetS("z", FALSE, t, e), Ret(V("z"))>>) : e \in Edges}
           \cup {MainOf(<<P("n", t)>>, t, <<Ret(Op("+", l, r))>>) : <<l, r>> \in ({V("n")} \X Edges) \cup (Edges \X {V("n")})}
           \cup {MainOf(<<P("n", t)>>, t, <<Ret(ApplyOf("id", <<t>>, <<e>>))>>) : e \in Edges}
           \cup {MainOf(<<P("n", t)>>, t, <<LetS("a", FALSE, NoType, ArrayOf(t, <<e>>)), Ret(Idx(V("a"), N(0)))>>) : e \in Edges}
           \cup {MainOf(<<PVar("v", t)>>, Void, <<AssignS(Star(V("v")), e)>>) : e \in Edges} : t \in integerTypes}

(***************************************************************************)
(* Writing                                                                 *)
(***************************************************************************)
WriteParams == <<P("n", I64), PRef("p", Point), PVar("q", Point), P("u", Shape), PVar("s", Shape), PVar("z", Bytes8),
                 PRef("y", Bytes8), PVar("v", I64)>>
PointE == [k |-> "lit", name |-> "Point", fields |-> <<[name |-> "x", e |-> N(1)], [name |-> "y", e |-> N(1)]>>]
Locals(base) ==
    CASE base = "l" -> <<LetS("l", FALSE, NoType, PointE)>>
      [] base = "m" -> <<LetS("m", TRUE, NoType, PointE)>>
      [] base = "r" -> <<LetS("m", TRUE, NoType, PointE), LetS("r", FALSE, NoType, Amp(TRUE, V("m")))>>
      [] base = "t" -> <<LetS("m", TRUE, NoType, PointE), LetS("t", FALSE, NoType, Amp(FALSE, V("m")))>>
      [] base = "w" -> <<LetS("w", FALSE, NoType, CallOf("same", <<V("q")>>))>>
      [] base = "x" -> <<LetS("l", FALSE, NoType, PointE), LetS("x", FALSE, NoType, Amp(TRUE, V("l")))>>
      [] base = "a" -> <<LetS("a", TRUE, NoType, ArrayOf(U8, <<N(1), N(2)>>))>>
      [] base = "b" -> <<LetS("b", FALSE, NoType, ArrayOf(U8, <<N(1), N(2)>>))>>
      [] base = "d" -> <<LetS("a", TRUE, NoType, ArrayOf(I64, <<N(1), N(2)>>)),
                         LetS("d", FALSE, NoType, MethodOf(V("a"), "as_mut_slice", <<>>))>>
      [] base = "e" -> <<LetS("a", TRUE, NoType, ArrayOf(I64, <<N(1), N(2)>>)),
                         LetS("e", FALSE, NoType, MethodOf(V("a"), "as_slice", <<>>))>>
      [] base = "f" -> <<LetS("b", FALSE, NoType, ArrayOf(I64, <<N(1), N(2)>>)),
                         LetS("f", FALSE, NoType, MethodOf(V("b"), "as_mut_slice", <<>>))>>
      [] OTHER -> <<>>
Bases == {"p", "q", "l", "m", "r", "t", "w", "x"}
ArrayBases == {"a", "b", "d", "e", "f"}
ReadBack(base) == Do(V(base))
WritePrograms ==
    {MainOf(WriteParams, Void, Locals(x) \o <<AssignS(target, e), ReadBack(x)>>) :
        x \in Bases, target \in {Dot(V("X"), "x")}, e \in {N(1)}}
    \cup UNION {{MainOf(WriteParams, Void, Locals(x) \o <<AssignS(target, e), ReadBack(x)>>) :
                    target \in {V(x), Dot(V(x), "x"), Dot(V(x), "y"), Star(V(x))},
                    e \in {N(1), N(300), V("n"), PointE}} : x \in Bases}
    \cup UNION {{MainOf(WriteParams, Void, Locals(x) \o <<AssignS(Idx(V(x), i), e), ReadBack(x)>>) :
                    i \in {N(0), N(2), V("n")}, e \in {N(1), N(300), V("n")}} : x \in ArrayBases}
    \cup UNION {{MainOf(WriteParams, Void, Locals(x) \o <<Do(e), ReadBack(x)>>) :
                    e \in {CallOf(f, <<a>> \o (IF f = "put" THEN <<N(1)>> ELSE <<>>)) :
                              f \in {"put", "reads"},
                              a \in {V(x), Amp(FALSE, V(x)), Amp(TRUE, V(x))}}
                          \cup {MethodOf(V(x), "shift", <<N(1)>>), MethodOf(V(x), "far", <<>>)}} : x \in Bases}
    \cup {MainOf(WriteParams, Void,
            <<IfS(MethodOf(V(x), m, <<i>>), "k", "", <<AssignS(target, N(2))>>, <<>>)>>) :
              x \in {"y", "z"}, m \in {"at", "at_mut", "get"}, i \in {N(0), N(1)}, target \in {V("k"), Star(V("k"))}}
    \cup {MainOf(WriteParams, Void, <<Do(MethodOf(V(x), m, <<>>))>>) : x \in {"y", "z"}, m \in {"clear", "len"}}
    \cup {MainOf(WriteParams, Void,
            <<MatchS(V(x), <<Arm("line", "k", <<AssignS(target, N(2))>>), Arm("_", "", <<>>)>>)>>) :
              x \in {"u", "s"}, target \in {Dot(V("k"), "x"), V("k")}}
    \cup {MainOf(WriteParams, Void, <<AssignS(target, e)>>) :
              target \in {V("n"), V("v"), Star(V("v")), V("z"), V("u"), V("s")}, e \in {N(1), T(TRUE), V("u")}}

(***************************************************************************)
(* Branches, matches and errors                                            *)
(***************************************************************************)
BranchParams == <<P("n", I64), P("o", Opt), P("c", Color), PRef("y", Bytes8), P("g", <<"fn", "", <<I64>>, I64, FALSE>>)>>
Conditions == {T(TRUE), V("n"), V("o"), CallOf("fails", <<V("c")>>), CallOf("find", <<V("n")>>), CallOf("g", <<N(1)>>),
               Op("<", CallOf("g", <<V("n")>>), N(2)), MethodOf(V("y"), "get", <<N(0)>>), MethodOf(V("y"), "at", <<N(0)>>)}
BranchPrograms ==
    {MainOf(BranchParams, r, <<IfS(e, cap, err, <<Ret(a)>>, b), Ret(N(0))>>) :
        r \in {I64, U8}, e \in Conditions, cap \in {"", "k"}, err \in {"", "e"}, a \in {N(1), V("k")},
        b \in {<<>>, <<Ret(N(2))>>, <<Do(V("e"))>>}}
    \cup {MainOf(BranchParams, I64, <<IfS(e, "", "", a, b)>>) :
             e \in {T(TRUE)}, a, b \in {<<>>, <<Ret(N(1))>>, <<Do(N(1))>>}}
    \cup {MainOf(BranchParams, Void, <<WhileS(e, cap, <<body>>)>>) :
             e \in Conditions, cap \in {"", "k"},
             body \in {[k |-> "break", label |-> ""], [k |-> "continue", label |-> ""], Do(V("k")), Ret(None)}}
    \cup {MainOf(BranchParams, Void, <<ForS("i", lo, hi, <<ForS("j", N(0), V("i"), <<body>>, "in")>>, "out")>>) :
             lo \in {N(0), V("o")}, hi \in {N(2), V("n"), V("c")},
             body \in {[k |-> "break", label |-> l] : l \in {"", "out", "in", "gone"}} \cup {AssignS(V("j"), N(1))}}
    \cup {MainOf(BranchParams, Void, <<[k |-> "break", label |-> ""]>>)}

ShapeArms == {Arm("dot", "", <<Ret(N(1))>>), Arm("line", "k", <<Ret(Dot(V("k"), "x"))>>),
              Arm("line", "", <<Ret(N(1))>>), Arm("size", "k", <<Ret(V("k"))>>), Arm("dot", "k", <<Ret(N(1))>>),
              Arm("size", "", <<Do(N(1))>>), Arm("_", "", <<Ret(N(3))>>)}
ColorArms == {Arm("red", "", <<Ret(N(1))>>), Arm("blue", "", <<Ret(N(1))>>), Arm("_", "", <<Ret(N(1))>>),
              Arm("red", "", <<>>), Arm("green", "", <<Ret(N(1))>>)}
ErrorArms == {Arm("bad", "", <<Ret(N(1))>>), Arm("worse", "", <<Ret(N(1))>>), Arm("_", "", <<Ret(N(1))>>),
              [Arm("bad", "", <<Ret(N(1))>>) EXCEPT !.set = "A"], [Arm("bad", "", <<Ret(N(1))>>) EXCEPT !.set = "B"]}
MatchPrograms ==
    {MainOf(<<P("u", Shape)>>, I64, <<MatchS(V("u"), arms)>>) : arms \in [1 .. 2 -> ShapeArms] \cup [1 .. 3 -> ShapeArms]}
    \cup {MainOf(<<P("c", Color)>>, I64, <<MatchS(V("c"), arms)>>) :
             arms \in [1 .. 1 -> ColorArms] \cup [1 .. 2 -> ColorArms]}
    \cup {MainOf(<<P("e", <<"AB">>)>>, I64, <<MatchS(V("e"), arms)>>) :
             arms \in [1 .. 2 -> ErrorArms] \cup [1 .. 3 -> ErrorArms]}

Failing == {Of("A", "bad"), Of("B", "bad"), Of("A", "nowhere"), CallOf("fails", <<V("c")>>), CallOf("failsB", <<>>),
            TryOf(CallOf("fails", <<V("c")>>)), TryOf(CallOf("failsB", <<>>)), N(1), V("c"), V("e")}
ErrorPrograms ==
    {MainOf(<<P("c", Color), P("e", <<"AB">>)>>, r, body \o <<Ret(e)>>) :
        r \in {Fall("A", I64), Fall("B", I64), Fall("AB", I64), <<"!", NoType, I64>>, I64, <<"A">>, <<"AB">>},
        e \in Failing,
        body \in {<<>>, <<[k |-> "errdefer", e |-> CallOf("next", <<N(1)>>)]>>,
                  <<[k |-> "defer", e |-> ApplyOf("id", <<Void>>, <<N(1)>>)]>>}}
    \cup {MainOf(<<P("c", Color), P("e", <<"AB">>)>>, Fall("A", Void),
                 <<IfS(CallOf("fails", <<V("c")>>), "k", "x", <<Do(V("k"))>>, <<Ret(a)>>), Ret(None)>>) :
             a \in {V("x"), V("k"), V("e")}}
    \cup {MainOf(<<P("e", <<"AB">>)>>, Bool, <<Ret(Op("==", V("e"), a))>>) : a \in {Of("A", "bad"), Of("B", "bad"), N(1)}}

(***************************************************************************)
(* Unsafe, and generic functions                                           *)
(***************************************************************************)
UnsafeParams == <<P("n", I64), PRef("p", Point), P("w", Word)>>
RawE == [k |-> "lit", name |-> "Raw", fields |-> <<[name |-> "p", e |-> V("w")]>>]
Dangerous == {CallOf("ptr_read", <<V("w")>>), CallOf("ptr_write", <<V("w"), N(1)>>), CallOf("danger", <<N(1)>>),
              CallOf("outside", <<V("n")>>), Star(V("w")), RawE, MethodOf(V("p"), "poke", <<>>),
              CastTo(<<"ptr", U8>>, V("w")), CallOf("next", <<CallOf("danger", <<N(1)>>)>>), CallOf("next", <<N(1)>>)}
Marks(e) == {e, Unsafe(TRUE, e), Unsafe(FALSE, e), Unsafe(TRUE, Unsafe(TRUE, e))}
UnsafePrograms ==
    UNION {{MainOf(UnsafeParams, Void, <<Do(e)>>) : e \in Marks(d)} : d \in Dangerous}
    \cup {MainOf(UnsafeParams, I64, <<Ret(Op("+", e, CallOf("danger", <<N(1)>>)))>>) :
             e \in Marks(CallOf("danger", <<N(1)>>))}
    \cup {MainOf(UnsafeParams, Void, <<AssignS(e, v)>>) : e \in Marks(Star(V("w"))), v \in {N(1), T(TRUE)}}

GenericParams == <<P("n", I64), P("b", U8), P("o", Opt)>>
GenericCalls ==
    {ApplyOf(f, <<t>>, <<a>>) : f \in {"id", "twice", "wrap"}, t \in {I64, U8, Opt, Color}, a \in {N(300), V("n"), V("b"), V("o")}}
    \cup {ApplyOf("last", <<<<"n", i>>>>, <<ArrayOf(I64, es)>>) :
             i \in {0, 2, 3}, es \in {<<N(1), N(2)>>, <<N(1), N(2), N(3)>>}}
    \cup {CallOf("id", <<N(1)>>), ApplyOf("next", <<I64>>, <<N(1)>>), ApplyOf("last", <<I64>>, <<V("n")>>)}
GenericPrograms ==
    {MainOf(GenericParams, r, <<Do(f), Ret(e)>>) :
        r \in {I64, U8, Opt}, f \in {ApplyOf("id", <<I64>>, <<N(1)>>),
                                     ApplyOf("last", <<<<"n", 3>>>>, <<ArrayOf(I64, <<N(1), N(2), N(3)>>)>>)},
        e \in GenericCalls}

(***************************************************************************)
(* examples/negative: a program by the name of its file, and the same with  *)
(* its one fault mended; a few are of rules the directory has no file for.  *)
(***************************************************************************)
Ex(decls, params, ret, body) == decls \o <<Function("example", params, ret, body)>>
Body(params, ret, body) == Ex(<<>>, params, ret, body)
Decls(decls) == Ex(decls, <<>>, Void, <<>>)
Skip == <<Ret(None)>>
Pair(name, refused, mended) == [name |-> name, refused |-> refused, mended |-> mended]
Mem == P("a", Allocator)
Method0(name, ret) == Function(name, <<>>, ret, <<>>)
Contract(name, pub, methods) == [k |-> "contract", name |-> name, pub |-> pub, methods |-> methods]
Impl(t, contract) == [k |-> "impl", ty |-> t, contract |-> contract]
Vec(es) == [k |-> "vector", ty |-> <<"i32x4">>, es |-> es]
Four == <<N(1), N(2), N(3), N(4)>>
CFn(params, ret) == ExternFn(Function("c_call", params, ret, <<>>))
CVar == [CFn(<<P("f", <<"ptr", <<"const", U8>>>>)>>, <<"i32">>) EXCEPT !.variadic = TRUE]
CStruct == [StructOf("CPoint", <<FieldOf("x", <<"i32">>)>>) EXCEPT !.abi = "c"]
CText == [k |-> "cstring"]
Text == [k |-> "bytes"]
Printf(args) == <<Do(Unsafe(TRUE, CallOf("c_call", <<CText>> \o args)))>>
RawPoint == [StructOf("Buf", <<FieldOf("data", <<"ptr", U8>>)>>) EXCEPT !.unsafe = TRUE, !.doc = TRUE]
Slot == UnionOf("Slot", <<[name |-> "Held", ty |-> <<"Box", I64>>], [name |-> "Empty", ty |-> NoType]>>)
SlotDeinit(arm) ==
    MethodFn("Slot", "deinit", <<P("self", <<"Slot">>), P("allocator", Allocator)>>, Void,
             <<MatchS(V("self"), <<Arm("Held", "boxed", <<Do(arm)>>), Arm("Empty", "", <<>>)>>)>>)
Float == [k |-> "float", fits |-> TRUE]

DeclExamples ==
    {Pair("struct_recursive_field",
          Decls(<<StructOf("Node", <<FieldOf("next", <<"Link">>)>>),
                  UnionOf("Link", <<[name |-> "End", ty |-> NoType], [name |-> "More", ty |-> <<"Node">>]>>)>>),
          Decls(<<StructOf("Node", <<FieldOf("next", <<"Link">>)>>),
                  UnionOf("Link", <<[name |-> "End", ty |-> NoType], [name |-> "More", ty |-> <<"Box", <<"Node">>>>]>>)>>)),
     Pair("union_recursive_payload", Decls(<<UnionOf("Rec", <<[name |-> "Node", ty |-> <<"Rec">>]>>)>>),
          Decls(<<UnionOf("Rec", <<[name |-> "Node", ty |-> I64]>>)>>)),
     Pair("array_recursive_payload", Decls(<<UnionOf("Tree", <<[name |-> "leaf", ty |-> NoType], [name |-> "node", ty |-> <<"[n]", 2, <<"Tree">>>>]>>)>>),
          Decls(<<UnionOf("Tree", <<[name |-> "leaf", ty |-> NoType], [name |-> "node", ty |-> <<"Array", <<"Tree">>>>]>>)>>)),
     Pair("optional_union_payload", Decls(<<UnionOf("Maybe", <<[name |-> "a", ty |-> <<"?", U8>>]>>)>>),
          Decls(<<UnionOf("Maybe", <<[name |-> "a", ty |-> U8]>>)>>)),
     Pair("unsafe_struct_required", Decls(<<[RawPoint EXCEPT !.unsafe = FALSE]>>), Decls(<<RawPoint>>)),
     Pair("unsafe_struct_without_doc", Decls(<<[RawPoint EXCEPT !.doc = FALSE]>>), Decls(<<RawPoint>>)),
     Pair("unsafe_struct_pub_field", Decls(<<[RawPoint EXCEPT !.fields[1].pub = TRUE]>>), Decls(<<RawPoint>>)),
     Pair("type_value_struct_field", Decls(<<StructOf("Held", <<FieldOf("t", TypeType)>>)>>), Decls(<<StructOf("Held", <<FieldOf("t", I64)>>)>>)),
     Pair("error_set_duplicate_name", Decls(<<ErrorOf("Color", <<"x">>, <<>>)>>), Decls(<<ErrorOf("Shade", <<"x">>, <<>>)>>)),
     Pair("error_set_cycle", Decls(<<ErrorOf("D", <<>>, <<"E", "A">>), ErrorOf("E", <<>>, <<"D">>)>>),
          Decls(<<ErrorOf("D", <<>>, <<"E", "A">>), ErrorOf("E", <<>>, <<"B">>)>>)),
     Pair("function_named_after_enum", Decls(<<Function("Color", <<>>, Void, <<>>)>>), Decls(<<Function("color", <<>>, Void, <<>>)>>)),
     Pair("method_name_collision", Decls(<<MethodFn("Point", "far", <<PRef("self", Point)>>, Void, <<>>)>>),
          Decls(<<MethodFn("Point", "near", <<PRef("self", Point)>>, Void, <<>>)>>)),
     Pair("missing_contract_method", Decls(<<Contract("Far", FALSE, <<Method0("farther", I64)>>), Impl("Point", "Far")>>),
          Decls(<<Contract("Far", FALSE, <<Method0("far", I64)>>), Impl("Point", "Far")>>)),
     Pair("impl_unknown_contract", Decls(<<Impl("Point", "Near")>>), Decls(<<Contract("Near", FALSE, <<>>), Impl("Point", "Near")>>)),
     Pair("public_contract_borrowed_private", Decls(<<Contract("Peek", TRUE, <<Method0("peek", <<"&", <<"[]", Point>>>>)>>)>>),
          Decls(<<Contract("Peek", TRUE, <<Method0("peek", <<"&", <<"[]", U8>>>>)>>)>>)),
     Pair("public_fn_private_return", Decls(<<[Method0("make", Point) EXCEPT !.pub = TRUE, !.body = <<Ret(PointE)>>]>>),
          Decls(<<[Method0("make", Point) EXCEPT !.body = <<Ret(PointE)>>]>>)),
     Pair("unsafe_fn_without_doc", Decls(<<[Method0("risky", Void) EXCEPT !.unsafe = TRUE]>>), Decls(<<UnsafeFn(Method0("risky", Void))>>)),
     Pair("extern_c_view_param", Decls(<<CFn(<<P("t", Bytes)>>, I64)>>), Decls(<<CFn(<<P("t", <<"ptr", U8>>)>>, I64)>>)),
     Pair("extern_c_borrow_param", Decls(<<CFn(<<PRef("t", I64)>>, I64)>>), Decls(<<CStruct, CFn(<<PRef("t", <<"CPoint">>)>>, I64)>>)),
     Pair("extern_c_variadic_struct_by_value", Decls(<<CStruct, [CVar EXCEPT !.params = <<P("t", <<"CPoint">>)>>]>>), Decls(<<CStruct, CVar>>)),
     Pair("extern_struct_view_field", Decls(<<[CStruct EXCEPT !.fields = <<FieldOf("t", Bytes)>>]>>), Decls(<<CStruct>>)),
     Pair("c_function_pointer_borrows_plain_struct",
          Body(<<P("f", <<"fn", "c", <<<<"&var", Point>>>>, Void, FALSE>>)>>, Void, Skip),
          Ex(<<CStruct>>, <<P("f", <<"fn", "c", <<<<"&var", <<"CPoint">>>>>>, Void, FALSE>>)>>, Void, Skip)),
     Pair("export_main", Decls(<<[Method0("main", Void) EXCEPT !.export = "c"]>>), Decls(<<[Method0("start", Void) EXCEPT !.export = "c"]>>)),
     Pair("link_library_browser", Decls(<<[Method0("f", Void) EXCEPT !.abi = "browser", !.link = TRUE]>>), Decls(<<[Method0("f", Void) EXCEPT !.abi = "browser"]>>)),
     Pair("optional_static_arg", Body(<<P("v", <<"?", <<"ptr", <<"?", U8>>>>>>)>>, Void, Skip), Body(<<P("v", <<"?", <<"ptr", U8>>>>)>>, Void, Skip)),
     Pair("optional_error_union", Body(<<P("v", <<"?", Fall("A", I64)>>)>>, Void, Skip), Body(<<P("v", Fall("A", Opt))>>, Void, Skip)),
     Pair("optional_borrow_param", Body(<<P("v", <<"?", <<"&", I64>>>>)>>, Void, Skip), Body(<<PRef("v", I64)>>, Void, Skip)),
     Pair("main_returns_value", Decls(<<[Method0("main", I64) EXCEPT !.body = <<Ret(N(1))>>]>>), Decls(<<Method0("main", Void)>>)),
     Pair("generic_error_set_not_a_set",
          Ex(<<GenericFn("all", <<[name |-> "E", ty |-> TypeType]>>, <<P("n", I64)>>, <<"!", <<"E">>, Void>>, <<Ret(None)>>)>>, <<>>, <<"!", NoType, Void>>,
             <<Do(TryOf(ApplyOf("all", <<I64>>, <<N(1)>>))), Ret(None)>>),
          Ex(<<GenericFn("all", <<[name |-> "E", ty |-> TypeType]>>, <<P("n", I64)>>, <<"!", <<"E">>, Void>>, <<Ret(None)>>)>>, <<>>, <<"!", NoType, Void>>,
             <<Do(TryOf(ApplyOf("all", <<<<"A">>>>, <<N(1)>>))), Ret(None)>>)),
     Pair("generic_instantiation_depth",
          Ex(<<GenericFn("grow", <<TypeParam>>, <<P("n", I64)>>, I64, <<Ret(ApplyOf("grow", <<<<"Array", TVar>>>>, <<V("n")>>))>>)>>, <<>>, I64, <<Ret(ApplyOf("grow", <<I64>>, <<N(1)>>))>>),
          Ex(<<GenericFn("grow", <<TypeParam>>, <<P("n", I64)>>, I64, <<Ret(ApplyOf("grow", <<TVar>>, <<V("n")>>))>>)>>, <<>>, I64, <<Ret(ApplyOf("grow", <<I64>>, <<N(1)>>))>>)),
     Pair("owner_union_box_payload_cleanup", Decls(<<Slot, SlotDeinit(N(1))>>),
          Decls(<<Slot, SlotDeinit(MethodOf(V("boxed"), "deinit", <<V("allocator")>>))>>))}

CodeExamples ==
    {Pair("array_literal_count", Body(<<>>, Void, <<Do([ArrayOf(U8, <<N(1)>>) EXCEPT !.ty = <<"[n]", 3, U8>>])>>), Body(<<>>, Void, <<Do(ArrayOf(U8, <<N(1)>>))>>)),
     Pair("array_zero_struct", Body(<<>>, Void, <<Do([k |-> "array", ty |-> <<"[n]", 2, Point>>, es |-> <<>>, fill |-> TRUE])>>),
          Body(<<>>, Void, <<Do([k |-> "array", ty |-> <<"[n]", 2, U8>>, es |-> <<>>, fill |-> TRUE])>>)),
     Pair("array_length_zero", Body(<<P("v", <<"[n]", 0, U8>>)>>, Void, Skip), Body(<<P("v", <<"[n]", 1, U8>>)>>, Void, Skip)),
     Pair("buffer_u8_as_slice", Body(<<P("v", <<"[n]", 2, U8>>)>>, U8, <<LetS("w", FALSE, NoType, MethodOf(V("v"), "as_slice", <<>>)), Ret(Idx(V("w"), N(0)))>>),
          Body(<<P("v", <<"[n]", 2, U8>>)>>, U8, <<LetS("w", FALSE, NoType, MethodOf(V("v"), "as_bytes", <<>>)), Ret(Idx(V("w"), N(0)))>>)),
     Pair("defer_non_cleanup_expr", Body(<<>>, Void, <<[k |-> "defer", e |-> CallOf("print", <<N(1)>>)]>>),
          Body(<<P("v", <<"Box", I64>>), Mem>>, Void, <<[k |-> "defer", e |-> MethodOf(V("v"), "deinit", <<V("a")>>)]>>)),
     Pair("extern_c_variadic_arg_u8", Ex(<<CVar>>, <<P("g", U8)>>, Void, Printf(<<V("g")>>)), Ex(<<CVar>>, <<P("g", I64)>>, Void, Printf(<<V("g")>>))),
     Pair("extern_c_variadic_borrow_plain_struct", Ex(<<CVar>>, <<P("g", Point)>>, Void, Printf(<<Amp(FALSE, V("g"))>>)),
          Ex(<<CStruct, CVar>>, <<P("g", <<"CPoint">>)>>, Void, Printf(<<Amp(FALSE, V("g"))>>))),
     Pair("function_pointer_unsafe_call", Body(<<P("f", <<"fn", "", <<I64>>, I64, TRUE>>)>>, I64, <<Ret(CallOf("f", <<N(1)>>))>>),
          Body(<<P("f", <<"fn", "", <<I64>>, I64, FALSE>>)>>, I64, <<Ret(CallOf("f", <<N(1)>>))>>)),
     Pair("std_array_at_requires_capture", Body(<<PRef("v", Bytes8)>>, Void, <<Do(MethodOf(V("v"), "at", <<N(0)>>))>>),
          Body(<<PRef("v", Bytes8)>>, Void, <<IfS(MethodOf(V("v"), "at", <<N(0)>>), "k", "", <<Do(V("k"))>>, <<>>)>>)),
     Pair("std_array_get_non_copy", Body(<<PRef("v", <<"Array", <<"Box", I64>>>>)>>, Void, <<Do(MethodOf(V("v"), "get", <<N(0)>>))>>),
          Body(<<PRef("v", <<"Array", Point>>)>>, Void, <<Do(MethodOf(V("v"), "get", <<N(0)>>))>>)),
     Pair("std_array_append_bytes_element", Body(<<PVar("v", <<"Array", I64>>), Mem>>, Fall("MemError", Void), <<Do(TryOf(MethodOf(V("v"), "append_bytes", <<V("a"), Text>>))), Ret(None)>>),
          Body(<<PVar("v", Bytes8), Mem>>, Fall("MemError", Void), <<Do(TryOf(MethodOf(V("v"), "append_bytes", <<V("a"), Text>>))), Ret(None)>>)),
     Pair("std_array_wrong_type", Body(<<PVar("v", Bytes8), Mem>>, Void, <<Do(MethodOf(V("v"), "append", <<V("a"), T(TRUE)>>))>>),
          Body(<<PVar("v", Bytes8), Mem>>, Void, <<Do(MethodOf(V("v"), "append", <<V("a"), N(1)>>))>>)),
     Pair("std_map_wrong_key_type", Body(<<P("m", <<"Map", Bool, I64>>)>>, Void, Skip), Body(<<P("m", <<"Map", Bytes, I64>>)>>, Void, Skip)),
     Pair("std_map_insert_through_shared_borrow", Body(<<PRef("m", <<"Map", I64, I64>>), Mem>>, Void, <<Do(MethodOf(V("m"), "insert", <<V("a"), N(1), N(2)>>))>>),
          Body(<<PVar("m", <<"Map", I64, I64>>), Mem>>, Void, <<Do(MethodOf(V("m"), "insert", <<V("a"), N(1), N(2)>>))>>)),
     Pair("std_map_at_mut_immutable", Body(<<PRef("m", <<"Map", I64, I64>>)>>, Void, <<IfS(MethodOf(V("m"), "at_mut", <<N(1)>>), "k", "", <<AssignS(Star(V("k")), N(1))>>, <<>>)>>),
          Body(<<PVar("m", <<"Map", I64, I64>>)>>, Void, <<IfS(MethodOf(V("m"), "at_mut", <<N(1)>>), "k", "", <<AssignS(Star(V("k")), N(1))>>, <<>>)>>)),
     Pair("std_map_get_owner_value", Body(<<PRef("m", <<"Map", I64, <<"Box", I64>>>>)>>, Void, <<Do(MethodOf(V("m"), "get", <<N(1)>>))>>),
          Body(<<PRef("m", <<"Map", I64, U8>>)>>, Void, <<Do(MethodOf(V("m"), "get", <<N(1)>>))>>)),
     Pair("std_string_append_through_shared_borrow", Body(<<PRef("m", <<"String">>), Mem>>, Void, <<Do(MethodOf(V("m"), "append_bytes", <<V("a"), Text>>))>>),
          Body(<<PVar("m", <<"String">>), Mem>>, Void, <<Do(MethodOf(V("m"), "append_bytes", <<V("a"), Text>>))>>)),
     Pair("string_as_mut_bytes_immutable", Body(<<PRef("m", <<"String">>)>>, Void, <<LetS("v", FALSE, NoType, MethodOf(V("m"), "as_mut_bytes", <<>>)), AssignS(Idx(V("v"), N(0)), N(1))>>),
          Body(<<PVar("m", <<"String">>)>>, Void, <<LetS("v", FALSE, NoType, MethodOf(V("m"), "as_mut_bytes", <<>>)), AssignS(Idx(V("v"), N(0)), N(1))>>)),
     Pair("std_mem_box_borrow_mut", Body(<<P("m", <<"Box", Point>>)>>, Void, <<LetS("v", FALSE, NoType, MethodOf(V("m"), "borrow_mut", <<>>)), AssignS(Dot(V("v"), "x"), N(1))>>),
          Body(<<P("m", <<"Box", Point>>)>>, I64, <<LetS("v", FALSE, NoType, MethodOf(V("m"), "borrow", <<>>)), Ret(Dot(V("v"), "x"))>>)),
     Pair("arena_at_mut_immutable", Body(<<PRef("m", <<"Arena", I64>>), P("h", <<"Handle", I64>>)>>, Void, <<IfS(MethodOf(V("m"), "at_mut", <<V("h")>>), "k", "", <<AssignS(Star(V("k")), N(1))>>, <<>>)>>),
          Body(<<PVar("m", <<"Arena", I64>>), P("h", <<"Handle", I64>>)>>, Void, <<IfS(MethodOf(V("m"), "at_mut", <<V("h")>>), "k", "", <<AssignS(Star(V("k")), N(1))>>, <<>>)>>)),
     Pair("arena_wrong_handle", Body(<<PVar("m", <<"Arena", I64>>), P("h", <<"Handle", U8>>)>>, Void, <<IfS(MethodOf(V("m"), "at_mut", <<V("h")>>), "k", "", <<Do(V("k"))>>, <<>>)>>),
          Body(<<PVar("m", <<"Arena", I64>>), P("h", <<"Handle", I64>>)>>, Void, <<IfS(MethodOf(V("m"), "at_mut", <<V("h")>>), "k", "", <<Do(V("k"))>>, <<>>)>>)),
     Pair("arena_non_allocator_arg", Body(<<P("n", I64)>>, Void, <<Do(ApplyOf("arena_new", <<I64>>, <<V("n")>>))>>), Body(<<Mem>>, Void, <<Do(ApplyOf("arena_new", <<I64>>, <<V("a")>>))>>)),
     Pair("mut_view_from_const_ptr", Body(<<P("w", <<"ptr", <<"const", U8>>>>)>>, Void, <<LetS("v", FALSE, NoType, Unsafe(TRUE, CallOf("mut_view_from_ptr", <<V("w"), N(4)>>))), AssignS(Idx(V("v"), N(0)), N(1))>>),
          Body(<<P("w", <<"ptr", U8>>)>>, Void, <<LetS("v", FALSE, NoType, Unsafe(TRUE, CallOf("mut_view_from_ptr", <<V("w"), N(4)>>))), AssignS(Idx(V("v"), N(0)), N(1))>>)),
     Pair("view_from_ptr_inline", Body(<<P("w", Word)>>, Void, <<Do(Unsafe(TRUE, CallOf("view_from_ptr", <<V("w"), N(2)>>)))>>),
          Body(<<P("w", Word)>>, I64, <<LetS("v", FALSE, NoType, Unsafe(TRUE, CallOf("view_from_ptr", <<V("w"), N(2)>>))), Ret(Idx(V("v"), N(0)))>>)),
     Pair("ptr_of_not_view", Body(<<P("n", I64)>>, Void, <<Do(CallOf("ptr_of", <<V("n")>>))>>), Body(<<P("n", Bytes)>>, Void, <<Do(CallOf("ptr_of", <<V("n")>>))>>)),
     Pair("raw_pointer_const_write", Body(<<P("w", <<"ptr", <<"const", U8>>>>)>>, Void, <<Do(Unsafe(TRUE, CallOf("ptr_write", <<V("w"), N(1)>>)))>>),
          Body(<<P("w", <<"ptr", U8>>)>>, Void, <<Do(Unsafe(TRUE, CallOf("ptr_write", <<V("w"), N(1)>>)))>>)),
     Pair("nullable_ptr_read", Body(<<P("w", <<"?", Word>>)>>, I64, <<Ret(Unsafe(TRUE, CallOf("ptr_read", <<V("w")>>)))>>),
          Body(<<P("w", <<"?", Word>>)>>, I64, <<IfS(V("w"), "k", "", <<Ret(Unsafe(TRUE, CallOf("ptr_read", <<V("k")>>)))>>, <<Ret(N(0))>>)>>)),
     Pair("raw_pointer_borrow", Body(<<P("w", <<"ptr", <<"const", I64>>>>)>>, Void, <<LetS("r", FALSE, NoType, Unsafe(TRUE, Amp(TRUE, Star(V("w"))))), Do(V("r"))>>),
          Body(<<P("w", Word)>>, Void, <<LetS("r", FALSE, NoType, Unsafe(TRUE, Amp(TRUE, Star(V("w"))))), Do(V("r"))>>)),
     Pair("int_from_ptr", Body(<<P("w", Word)>>, Void, <<Do(Unsafe(TRUE, ApplyOf("int_from_ptr", <<Bool>>, <<V("w")>>)))>>),
          Body(<<P("w", Word)>>, Void, <<Do(Unsafe(TRUE, ApplyOf("int_from_ptr", <<<<"usize">>>>, <<V("w")>>)))>>)),
     Pair("unsafe_struct_cross_file", Ex(<<[RawPoint EXCEPT !.mod = "other"]>>, <<P("w", <<"ptr", U8>>)>>, Void,
                                         <<Do(Unsafe(TRUE, [k |-> "lit", name |-> "Buf", fields |-> <<[name |-> "data", e |-> V("w")]>>]))>>),
          Ex(<<RawPoint>>, <<P("w", <<"ptr", U8>>)>>, Void, <<Do(Unsafe(TRUE, [k |-> "lit", name |-> "Buf", fields |-> <<[name |-> "data", e |-> V("w")]>>]))>>)),
     Pair("unsafe_struct_field_write", Ex(<<RawPoint>>, <<PVar("s", <<"Buf">>), P("w", <<"ptr", U8>>)>>, Void, <<AssignS(Dot(V("s"), "data"), V("w"))>>),
          Ex(<<RawPoint>>, <<PVar("s", <<"Buf">>), P("w", <<"ptr", U8>>)>>, Void, <<AssignS(Unsafe(TRUE, Dot(V("s"), "data")), V("w"))>>)),
     Pair("private_field", Ex(<<[StructOf("Far", <<FieldOf("x", I64)>>) EXCEPT !.mod = "other"]>>, <<P("s", <<"Far">>)>>, I64, <<Ret(Dot(V("s"), "x"))>>),
          Ex(<<[StructOf("Far", <<[FieldOf("x", I64) EXCEPT !.pub = TRUE]>>) EXCEPT !.mod = "other"]>>, <<P("s", <<"Far">>)>>, I64, <<Ret(Dot(V("s"), "x"))>>)),
     Pair("vector_int_division", Body(<<>>, Void, <<Do(Op("/", Vec(Four), Vec(Four)))>>), Body(<<>>, Void, <<Do(Op("*", Vec(Four), Vec(Four)))>>)),
     Pair("vector_lane_out_of_range", Body(<<>>, <<"i32">>, <<LetS("v", FALSE, NoType, Vec(Four)), Ret(Idx(V("v"), N(4)))>>),
          Body(<<>>, <<"i32">>, <<LetS("v", FALSE, NoType, Vec(Four)), Ret(Idx(V("v"), N(3)))>>)),
     Pair("vector_lane_count", Body(<<>>, Void, <<Do(Vec(<<N(1), N(2)>>))>>), Body(<<>>, Void, <<Do(Vec(Four))>>)),
     Pair("float_modulo", Body(<<>>, Void, <<Do(Op("%", Float, Float))>>), Body(<<>>, Void, <<Do(Op("/", Float, Float))>>)),
     Pair("float_integer_mismatch", Body(<<P("n", I64)>>, Void, <<Do(Op("+", Float, V("n")))>>), Body(<<P("n", <<"f32">>)>>, Void, <<Do(Op("+", Float, V("n")))>>)),
     Pair("f32_literal_range", Body(<<P("n", <<"f32">>)>>, Void, <<Do(Op("+", V("n"), Neg([Float EXCEPT !.fits = FALSE])))>>),
          Body(<<P("n", <<"f32">>)>>, Void, <<Do(Op("+", V("n"), Neg(Float)))>>)),
     Pair("bitwise_bool_operands", Body(<<>>, Void, <<Do(Op("|", T(TRUE), T(TRUE)))>>), Body(<<>>, Void, <<Do(Op("or", T(TRUE), T(TRUE)))>>)),
     Pair("shift_negative_literal", Body(<<P("n", I64)>>, Void, <<Do(Op("<<", V("n"), Neg(N(1))))>>), Body(<<P("n", I64)>>, Void, <<Do(Op("<<", V("n"), N(1)))>>)),
     Pair("equality_struct", Body(<<P("p", Point)>>, Void, <<Do(Op("==", V("p"), V("p")))>>), Body(<<P("p", Point)>>, Void, <<Do(Op("==", Dot(V("p"), "x"), N(1)))>>)),
     Pair("type_value_local", Body(<<>>, Void, <<LetS("t", FALSE, NoType, [k |-> "type", ty |-> I64])>>), Body(<<>>, Void, <<LetS("_", FALSE, NoType, N(1))>>)),
     Pair("slice_syntax_wrong_target", Body(<<P("n", I64)>>, Void, <<Do([k |-> "slice", e |-> V("n"), lo |-> None, hi |-> N(1)])>>),
          Body(<<P("n", Bytes)>>, Void, <<Do([k |-> "slice", e |-> V("n"), lo |-> None, hi |-> N(1)])>>)),
     Pair("unread_local", Body(<<>>, Void, <<LetS("v", FALSE, NoType, N(1))>>), Body(<<>>, Void, <<LetS("v", FALSE, NoType, N(1)), Do(V("v"))>>)),
     Pair("if_capture_expression_types_differ", Body(<<P("o", Opt)>>, Void, <<Do(IfS(V("o"), "k", "", <<Value(V("k"))>>, <<Value(T(TRUE))>>))>>),
          Body(<<P("o", Opt)>>, Void, <<Do(IfS(V("o"), "k", "", <<Value(V("k"))>>, <<Value(N(1))>>))>>)),
     Pair("unsafe_marker_covers_nothing", Body(<<>>, Void, <<Do(Unsafe(TRUE, CallOf("next", <<N(1)>>)))>>), Body(<<>>, Void, <<Do(Unsafe(TRUE, CallOf("danger", <<N(1)>>)))>>)),
     Pair("test_returns_early", <<[k |-> "test", mod |-> "m", body |-> <<Ret(N(1))>>]>>, <<[k |-> "test", mod |-> "m", body |-> <<Ret(None)>>]>>)}

Examples == DeclExamples \cup CodeExamples
MCRefused == {x.refused : x \in Examples}
MCMended == {x.mended : x \in Examples}

MCPrograms == ValuePrograms \cup EdgePrograms \cup WritePrograms \cup BranchPrograms \cup MatchPrograms \cup ErrorPrograms
              \cup UnsafePrograms \cup GenericPrograms
=============================================================================
