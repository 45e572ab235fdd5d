-------------------------------- MODULE MCIR --------------------------------
(* Programs and inputs for IRPipeline. *)
EXTENDS IRPipeline

(* Constructors of source nodes. *)
Lit(n) == [Node("num", "", <<>>) EXCEPT !.n = n]
Member(n) == [Node("member", "", <<>>) EXCEPT !.n = n]
Var(x) == Node("var", x, <<>>)
Bin(l, op, r) == Node("binary", "binary." \o op, <<l, r>>)
Both(l, r) == Node("logical", "and", <<l, r>>)
Either(l, r) == Node("logical", "or", <<l, r>>)
Call(f, args) == Node("call", f, args)
Prim(op, type, args) == [Node("primitive", op, args) EXCEPT !.cap = type]
Out(e) == Prim("emit", "void", <<e>>)
Field(x, f) == Node("field", f, <<Var(x)>>)
Index(v, i) == Node("index", v, <<Var(v), i>>)
Deref(x) == Node("deref", "", <<Var(x)>>)
Try(e) == Node("try", "", <<e>>)
Orelse(e, d) == Node("orelse", "", <<e, d>>)
Catch(e, d) == Node("catch", "", <<e, d>>)
OrelseDo(e, exit) == [Node("orelse.guard", "", <<e>>) EXCEPT !.body = <<exit>>]
CatchDo(e, exit) == [Node("catch.guard", "", <<e>>) EXCEPT !.body = <<exit>>]

Let(x, e) == Node("let", x, <<e>>)
Set(x, e) == Node("assign", x, <<e>>)
SetField(x, f, e) == [Node("assign.field", x, <<e>>) EXCEPT !.cap = f]
SetDeref(x, e) == Node("assign.deref", x, <<e>>)
SetIndex(v, i, e) == Node("assign.index", v, <<i, e>>)
Give(e) == Node("return", "", <<e>>)
GiveVoid == Node("return", "", <<>>)
Leave1(label) == Node("break", label, <<>>)
Again(label) == Node("continue", label, <<>>)
If(c, then, else) == [Node("if", "", <<c>>) EXCEPT !.body = then, !.alt = else]
IfSome(c, x, then, else) == [If(c, then, else) EXCEPT !.cap = x]
IfOk(c, x, then, e, else) == [IfSome(c, x, then, else) EXCEPT !.err = e]
While(c, body) == [Node("while", "", <<c>>) EXCEPT !.body = body]
WhileSome(c, x, body) == [While(c, body) EXCEPT !.cap = x]
For(x, a, b, body) == [Node("for", x, <<a, b>>) EXCEPT !.body = body]
Labelled(label, loop) == [loop EXCEPT !.err = label]

Fn(name, params, ret, body) == [name |-> name, params |-> params, ret |-> ret, body |-> body]

-----------------------------------------------------------------------------
(* The standard library's Array, one primitive a method, and helpers. *)

Self(type) == Value("self", type)
I(x) == Value(x, "i64")

Std == <<
    Fn("len", <<Self("&Array")>>, "i64", <<Give(Prim("array.len", "i64", <<Var("self")>>))>>),
    Fn("get", <<Self("&Array"), I("index")>>, "?i64",
       <<Give(Prim("array.get", "?i64", <<Var("self"), Var("index")>>))>>),
    Fn("must", <<Self("&Array"), I("index")>>, "i64",
       <<Give(Prim("array.get_or_panic", "i64", <<Var("self"), Var("index")>>))>>),
    Fn("at", <<Self("&Array"), I("index")>>, "?&i64",
       <<Give(Prim("array.at", "?&i64", <<Var("self"), Var("index")>>))>>),
    Fn("at_mut", <<Self("&var Array"), I("index")>>, "?&var i64",
       <<Give(Prim("array.at_mut", "?&var i64", <<Var("self"), Var("index")>>))>>),
    Fn("set", <<Self("&var Array"), I("index"), I("value")>>, "E!void",
       <<Give(Prim("array.set", "E!void", <<Var("self"), Var("index"), Var("value")>>))>>),
    Fn("append", <<Self("&var Array"), I("value")>>, "E!void",
       <<Give(Prim("array.append", "E!void", <<Var("self"), Var("value")>>))>>)>>

len == Call("len", <<Var("a")>>)
must(i) == Call("must", <<Var("a"), i>>)
get(i) == Call("get", <<Var("a"), i>>)
i == Var("i")
n == Var("n")
t == Var("t")
Adds(e) == Set("t", Bin(t, "+", e))

Helpers == <<
    \* one block, small enough to copy
    Fn("twice", <<I("k")>>, "i64", <<Give(Bin(Var("k"), "+", Var("k")))>>),
    \* two returns: copied as blocks, with a phi where they meet
    Fn("larger", <<I("p"), I("q")>>, "i64",
       <<If(Bin(Var("p"), "<", Var("q")), <<Give(Var("q"))>>, <<>>), Give(Var("p"))>>),
    \* a constant table
    Fn("table", <<I("k")>>, "i64",
       <<If(Bin(Var("k"), "==", Lit(0)), <<Give(Lit(3))>>, <<>>),
         If(Bin(Var("k"), "==", Lit(1)), <<Give(Lit(-2))>>, <<>>),
         If(Bin(Var("k"), "==", Lit(2)), <<Give(Lit(5))>>, <<>>), Give(Lit(7))>>),
    \* self recursion in tail position, plain and accumulated
    Fn("down", <<I("k"), I("r")>>, "i64",
       <<If(Bin(Var("k"), "<=", Lit(0)), <<Give(Var("r"))>>, <<>>),
         Give(Call("down", <<Bin(Var("k"), "-", Lit(1)), Bin(Var("r"), "^", Var("k"))>>))>>),
    Fn("sum", <<I("k")>>, "i64",
       <<If(Bin(Var("k"), "<=", Lit(0)), <<Give(Lit(1))>>, <<>>),
         Give(Bin(Var("k"), "+", Call("sum", <<Bin(Var("k"), "-", Lit(1))>>)))>>),
    Fn("product", <<I("k")>>, "i64",
       <<If(Bin(Var("k"), "<=", Lit(1)), <<Give(Lit(1))>>, <<>>),
         Give(Bin(Call("product", <<Bin(Var("k"), "-", Lit(1))>>), "*", Var("k")))>>),
    \* writes through what it is lent
    Fn("bump", <<Value("r", "&var i64")>>, "void", <<SetDeref("r", Bin(Deref("r"), "+", Lit(1)))>>),
    Fn("swap", <<Value("p", "&var S")>>, "void",
       <<Let("x", Field("p", "x")), SetField("p", "x", Field("p", "y")),
         SetField("p", "y", Var("x"))>>),
    \* fails, and passes a failure on
    Fn("check", <<I("k")>>, "E!i64",
       <<If(Bin(Var("k"), ">", Lit(2)), <<Give(Member(3))>>, <<>>), Give(Var("k"))>>),
    Fn("checked", <<I("k")>>, "E!i64", <<Give(Bin(Try(Call("check", <<Var("k")>>)), "+", Lit(1)))>>),
    Fn("store", <<Value("b", "&var Array"), I("k")>>, "E!void",
       <<Try(Call("set", <<Var("b"), Var("k"), Lit(1)>>)), GiveVoid>>)>>

Main(ret, body) ==
    Std \o Helpers \o
    <<Fn("main", <<Value("a", "&var Array"), Value("s", "&var S"), Value("v", "[]i64"), I("n")>>,
         ret, body)>>

-----------------------------------------------------------------------------
(* Loops: every head with the bodies. *)

Counts(from, cond, step, body) ==
    <<Let("i", from), While(cond, Append(body, Set("i", Bin(i, "+", Lit(step)))))>>

Heads(h, body) ==
    CASE h = "to len"    -> <<For("i", Lit(0), len, body)>>
      [] h = "to n"      -> <<For("i", Lit(0), n, body)>>
      [] h = "from n"    -> <<For("i", n, len, body)>>
      [] h = "one to n"  -> <<For("i", Lit(1), n, body)>>
      [] h = "while n"   -> Counts(Lit(0), Bin(i, "<", n), 1, body)
      [] h = "while len" -> Counts(Lit(0), Bin(i, "<", len), 1, body)
      [] h = "at most n" -> Counts(Lit(0), Bin(i, "<=", n), 1, body)
      [] h = "by two"    -> Counts(Lit(0), Bin(i, "<", len), 2, body)
      [] h = "down"      -> Counts(n, Bin(i, ">=", Lit(0)), -1, body)
      [] h = "not n"     -> Counts(Lit(0), Bin(n, "!=", i), 1, body)
      [] h = "to three"  -> <<For("i", Lit(0), Lit(3), body)>>
      [] h = "and"       -> Counts(Lit(0), Both(Bin(i, "<", n), Bin(t, "<", Lit(4))), 1, body)

Bodies == <<
    <<Adds(must(i))>>,
    <<Adds(must(Bin(i, "+", Lit(1))))>>,
    <<Adds(must(Bin(i, "+", n)))>>,
    <<Adds(must(Bin(i, "-", Lit(1))))>>,
    <<Adds(must(i)), Adds(must(i))>>,
    <<If(Bin(t, ">", Lit(3)), <<Leave1("")>>, <<>>), Adds(must(i)), Out(t)>>,
    <<CatchDo(Call("set", <<Var("a"), i, t>>), Leave1("")), Adds(must(Lit(0)))>>,
    <<CatchDo(Call("append", <<Var("a"), i>>), Leave1("")), Adds(must(i))>>,
    <<SetField("s", "x", Bin(Field("s", "x"), "+", must(i))), Adds(Field("s", "x"))>>,
    <<Adds(Index("v", i))>>,
    <<SetIndex("v", i, Bin(i, "+", t)), Adds(Index("v", i))>>,
    <<IfSome(Call("at", <<Var("a"), i>>), "e", <<Adds(Deref("e"))>>, <<Leave1("")>>)>>,
    <<IfSome(Call("at_mut", <<Var("a"), i>>), "e", <<SetDeref("e", Bin(Deref("e"), "^", i))>>, <<>>),
      Adds(Orelse(get(i), Lit(1)))>>,
    <<Let("x", OrelseDo(get(Bin(i, "+", Lit(1))), Leave1(""))), Adds(Var("x"))>>,
    <<Adds(Call("larger", <<t, must(i)>>)), Call("bump", <<t>>)>>,
    <<For("j", Lit(0), i, <<Adds(must(Var("j")))>>)>>,
    <<If(Both(Bin(t, "<", Lit(3)), Bin(must(i), ">", t)), <<Adds(Lit(1))>>, <<Set("t", i)>>)>>,
    <<SetField("s", "y", t), Call("swap", <<Var("s")>>), Adds(Field("s", "x"))>>,
    <<Adds(Call("table", <<i>>)), Adds(Call("table", <<Lit(1)>>))>>,
    <<Let("m", If(Bin(must(i), ">", t), <<Let("d", Call("twice", <<t>>)), Bin(Var("d"), "+", i)>>, <<i>>)),
      Adds(Var("m"))>>,
    <<If(Bin(i, "<", len), <<Adds(must(i))>>, <<>>)>> >>

Looping(ret, head, body) ==
    Main(ret, <<Let("t", Lit(0))>> \o Heads(head, body) \o <<Give(t)>>)

Pairs(heads, bodies) ==
    FlattenSeq([h \in DOMAIN heads |-> [b \in DOMAIN bodies |-> <<heads[h], bodies[b]>>]])

AllHeads == <<"to len", "to n", "from n", "one to n", "while n", "while len", "at most n",
              "by two", "down", "not n", "to three", "and">>

\* In a `for` a turn may be cut short.
ForHeads == <<"to len", "to n", "from n", "one to n", "to three">>
ForBodies == <<
    <<If(Bin(must(i), ">", Lit(2)), <<Again("")>>, <<>>), Adds(Bin(must(i), "*", i))>>,
    <<Let("x", OrelseDo(get(i), Again(""))), If(Bin(Var("x"), "<", t), <<Leave1("")>>, <<Adds(Var("x"))>>)>> >>

\* Two bodies in one loop: each with the one seven places on.
Doubled == [b \in DOMAIN Bodies |-> Bodies[b] \o Bodies[((b + 6) % Len(Bodies)) + 1]]
DoubledHeads == <<"to len", "to n", "from n", "while n", "while len", "to three">>

Looped ==
    LET pairs == Pairs(AllHeads, Bodies) \o Pairs(ForHeads, ForBodies)
                 \o Pairs(DoubledHeads, Doubled)
    IN  [p \in DOMAIN pairs |-> Looping("i64", pairs[p][1], pairs[p][2])]

-----------------------------------------------------------------------------
(* Loops that hand values from one variable to another, turn by turn. *)

x == Var("x")
y == Var("y")
Opt(e) == Orelse(e, Lit(5))
U64(e) == Prim("cast", "u64", <<e>>)
I64(e) == Prim("cast", "i64", <<e>>)

Handing == <<
    \* each from the other, one ahead of the other, and one turn late
    <<Let("z", x), Set("x", y), Set("y", Var("z")), Adds(Bin(x, "^", i))>>,
    <<Let("z", Bin(x, "+", y)), Set("x", y), Set("y", Var("z"))>>,
    <<Let("z", Bin(x, "+", y)), Set("y", x), Set("x", Var("z"))>>,
    <<Set("y", x), Set("x", t), Adds(must(i))>>,
    <<Set("x", t), Adds(Bin(i, "+", Lit(1))), If(Bin(t, ">", Lit(5)), <<Give(x)>>, <<>>)>>,
    \* three in a circle, and a branch that trades or does not
    <<Let("z", x), Set("x", y), Set("y", t), Set("t", Var("z"))>>,
    <<If(Bin(must(i), ">", x), <<Let("z", x), Set("x", y), Set("y", Var("z"))>>, <<Set("x", i)>>)>>,
    \* through a cast, which is read as what it casts
    <<Let("z", U64(x)), Set("x", Bin(x, "+", y)), Set("y", I64(Bin(Var("z"), "+", U64(i))))>>,
    <<Let("z", I64(U64(x))), Set("x", Bin(x, "-", Lit(3))), Set("y", Var("z"))>> >>

HandingHeads == <<"to len", "to n", "while n", "to three", "down", "and">>

Handed ==
    LET pairs == Pairs(HandingHeads, Handing)
    IN  [p \in DOMAIN pairs |->
            Main("i64", <<Let("t", Lit(0)), Let("x", Lit(1)), Let("y", n)>>
                        \o Heads(pairs[p][1], pairs[p][2])
                        \o <<Out(t), Out(x), Give(y)>>)]

\* The same with optionals, which live in the frame.
HandingOptions == <<
    <<Set("y", x), Set("x", get(i))>>,
    <<Let("z", x), Set("x", y), Set("y", Var("z")), Adds(Opt(Var("z")))>>,
    <<Set("y", x), Set("x", get(i)), Adds(Opt(y)), If(Bin(t, ">", Lit(4)), <<Give(Opt(x))>>, <<>>)>> >>

HandedOptions ==
    LET pairs == Pairs(HandingHeads, HandingOptions)
    IN  [p \in DOMAIN pairs |->
            Main("i64", <<Let("t", Lit(0)), Let("x", get(Lit(0))), Let("y", get(Lit(1)))>>
                        \o Heads(pairs[p][1], pairs[p][2])
                        \o <<Out(Opt(x)), Give(Bin(t, "+", Opt(y)))>>)]

-----------------------------------------------------------------------------
(* Programs with a shape of their own. *)

Single == <<
    Main("i64", <<Give(Bin(Call("down", <<n, Lit(0)>>), "+", Call("sum", <<n>>)))>>),
    Main("i64", <<Give(Call("product", <<Bin(n, "&", Lit(3))>>))>>),
    \* a break out of the outer loop, and a continue of it
    Main("i64", <<Let("t", Lit(0)),
        Labelled("outer", For("i", Lit(0), len,
            <<For("j", Lit(0), len,
                <<If(Bin(Var("j"), ">", i), <<Again("outer")>>, <<>>),
                  If(Bin(must(Var("j")), "<", Lit(0)), <<Leave1("outer")>>, <<>>),
                  Adds(must(Var("j")))>>)>>)),
        Give(t)>>),
    \* a loop whose turns come from an optional
    Main("i64", <<Let("t", Lit(0)), Let("i", Lit(0)),
        WhileSome(get(i), "x", <<Adds(Var("x")), Set("i", Bin(i, "+", Lit(1)))>>), Give(t)>>),
    \* two loops over one array, and one inside another
    Main("i64", <<Let("t", Lit(0)), For("i", Lit(0), len, <<Adds(must(i))>>),
        CatchDo(Call("append", <<Var("a"), t>>), Give(t)),
        For("i", Lit(0), len, <<Adds(must(i))>>), Give(t)>>),
    Main("i64", <<Let("t", Lit(0)),
        For("i", Lit(0), n, <<Adds(must(i)), For("j", Lit(0), n, <<Adds(must(Var("j")))>>)>>),
        Give(t)>>),
    \* checks that stand before an access, on every path to it or on some
    Main("i64", <<If(Both(Bin(n, ">=", Lit(0)), Bin(n, "<", len)), <<Give(must(n))>>, <<>>), Give(Lit(0))>>),
    Main("i64", <<If(Bin(n, "<", len), <<Give(must(n))>>, <<>>), Give(Lit(0))>>),
    Main("i64", <<If(Bin(n, "<", Lit(0)), <<Give(Lit(1))>>, <<>>),
        If(Bin(len, "<=", n), <<Give(Lit(2))>>, <<>>),
        CatchDo(Call("append", <<Var("a"), n>>), Give(Lit(3))), Give(must(n))>>),
    Main("i64", <<Let("t", must(n)), SetField("s", "x", t), Adds(must(n)),
        If(Bin(t, ">", Lit(3)), <<Adds(must(Bin(n, "-", Lit(1))))>>, <<>>),
        Give(Bin(t, "+", Field("s", "x")))>>),
    Main("i64", <<If(Either(Bin(n, "<", Lit(0)), Bin(n, ">=", len)), <<Give(Lit(1))>>, <<>>),
        If(Bin(n, "==", Lit(2)), <<CatchDo(Call("set", <<Var("a"), Lit(0), n>>), Give(Lit(2)))>>, <<>>),
        Give(Bin(must(n), "+", Orelse(get(n), Lit(1))))>>),
    \* failures: passed on, opened, replaced
    Main("E!i64", <<Let("t", Try(Call("checked", <<n>>))), Try(Call("store", <<Var("a"), t>>)),
        Give(must(t))>>),
    Main("i64", <<Let("t", Lit(0)),
        IfOk(Call("checked", <<n>>), "x", <<Set("t", Var("x"))>>, "e", <<Out(n)>>),
        Give(Bin(t, "+", Catch(Call("check", <<t>>), Lit(4))))>>),
    Main("E!void", <<Call("bump", <<n>>), Try(Call("store", <<Var("a"), n>>)), GiveVoid>>),
    \* short circuits, a shift, a value of an if with an exit in it
    Main("i64", <<If(Either(Bin(n, "<", Lit(1)), Both(Bin(len, ">", n), Bin(must(n), ">", Lit(0)))),
                     <<Give(Bin(Lit(1), "<<", n))>>, <<Out(len)>>),
        Let("m", If(Bin(n, ">", Lit(2)), 
                         <<If(Bin(len, "<", n), <<Give(Lit(5))>>, <<>>), Lit(6)>>,
                         <<Bin(n, "*", Lit(3))>>)),
        Give(Bin(Lit(3), "<<", Var("m")))>>),
    \* more values in the frame than one byte counts
    Main("i64", <<Let("t", Lit(0)),
        Adds(Catch(Call("check", <<n>>), Lit(4))), Adds(Catch(Call("check", <<t>>), Lit(3))),
        Adds(Catch(Call("check", <<Bin(n, "+", Lit(1))>>), Lit(2))),
        Adds(Catch(Call("checked", <<n>>), Lit(1))), Adds(Catch(Call("checked", <<t>>), n)),
        Give(t)>>),
    \* what a loop ends with is chosen behind it
    Main("i64", <<Let("t", Lit(0)), Let("x", Lit(1)),
        For("i", Lit(0), Lit(3), <<Set("x", t), Adds(Bin(i, "+", Lit(1)))>>),
        Let("m", If(Bin(n, ">", Lit(1)), <<x>>, <<n>>)), Give(Var("m"))>>)>>

MCLowered(p) == LET made == Lower(p) IN made
MCPassed(pass, mod) == LET made == Pass(pass, mod) IN made
MCMeans(p, input) == LET end == SourceMeaning(p, input) IN end
MCDoes(mod, input) == LET end == RunModule(mod, "main", input) IN end

MCEmitted(mod) == LET made == EmitModule(mod) IN made
MCExecutes(bin, input) == LET end == RunBinary(bin, input) IN end

Native == INSTANCE LLVMEmit
MCEmittedNative(mod) == LET made == Native!EmitModule(mod) IN made
MCExecutesNative(text, input) == LET end == Native!RunText(text, input) IN end

MCPrograms == LET all == Looped \o Handed \o HandedOptions \o Single IN all

In(arr, view, k) ==
    [args |-> <<Stride, 2 * Stride, 3 * Stride, k>>, mem |-> <<arr, <<1, 2>>, view>>]

MCInputs == LET all == <<In(<<>>, <<>>, -1), In(<<>>, <<5>>, 1), In(<<1, 2>>, <<4, 6>>, 2),
                         In(<<3, 1, -2>>, <<1, 2, 3>>, 0), In(<<2, 5, 3>>, <<7, 1>>, 3)>> IN all
=============================================================================
