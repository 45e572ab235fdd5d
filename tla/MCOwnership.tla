---------------------------- MODULE MCOwnership ----------------------------
(***************************************************************************)
(* Families of small functions for the ownership checker, and the ones it   *)
(* accepts, to be run.  The type checker has seen them: names are bound     *)
(* once and types agree.                                                    *)
(***************************************************************************)
EXTENDS OwnershipRun

(***************************************************************************)
(* Declarations: an owner R, a pair P of them without a deinit of its own,  *)
(* a D with one, a union U of owners and an arena.                          *)
(***************************************************************************)
R == <<"R">>
Void == <<"void">>

MCStructs ==
    [P |-> <<[name |-> "a", ty |-> R], [name |-> "b", ty |-> R]>>,
     D |-> <<[name |-> "r", ty |-> R], [name |-> "n", ty |-> <<"int">>]>>]
MCUnions == [U |-> [A |-> R, B |-> R, N |-> <<>>]]
MCDeclared == {"R", "D", "Arena"}

Param(ty, mode) == [ty |-> ty, mode |-> mode]
Sig(params, ret) == [params |-> params, ret |-> ret]

MCFunctions ==
    [make |-> Sig(<<>>, R),
     maybe |-> Sig(<<>>, <<"?", "R">>),
     may_fail |-> Sig(<<>>, <<"!", "R">>),
     step |-> Sig(<<>>, <<"!", "void">>),
     flag |-> Sig(<<>>, <<"bool">>),
     see |-> Sig(<<Param(R, "ref")>>, Void),
     put |-> Sig(<<Param(R, "mut")>>, Void),
     both |-> Sig(<<Param(R, "mut"), Param(R, "ref")>>, Void),
     eat |-> Sig(<<Param(R, "val")>>, Void),
     try_eat |-> Sig(<<Param(R, "val")>>, <<"!", "void">>),
     wrap |-> Sig(<<Param(R, "val")>>, <<"!", "R">>),
     eat_two |-> Sig(<<Param(R, "val"), Param(R, "val")>>, Void),
     pick |-> Sig(<<Param(R, "ref"), Param(R, "ref")>>, <<"&", "R">>),
     mine |-> Sig(<<Param(R, "mut")>>, <<"&var", "R">>),
     pair |-> Sig(<<>>, <<"P">>),
     see_pair |-> Sig(<<Param(<<"P">>, "ref")>>, Void),
     eat_pair |-> Sig(<<Param(<<"P">>, "val")>>, Void),
     make_union |-> Sig(<<>>, <<"U">>),
     eat_union |-> Sig(<<Param(<<"U">>, "val")>>, Void),
     look |-> Sig(<<Param(<<"int">>, "ref")>>, Void),
     new_arena |-> Sig(<<>>, <<"Arena">>)]

Method(self, params, ret) == [self |-> self, params |-> params, ret |-> ret]

MCMethods ==
    (<<"R", "deinit">> :> Method("val", <<>>, Void))
    @@ (<<"R", "peek">> :> Method("ref", <<>>, Void))
    @@ (<<"R", "poke">> :> Method("mut", <<>>, Void))
    @@ (<<"D", "deinit">> :> Method("val", <<>>, Void))
    @@ (<<"Arena", "add">> :> Method("mut", <<Param(<<"int">>, "val")>>, <<"!", "Handle">>))
    @@ (<<"Arena", "at">> :> Method("ref", <<Param(<<"Handle">>, "val")>>, <<"&", "int">>))
    @@ (<<"Arena", "deinit">> :> Method("val", <<>>, Void))

(***************************************************************************)
(* Syntax                                                                  *)
(***************************************************************************)
X(x) == Whole(x)
F(x, f) == [k |-> "place", x |-> x, p |-> <<f>>]
Mv(place) == [k |-> "move", of |-> place]
Ref(place) == [k |-> "borrow", mut |-> FALSE, of |-> place]
Var(place) == [k |-> "borrow", mut |-> TRUE, of |-> place]
One == [k |-> "int"]
Err == [k |-> "err"]
C(fn, args) == [k |-> "call", fn |-> fn, args |-> args, n |-> 1]
M(place, ty, name, args) == [k |-> "method", on |-> place, ty |-> ty, name |-> name, args |-> args, n |-> 2]
Try(e) == [k |-> "try", of |-> e, n |-> 3]
Guard(e, exit) == [k |-> "guard", of |-> e, exit |-> exit]
OrElse(e, other) == [k |-> "default", of |-> e, other |-> other]
Lit(args) == [k |-> "lit", ty |-> <<"P">>, args |-> args, n |-> 4]
Free(place) == M(place, "R", "deinit", <<>>)

SLet(x, e) == [k |-> "let", x |-> x, e |-> e]
SSet(place, e) == [k |-> "assign", to |-> place, e |-> e]
Do(e) == [k |-> "expr", e |-> e]
SReturn(e) == [k |-> "return", e |-> e]
SDefer(e) == [k |-> "defer", e |-> e]
SErrDefer(e) == [k |-> "errdefer", e |-> e]
SIf(e, x, then, else) == [k |-> "if", e |-> e, cap |-> x, then |-> then, else |-> else,
                          hasElse |-> else # <<>>]
SWhile(e, x, body) == [k |-> "while", e |-> e, cap |-> x, body |-> body]
SBreak == [k |-> "break"]
SContinue == [k |-> "continue"]
Arm(tag, bind, body) == [tag |-> tag, bind |-> bind, body |-> body]
SMatch(e, arms) == [k |-> "match", e |-> e, ty |-> "U", arms |-> arms]

(***************************************************************************)
(* Families.  The type checker refuses a second binding of a name.          *)
(***************************************************************************)
Seqs(S, n) ==
    {q \in UNION {[1 .. k -> S] : k \in 0 .. n} :
        \A i, j \in DOMAIN q : q[i].k = "let" /\ q[j].k = "let" /\ q[i].x = q[j].x => i = j}

Fun(params, ret, self) == [params |-> params, ret |-> ret, self |-> self]
Takes(name, ty, mode) == [name |-> name, ty |-> ty, mode |-> mode]
Plain == Fun(<<>>, Void, <<>>)
Failing == Fun(<<>>, <<"!", "R">>, <<>>)

Make(x) == SLet(x, C("make", <<>>))
Flag == C("flag", <<>>)
See(x) == Do(C("see", <<Ref(X(x))>>))

\* Two owners, borrows of one or both, and what may happen between.
Borrowing ==
    LET pool == {SLet("r", Ref(X("a"))), SLet("r", Var(X("a"))), SLet("q", Ref(X("r"))),
                 SLet("q", C("mine", <<Var(X("a"))>>)), SLet("q", C("pick", <<Ref(X("a")), Ref(X("b"))>>)),
                 Do(C("see", <<X("r")>>)), Do(C("put", <<X("r")>>)), Do(C("see", <<X("q")>>)),
                 Do(C("put", <<Var(X("a"))>>)), Do(C("both", <<Var(X("a")), Ref(X("b"))>>)),
                 Do(C("both", <<Var(X("a")), Ref(X("a"))>>)), Do(M(X("a"), "R", "poke", <<>>)),
                 Do(C("eat", <<Mv(X("a"))>>)), SSet(X("a"), C("make", <<>>))}
        ends == {<<>>, <<Do(C("see", <<X("q")>>)), Do(Free(X("a")))>>, <<Do(Free(X("a")))>>}
    IN  {[fn |-> Plain, body |-> <<Make("a"), Make("b"), SDefer(Free(X("b")))>> \o b \o e] :
            b \in Seqs(pool, 3), e \in ends}

\* A pair taken apart and put together, field by field.
Fields ==
    LET pool == {Do(C("eat", <<Mv(F("t", "a"))>>)), Do(Free(F("t", "b"))),
                 SLet("r", Ref(F("t", "a"))), SLet("r", Var(F("t", "b"))),
                 Do(C("see", <<X("r")>>)), Do(C("put", <<X("r")>>)), SSet(F("t", "a"), C("make", <<>>)),
                 SSet(F("t", "b"), Mv(X("x"))), Do(C("see_pair", <<Ref(X("t"))>>)),
                 Do(C("both", <<Var(F("t", "a")), Ref(F("t", "b"))>>))}
        ends == {<<>>, <<Do(C("see", <<X("r")>>)), Do(C("eat_pair", <<Mv(X("t"))>>))>>,
                 <<Do(Free(F("t", "a"))), Do(Free(F("t", "b")))>>}
    IN  {[fn |-> Plain, body |-> f \o b \o e] :
            f \in {<<Make("x"), SLet("t", C("pair", <<>>))>>,
                   <<Make("x"), SLet("t", Lit(<<Mv(X("x")), C("make", <<>>)>>))>>},
            b \in Seqs(pool, 3), e \in ends}

\* Cleanups, and the exits in the middle of a statement.
Failures ==
    LET pool == {SDefer(Free(X("a"))), SErrDefer(Free(X("a"))), SErrDefer(C("eat", <<Mv(X("a"))>>)),
                 Do(Try(C("step", <<>>))), Do(Try(C("try_eat", <<Mv(X("a"))>>))),
                 SLet("b", Try(C("may_fail", <<>>))), SErrDefer(Free(X("b"))),
                 SLet("b", Try(C("wrap", <<Mv(X("a"))>>))),
                 SLet("b", OrElse(C("maybe", <<>>), C("make", <<>>))),
                 SLet("b", OrElse(C("maybe", <<>>), Mv(X("a")))),
                 SLet("b", Guard(C("maybe", <<>>), SReturn(Mv(X("a"))))),
                 Do(C("eat_two", <<Mv(X("a")), Try(C("may_fail", <<>>))>>)),
                 Do(C("eat_two", <<C("make", <<>>), Try(C("may_fail", <<>>))>>)), Do(Free(X("a")))}
        ends == {<<SReturn(Mv(X("a")))>>, <<Do(Free(X("a"))), SReturn(Mv(X("b")))>>,
                 <<SReturn(Mv(X("b")))>>, <<SReturn(Err)>>}
        Early(b) == \E i \in DOMAIN b : b[i].k = "let" /\ b[i].e.k = "guard"
    IN  {[fn |-> Failing, body |-> <<Make("a")>> \o b \o e] :
            b \in {c \in Seqs(pool, 3) : Early(c) => ~Contains(c, SDefer(Free(X("a"))))}, e \in ends}

\* Two ways past an if, with a borrow or a cleanup around it.
Branches ==
    LET pool == {Do(Free(X("a"))), See("a"), SReturn(NoValue), Do(C("put", <<X("r")>>))}
        after == {<<>>, <<Do(Free(X("a")))>>, <<Do(C("put", <<X("r")>>)), Do(Free(X("a")))>>}
        Around(S, befores, afters) ==
            {[fn |-> Plain, body |-> <<Make("a")>> \o b \o <<SIf(Flag, "", l, r)>> \o e] :
                b \in befores, l \in Seqs(S, 2), r \in Seqs(S, 2), e \in afters}
    IN  Around(pool, {<<>>, <<SLet("r", Var(X("a")))>>}, after)
        \cup Around({See("a"), SReturn(NoValue)}, {<<SDefer(Free(X("a")))>>}, {<<>>})

\* Loops with an owner per turn, left early or not.
Loops ==
    LET pool == {Make("c"), Do(Free(X("c"))), SDefer(Free(X("c"))), Do(Free(X("a"))), See("a"),
                 SIf(Flag, "", <<SBreak>>, <<>>), SIf(Flag, "", <<Do(Free(X("c"))), SContinue>>, <<>>)}
        Twice(b) == Contains(b, SDefer(Free(X("c")))) /\ \E i \in DOMAIN b : b[i].k = "if" /\ Len(b[i].then) = 2
    IN  UNION {{[fn |-> Plain, body |-> <<Make("a"), SWhile(h.e, h.cap, b)>> \o e] :
                   b \in {c \in Seqs(pool, 3) : ~Twice(c) /\ (h.cap = "c" => ~Contains(c, Make("c")))},
                   e \in {<<>>, <<Do(Free(X("a")))>>}} :
               h \in {[e |-> Flag, cap |-> ""], [e |-> C("maybe", <<>>), cap |-> "c"]}}

\* An owner union matched where it is owned, made, or only lent.
Matches ==
    LET pool(x) == {Do(Free(X(x))), Do(C("eat", <<Mv(X(x))>>)), See(x), SReturn(NoValue)}
        arms == {<<Arm("A", "x", p), Arm("B", "y", q), Arm("N", "", <<>>)>> :
                    p \in Seqs(pool("x"), 2), q \in {<<Do(Free(X("y")))>>, <<SReturn(NoValue)>>, <<>>}}
        kept == <<Arm("A", "", <<>>), Arm("_", "", <<>>)>>
        owned == <<SLet("u", C("make_union", <<>>))>>
        ends == {<<>>, <<Do(C("eat_union", <<Mv(X("u"))>>))>>}
        Poke(x) == Do(C("put", <<X(x)>>))
    IN  {[fn |-> Plain, body |-> owned \o <<SMatch(X("u"), a)>> \o e] : a \in arms \cup {kept}, e \in ends}
        \cup {[fn |-> Plain, body |-> <<SMatch(C("make_union", <<>>), a)>>] : a \in arms}
        \cup {[fn |-> Fun(<<Takes("u", <<"U">>, mode)>>, Void, <<>>),
               body |-> <<SMatch(X("u"), <<Arm("A", "x", b), Arm("_", "", <<>>)>>)>>] :
                 mode \in {"ref", "mut"}, b \in Seqs({See("x"), Poke("x"), Do(Free(X("x")))}, 2)}

\* Handles, copied, opened in their arena and in another, before and after
\* the arena is gone.
Arenas ==
    LET open(m, h) == SLet("e", M(X(m), "Arena", "at", <<X(h)>>))
        end(m) == Do(M(X(m), "Arena", "deinit", <<>>))
        pool == {SLet("k", X("h")), open("m", "h"), open("n", "h"), open("m", "k"), open("n", "k"),
                 SSet(X("k"), Try(M(X("n"), "Arena", "add", <<One>>))),
                 Do(C("look", <<X("e")>>)), Do(Try(M(X("m"), "Arena", "add", <<One>>))), end("m")}
        cover(m) == SDefer(M(X(m), "Arena", "deinit", <<>>))
    IN  {[fn |-> Fun(<<>>, <<"!", "void">>, <<>>),
          body |-> <<SLet("n", C("new_arena", <<>>)), cover("n"), SLet("m", C("new_arena", <<>>))>>
                   \o c \o <<SLet("h", Try(M(X("m"), "Arena", "add", <<One>>)))>> \o b] :
            c \in {<<cover("m")>>, <<SErrDefer(M(X("m"), "Arena", "deinit", <<>>))>>},
            b \in Seqs(pool, 3)}

\* Parameters of every mode, and a deinit that owes its own fields.
Parameters ==
    LET params == <<Takes("a", R, "val"), Takes("b", R, "ref"), Takes("c", R, "mut"), Takes("t", <<"P">>, "val")>>
        pool == {Do(Free(X("a"))), Do(Free(X("b"))), Do(C("eat", <<Mv(X("c"))>>)), SSet(X("c"), Mv(X("a"))),
                 Do(C("both", <<X("c"), X("b")>>)), Do(C("both", <<X("c"), X("c")>>)),
                 Do(C("eat", <<Mv(F("t", "a"))>>)), Do(Free(F("t", "b"))), Do(C("eat_pair", <<Mv(X("t"))>>))}
        inside == {Do(Free(F("self", "r"))), See("x"), Make("x"), Do(Free(X("x"))),
                   SIf(Flag, "", <<SReturn(NoValue)>>, <<>>)}
    IN  {[fn |-> Fun(params, Void, <<>>), body |-> Append(b, SReturn(NoValue))] : b \in Seqs(pool, 3)}
        \cup {[fn |-> Fun(<<Takes("self", <<"D">>, "val")>>, Void, <<"D">>), body |-> b] : b \in Seqs(inside, 3)}

(***************************************************************************)
(* What the checker says of them                                           *)
(***************************************************************************)
Accepted(family) ==
    {c \in {LET r == checkFunction(p.fn, p.body)
            IN  [fn |-> p.fn, body |-> p.body, accepted |-> r.ok, retired |-> r.retired] : p \in family} :
        c.accepted}

MCCompiled ==
    LET families == {Borrowing, Fields, Failures, Branches, Loops, Matches, Arenas, Parameters}
    IN  UNION {Accepted(f) : f \in families}

\* A function that hands an owner with an errdefer to a call whose failure it
\* returns.
MCReturned ==
    LET body == <<Make("a"), SErrDefer(Free(X("a"))), See("a"), SReturn(C("wrap", <<Mv(X("a"))>>))>>
    IN  Accepted({[fn |-> Failing, body |-> body]})
=============================================================================
