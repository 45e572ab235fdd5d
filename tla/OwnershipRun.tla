---------------------------- MODULE OwnershipRun ----------------------------
(***************************************************************************)
(* What a function that the ownership checker accepted does when it runs,   *)
(* as internal/ir lowers it: the order of evaluation, the exits in the      *)
(* middle of a statement, and the cleanups each exit runs.                  *)
(*                                                                         *)
(* A value is the owners it holds (own: field path -> token), the paths     *)
(* where it should hold one (all), the reference it is (ref), the arena it   *)
(* is a handle of (arena), its variant (tag), and whether it is a null or a *)
(* failure instead (none).  A token stands for something to be released.    *)
(* A reference knows the storage it reaches and the reference it came from; *)
(* an access to overlapping storage that does not go through it ends it,    *)
(* when one of the two may write.                                           *)
(*                                                                         *)
(* The heap h: the storage mem, the fate of each token tok, the references  *)
(* refs, and what went wrong in faults.                                     *)
(***************************************************************************)
EXTENDS Ownership

CONSTANTS
    Compiled,   \* the programs: [fn, body, accepted, retired], from the checker
    MaxTurns    \* bound on the turns a run makes around its loops

VARIABLES
    prog,       \* the program that runs
    stack,      \* the open blocks, the innermost last
    heap,
    turns

vars == <<prog, stack, heap, turns>>

Nothing == [own |-> <<>>, all |-> {}, ref |-> 0, arena |-> 0, tag |-> "", none |-> FALSE]
Absent == [Nothing EXCEPT !.none = TRUE]

(***************************************************************************)
(* Storage                                                                 *)
(***************************************************************************)
\* The paths of a value at which it holds owners.
RECURSIVE Leaves(_)
Leaves(ty) ==
    CASE Len(ty) # 1 -> {}
      [] ty[1] \in DOMAIN Structs ->
            UNION {{<<Structs[ty[1]][i].name>> \o l : l \in Leaves(Structs[ty[1]][i].ty)} :
                      i \in DOMAIN Structs[ty[1]]}
      [] ty[1] \in Declared -> {<<>>}
      [] OTHER -> {}

\* The values a call may hand back: the owners in it are new.
Fresh(h, leaves, tag) ==
    LET at == SetToSeq(leaves)
        n == Len(h.tok)
    IN  [h |-> [h EXCEPT !.tok = @ \o [i \in DOMAIN at |-> "live"]],
         v |-> [Nothing EXCEPT !.all = leaves, !.tag = tag,
                    !.own = [l \in leaves |-> n + CHOOSE i \in DOMAIN at : at[i] = l]]]

MakeValue(h, ty) ==
    CASE Head(ty) \in {"?", "!"} -> {[h |-> h, v |-> Absent], Fresh(h, Leaves(Tail(ty)), "")}
      [] ty[1] \in DOMAIN Unions ->
            {Fresh(h, {<<tag>> \o l : l \in Leaves(Unions[ty[1]][tag])}, tag) :
                tag \in DOMAIN Unions[ty[1]]}
      [] OTHER -> {Fresh(h, Leaves(ty), "")}

\* Where a place is: its own storage, or what its reference reaches.
At(h, names, place) ==
    LET slot == names[place.x]
        ref == h.mem[slot].ref
    IN  IF ref = 0 THEN [slot |-> slot, f |-> place.p, via |-> 0]
        ELSE [slot |-> h.refs[ref].slot, f |-> h.refs[ref].f \o place.p, via |-> ref]

RECURSIVE Lineage(_, _)
Lineage(h, ref) == IF ref = 0 THEN {} ELSE {ref} \cup Lineage(h, h.refs[ref].parent)

Blame(h, fault, holds) == IF holds THEN h ELSE [h EXCEPT !.faults = @ \cup {fault}]

\* An access ends the references it conflicts with, and finds its own intact.
Touch(h, at, write) ==
    [Blame(h, "stale reference", at.via = 0 \/ h.refs[at.via].ok) EXCEPT
        !.refs = [q \in DOMAIN h.refs |->
            [h.refs[q] EXCEPT !.ok = @ /\ ~(/\ h.refs[q].slot = at.slot
                                            /\ fieldPathsOverlap(h.refs[q].f, at.f)
                                            /\ write \/ h.refs[q].mut
                                            /\ q \notin Lineage(h, at.via))]]]

\* Everything that belongs at the place is there, and not released.
Intact(h, at) ==
    \A l \in h.mem[at.slot].all :
        fieldPathsOverlap(l, at.f) =>
            /\ l \in DOMAIN h.mem[at.slot].own
            /\ h.tok[h.mem[at.slot].own[l]] = "live"

Use(h, at, write) == Touch(Blame(h, "gone", Intact(h, at)), at, write)

Under(v, f) == {l \in v.all : IsPrefix(f, l)}
Rest(l, f) == SubSeq(l, Len(f) + 1, Len(l))

\* The value at a place, and the place once the value has left it.
ValueAt(h, at) ==
    LET v == h.mem[at.slot]
    IN  [v EXCEPT !.all = {Rest(l, at.f) : l \in Under(v, at.f)},
                  !.own = [r \in {Rest(l, at.f) : l \in Under(v, at.f) \cap DOMAIN v.own} |->
                              v.own[at.f \o r]]]

Take(h, at) ==
    [h EXCEPT !.mem[at.slot].own = Restrict(@, DOMAIN @ \ Under(h.mem[at.slot], at.f))]

Put(h, at, v) ==
    LET old == h.mem[at.slot]
        kept == DOMAIN old.own \ Under(old, at.f)
        new == {at.f \o l : l \in DOMAIN v.own}
    IN  [h EXCEPT !.mem[at.slot] =
            IF at.f = <<>> THEN v
            ELSE [old EXCEPT !.own = [l \in kept \cup new |->
                                         IF l \in new THEN v.own[Rest(l, at.f)] ELSE old.own[l]]]]

\* The owners a value holds meet their fate: released here or handed to the
\* caller.
Settle(h, v, fate) ==
    LET toks == {v.own[l] : l \in DOMAIN v.own}
    IN  [Blame(h, "gone", \A t \in toks : h.tok[t] = "live") EXCEPT
            !.tok = [t \in DOMAIN h.tok |-> IF t \in toks THEN fate ELSE h.tok[t]]]

Reference(h, at, mut) ==
    [h |-> [Use(h, at, mut) EXCEPT !.refs =
               Append(@, [slot |-> at.slot, f |-> at.f, mut |-> mut, parent |-> at.via, ok |-> TRUE])],
     v |-> [Nothing EXCEPT !.ref = Len(h.refs) + 1]]

(***************************************************************************)
(* Expressions: the set of outcomes [h, v, pend, out], where pend lists the *)
(* places whose value leaves when the consumer runs, and out says how       *)
(* control left the statement, if it did.                                   *)
(***************************************************************************)
Stay == [kind |-> "", site |-> <<>>, v |-> Nothing]

Outcome(h, v, pend) == [h |-> h, v |-> v, pend |-> pend, out |-> Stay]

Commit(h, pend) == FoldLeft(Take, h, pend)

RECURSIVE Eval(_, _, _, _)

\* Arguments from the left; after one that leaves the statement, none.
EvalList(h, names, at, es) ==
    FoldLeft(LAMBDA acc, e :
        UNION {IF r.out # Stay THEN {r}
               ELSE {[a EXCEPT !.v = Append(r.v, a.v), !.pend = r.pend \o @] :
                        a \in Eval(r.h, names, at, e)} : r \in acc},
        {Outcome(h, <<>>, <<>>)}, es)

\* The callee works through every reference it was lent.
Lend(h, v) == IF v.ref = 0 THEN h
              ELSE Use(h, [slot |-> h.refs[v.ref].slot, f |-> h.refs[v.ref].f, via |-> v.ref],
                       h.refs[v.ref].mut)

\* The callee takes over what it was handed, whether it succeeds or fails.
Apply(r, ret) ==
    LET lent == FoldLeft(Lend, Commit(r.h, r.pend), r.v)
        taken == FoldLeft(LAMBDA h, v : Settle(h, v, "released"), lent, r.v)
    IN  IF Head(ret) \notin {"&", "&var"}
        THEN {Outcome(x.h, x.v, <<>>) : x \in MakeValue(taken, ret)}
        ELSE LET sources == {v \in Range(r.v) : v.ref # 0 /\ (Head(ret) = "&var" => taken.refs[v.ref].mut)}
             IN  {LET q == taken.refs[v.ref]
                      x == Reference(taken, [slot |-> q.slot, f |-> q.f, via |-> v.ref], Head(ret) = "&var")
                  IN  Outcome(x.h, x.v, <<>>) : v \in sources}

\* How each parameter receives its argument.
Passed(params, args) ==
    [i \in DOMAIN args |->
        IF params[i].mode = "val" \/ args[i].k = "borrow" THEN args[i]
        ELSE [k |-> "borrow", mut |-> params[i].mode = "mut", of |-> args[i]]]

\* The arena hands out handles and opens its own only.
ApplyArena(r, on, name) ==
    LET token == r.h.mem[on.slot].own[on.f]
    IN  IF name = "add"
        THEN {Outcome(Use(r.h, on, TRUE), Absent, <<>>),
              Outcome(Use(r.h, on, TRUE), [Nothing EXCEPT !.arena = token], <<>>)}
        ELSE LET h == Blame(r.h, "foreign handle", r.v[1].arena = token)
                 x == Reference(h, on, FALSE)
             IN  {Outcome(x.h, x.v, <<>>)}

EvalMethod(h, names, at, e) ==
    UNION {IF r.out # Stay THEN {r}
           ELSE LET on == At(r.h, names, e.on)
                    m == Methods[<<e.ty, e.name>>]
                IN  CASE e.name = "deinit" ->
                            {Outcome(Settle(Take(Use(r.h, on, TRUE), on), ValueAt(r.h, on), "released"),
                                     Nothing, <<>>)}
                      [] e.ty = "Arena" /\ Intact(r.h, on) -> ApplyArena(r, on, e.name)
                      [] OTHER -> Apply([r EXCEPT !.h = Use(@, on, m.self = "mut")], m.ret) :
           r \in EvalList(h, names, at, e.args)}

\* A failure leaves by the error exit, a null or a handled failure by the
\* statement that the guard names.
EvalTry(h, names, at, e) ==
    {IF r.out # Stay \/ ~r.v.none THEN r
     ELSE [r EXCEPT !.out = [Stay EXCEPT !.kind = "error", !.site = <<at, e.n>>]] :
        r \in Eval(h, names, at, e.of)}

\* lowerReturnStmt: a returned failure, written out or handed back by a call,
\* takes the error exit.
ReturnOutcomes(h, names, at, e) ==
    IF e = NoValue THEN {[Outcome(h, Nothing, <<>>) EXCEPT !.out.kind = "return"]}
    ELSE {IF r.out # Stay THEN r
          ELSE LET h2 == Commit(r.h, r.pend)
                   failed == e.k = "err" \/ r.v.none
               IN  [Outcome(Settle(h2, r.v, "handed"), Nothing, <<>>) EXCEPT
                       !.out = [kind |-> IF failed THEN "error" ELSE "return",
                                site |-> <<at, 0>>, v |-> r.v]] :
          r \in Eval(h, names, at, e)}

EvalGuard(h, names, at, e) ==
    UNION {IF r.out # Stay \/ ~r.v.none THEN {r}
           ELSE IF e.exit.k = "return" THEN ReturnOutcomes(r.h, names, at, e.exit.e)
           ELSE {[r EXCEPT !.out.kind = e.exit.k]} :
           r \in Eval(h, names, at, e.of)}

EvalDefault(h, names, at, e) ==
    UNION {IF r.out # Stay \/ ~r.v.none THEN {r}
           ELSE {[d EXCEPT !.pend = r.pend \o @] : d \in Eval(r.h, names, at, e.other)} :
           r \in Eval(h, names, at, e.of)}

\* A literal gathers its fields: the value has the paths of each under its name.
Gather(ty, vs) ==
    LET fields == Structs[ty[1]]
        at == {<<i, l>> : i \in DOMAIN vs, l \in UNION {DOMAIN vs[j].own : j \in DOMAIN vs}}
        own == {x \in at : x[2] \in DOMAIN vs[x[1]].own}
        Path(x) == <<fields[x[1]].name>> \o x[2]
    IN  [Nothing EXCEPT !.all = {Path(x) : x \in own},
             !.own = [p \in {Path(x) : x \in own} |->
                         LET x == CHOOSE y \in own : Path(y) = p IN vs[x[1]].own[x[2]]]]

Eval(h, names, at, e) ==
    CASE e.k \in {"int", "err"} -> {Outcome(h, Nothing, <<>>)}
      [] e.k = "place" -> LET where == At(h, names, e)
                              v == ValueAt(h, where)
                          IN  {Outcome(Use(h, where, FALSE), [v EXCEPT !.own = <<>>, !.all = {}], <<>>)}
      [] e.k = "borrow" -> LET x == Reference(h, At(h, names, e.of), e.mut) IN {Outcome(x.h, x.v, <<>>)}
      [] e.k = "move" -> LET where == At(h, names, e.of)
                         IN  {Outcome(Use(h, where, TRUE), ValueAt(h, where), <<where>>)}
      [] e.k = "call" -> UNION {IF r.out # Stay THEN {r} ELSE Apply(r, Fn(e.fn).ret) :
                                   r \in EvalList(h, names, at, Passed(Fn(e.fn).params, e.args))}
      [] e.k = "method" -> EvalMethod(h, names, at, e)
      [] e.k = "lit" -> {IF r.out # Stay THEN r
                         ELSE Outcome(Commit(r.h, r.pend), Gather(e.ty, r.v), <<>>) :
                            r \in EvalList(h, names, at, e.args)}
      [] e.k = "try" -> EvalTry(h, names, at, e)
      [] e.k = "guard" -> EvalGuard(h, names, at, e)
      [] e.k = "default" -> EvalDefault(h, names, at, e)

(***************************************************************************)
(* Cleanups (defer.go): the entries from a depth inward, the last one of    *)
(* the innermost block first.                                               *)
(***************************************************************************)
NamesOf(st) == FoldLeft(LAMBDA acc, frame : frame.names @@ acc, <<>>, st)

cleanupsFrom(st, depth, includeError, retired) ==
    LET entries == FlattenSeq([i \in 1 .. Len(st) - depth |-> st[depth + i].defers])
    IN  SelectSeq(Reverse(entries), LAMBDA c : ~c.onError \/ (includeError /\ c.at \notin retired))

\* A cleanup is a call that yields nothing: it has one outcome.
emitCleanups(h, names, cleanups) ==
    FoldLeft(LAMBDA g, c : (CHOOSE r \in Eval(g, names, c.at, c.e) : TRUE).h, h, cleanups)

Frame(block, at, names, loop) ==
    [block |-> block, i |-> 1, at |-> at, names |-> names, defers |-> <<>>, loop |-> loop]

Advance(st) == Append(Front(st), [Last(st) EXCEPT !.i = @ + 1])

\* The innermost loop that is open.
LoopDepth(st) == CHOOSE d \in DOMAIN st : st[d].loop /\ \A i \in DOMAIN st : st[i].loop => i <= d

RetiredAt(site) == IF site \in DOMAIN prog.retired THEN prog.retired[site] ELSE {}

(***************************************************************************)
(* Statements                                                              *)
(***************************************************************************)
Running == stack # <<>>
Ready == Running /\ Last(stack).i <= Len(Last(stack).block)
Stmt == Last(stack).block[Last(stack).i]
StmtAt == Append(Last(stack).at, Last(stack).i)

\* How the evaluation of the next statement may turn out; behind the last one
\* the block falls through.
Outcomes ==
    CASE ~Ready -> {[Outcome(heap, Nothing, <<>>) EXCEPT !.out.kind = "end"]}
      [] Ready /\ Stmt.k = "return" -> ReturnOutcomes(heap, NamesOf(stack), StmtAt, Stmt.e)
      [] Ready /\ Stmt.k \in {"break", "continue"} ->
            {[Outcome(heap, Nothing, <<>>) EXCEPT !.out.kind = Stmt.k]}
      [] Ready /\ Stmt.k \in {"defer", "errdefer"} -> {Outcome(heap, Nothing, <<>>)}
      [] OTHER -> Eval(heap, NamesOf(stack), StmtAt, Stmt.e)

\* The blocks that stay open, and the cleanups of the others: all of them at a
\* return, those up to the loop at a break or continue, the block's own at its
\* end (emitCleanupFrame).
Kept(kind) ==
    CASE kind \in {"return", "error"} -> 0
      [] kind = "end" -> Len(stack) - 1
      [] OTHER -> LoopDepth(stack) - 1

Leave(r) ==
    LET kind == r.out.kind
        outer == SubSeq(stack, 1, Kept(kind))
    IN  /\ r.out # Stay
        /\ heap' = emitCleanups(r.h, NamesOf(stack),
                       cleanupsFrom(stack, Kept(kind), kind = "error", RetiredAt(r.out.site)))
        /\ stack' = IF kind = "break" THEN Advance(outer) ELSE outer
        /\ UNCHANGED <<prog, turns>>

\* The statement is of the kind, and its expression was evaluated to the end.
Runs(r, kinds) == r.out = Stay /\ Stmt.k \in kinds

Bind(st, x, slot) == Append(Front(st), [Last(st) EXCEPT !.names = (x :> slot) @@ @])

Let(r) ==
    /\ Runs(r, {"let"})
    /\ \E h \in {Commit(r.h, r.pend)} :
          /\ heap' = [h EXCEPT !.mem = Append(@, r.v)]
          /\ stack' = Advance(Bind(stack, Stmt.x, Len(h.mem) + 1))
    /\ UNCHANGED <<prog, turns>>

Assign(r) ==
    /\ Runs(r, {"assign"})
    /\ \E to \in {At(r.h, NamesOf(stack), Stmt.to)} :
          heap' = Put(Touch(Commit(r.h, r.pend), to, TRUE), to, r.v)
    /\ stack' = Advance(stack)
    /\ UNCHANGED <<prog, turns>>

Discard(r) ==
    /\ Runs(r, {"expr"})
    /\ heap' = Commit(r.h, r.pend)
    /\ stack' = Advance(stack)
    /\ UNCHANGED <<prog, turns>>

Register(r) ==
    /\ Runs(r, {"defer", "errdefer"})
    /\ stack' = Advance(Append(Front(stack), [Last(stack) EXCEPT !.defers =
                     Append(@, [e |-> Stmt.e, onError |-> Stmt.k = "errdefer", at |-> StmtAt])]))
    /\ UNCHANGED <<prog, heap, turns>>

\* The branch opens with the payload under the name between bars.
Open(st, block, at, x, loop, r) ==
    LET h == Commit(r.h, r.pend)
    IN  /\ heap' = IF x = "" THEN h ELSE [h EXCEPT !.mem = Append(@, r.v)]
        /\ stack' = Append(st, Frame(block, at, IF x = "" THEN <<>> ELSE x :> Len(h.mem) + 1, loop))

\* Without a capture the condition is a bool, and either way may be taken.
Holds(r) == IF Stmt.cap = "" THEN BOOLEAN ELSE {~r.v.none}

If(r) ==
    /\ Runs(r, {"if"})
    /\ \E holds \in Holds(r) :
          Open(Advance(stack), IF holds THEN Stmt.then ELSE Stmt.else,
               Append(StmtAt, IF holds THEN 1 ELSE 2), IF holds THEN Stmt.cap ELSE "", FALSE, r)
    /\ UNCHANGED <<prog, turns>>

WhileEnter(r) ==
    /\ Runs(r, {"while"})
    /\ TRUE \in Holds(r)
    /\ turns < MaxTurns
    /\ turns' = turns + 1
    /\ Open(stack, Stmt.body, Append(StmtAt, 1), Stmt.cap, TRUE, r)
    /\ UNCHANGED prog

WhileDone(r) ==
    /\ Runs(r, {"while"})
    /\ FALSE \in Holds(r)
    /\ heap' = Commit(r.h, r.pend)
    /\ stack' = Advance(stack)
    /\ UNCHANGED <<prog, turns>>

\* A payload is taken out of a value the function owns, or reached in place.
MatchPayload(st, arm, r) ==
    LET names == NamesOf(stack)
        ty == Unions[st.ty][arm.tag]
    IN  IF arm.bind = "" \/ isCopyType(ty) THEN [h |-> r.h, v |-> Nothing]
        ELSE IF st.e.k # "place"
        THEN [h |-> r.h, v |-> [Nothing EXCEPT !.all = {Tail(l) : l \in r.v.all},
                                    !.own = [p \in {Tail(l) : l \in DOMAIN r.v.own} |->
                                                r.v.own[<<arm.tag>> \o p]]]]
        ELSE LET at == At(r.h, names, st.e)
                 inside == [at EXCEPT !.f = Append(@, arm.tag)]
             IN  IF at.via = 0 /\ at.f = <<>>
                 THEN [h |-> Take(Use(r.h, inside, TRUE), inside),
                       v |-> [ValueAt(r.h, inside) EXCEPT !.tag = ""]]
                 ELSE Reference(r.h, inside, at.via = 0 \/ r.h.refs[at.via].mut)

TagOf(st, r) ==
    IF st.e.k = "place" THEN r.h.mem[At(r.h, NamesOf(stack), st.e).slot].tag ELSE r.v.tag

Match(r) ==
    /\ Runs(r, {"match"})
    /\ \E i \in DOMAIN Stmt.arms :
          /\ Stmt.arms[i].tag \in {TagOf(Stmt, r), "_"}
          /\ \A j \in 1 .. i - 1 : Stmt.arms[j].tag # TagOf(Stmt, r)
          /\ \E x \in {MatchPayload(Stmt, Stmt.arms[i], r)} :
                Open(Advance(stack), Stmt.arms[i].body, Append(StmtAt, i), Stmt.arms[i].bind, FALSE,
                     Outcome(x.h, x.v, <<>>))
    /\ UNCHANGED <<prog, turns>>

\* A run starts with the caller's arguments: an owner, or a reference to one
\* that stays the caller's.
Enter(param, acc) ==
    {LET slot == Len(x.h.mem) + 1
         stored == [x.h EXCEPT !.mem = Append(@, x.v)]
         lent == Reference(stored, [slot |-> slot, f |-> <<>>, via |-> 0], param.mode = "mut")
     IN  IF param.mode = "val"
         THEN [acc EXCEPT !.h = stored, !.names = (param.name :> slot) @@ @]
         ELSE [h |-> [lent.h EXCEPT !.mem = Append(@, lent.v)],
               names |-> (param.name :> slot + 1) @@ acc.names,
               lent |-> acc.lent \cup {slot}] : x \in MakeValue(acc.h, param.ty)}

Entered(fn) ==
    FoldLeft(LAMBDA acc, param : UNION {Enter(param, a) : a \in acc},
             {[h |-> [mem |-> <<>>, tok |-> <<>>, refs |-> <<>>, faults |-> {}],
               names |-> <<>>, lent |-> {}]},
             fn.params)

Init ==
    /\ \E p \in {c \in Compiled : c.accepted} : \E start \in Entered(p.fn) :
          /\ prog = [fn |-> p.fn, body |-> p.body, retired |-> p.retired, lent |-> start.lent]
          /\ heap = start.h
          /\ stack = <<Frame(p.body, <<>>, start.names, FALSE)>>
    /\ turns = 0

Next ==
    /\ Running
    /\ \E r \in Outcomes :
          \/ Let(r) \/ Assign(r) \/ Discard(r) \/ Register(r) \/ If(r)
          \/ WhileEnter(r) \/ WhileDone(r) \/ Match(r) \/ Leave(r)

Spec == Init /\ [][Next]_vars

(***************************************************************************)
(* Properties                                                              *)
(***************************************************************************)
\* Every token is accounted for, every frame is at a statement or at its end.
TypeOK ==
    /\ \A i \in DOMAIN heap.mem : \A l \in DOMAIN heap.mem[i].own :
          l \in heap.mem[i].all /\ heap.mem[i].own[l] \in DOMAIN heap.tok
    /\ \A d \in DOMAIN stack : stack[d].i \in 1 .. Len(stack[d].block) + 1
    /\ turns \in 0 .. MaxTurns

\* An accepted function never reads, lends, moves or releases a value that it
\* has moved away or released already (readIdentAliasing, moveIdent,
\* checkMovePlaceBinding and the cleanups lowering runs at every exit).
OwnersGoOnce == "gone" \notin heap.faults

\* When an accepted function has ended, by whatever exit, each owner it was
\* given or made has been released or handed to the caller, and what it was
\* lent is where it was (checkOwnersConsumed and its callers).
NothingLeaks ==
    stack = <<>> =>
        LET kept == UNION {Range(heap.mem[i].own) : i \in prog.lent}
        IN  \A t \in DOMAIN heap.tok : heap.tok[t] = "live" <=> t \in kept

\* No reference of an accepted function is used after another access to the
\* storage it reaches that it excludes (borrowConflictForField and the end of
\* a borrow at its last use).
BorrowsExclude == "stale reference" \notin heap.faults

\* A handle only opens the arena it came from (checkKnownHandleProvenance).
HandlesMatch == "foreign handle" \notin heap.faults
=============================================================================
