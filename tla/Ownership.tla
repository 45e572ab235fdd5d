----------------------------- MODULE Ownership -----------------------------
(***************************************************************************)
(* The walk of the ownership checker (internal/ownership/checker.go) over  *)
(* one function, form by form.                                             *)
(***************************************************************************)
EXTENDS OwnershipState

(***************************************************************************)
(* Borrows                                                                 *)
(***************************************************************************)

\* A mutant: a writer does not wait for the readers.
borrowConflictWithWriter(v, f, mut) ==
    \/ \E g \in v.fieldDeinit : g # f
    \/ \E i \in DOMAIN v.loans : fieldPathsOverlap(v.loans[i].f, f) /\ v.loans[i].mut

\* Borrows conflict when their places overlap and one of them may write; a
\* partly consumed value can only be borrowed at what is left of it.
borrowConflictForField(v, f, mut) ==
    \/ \E g \in v.fieldDeinit : g # f
    \/ \E i \in DOMAIN v.loans :
          fieldPathsOverlap(v.loans[i].f, f) /\ (mut \/ v.loans[i].mut)

\* The place a borrow names, as [id, f]: it must still be there.
CanBorrow(s, place) ==
    /\ Known(s, place.x)
    /\ LET v == s.b[lookup(s, place.x)]
       IN  /\ ~v.deinit /\ ~v.moved
           /\ ~\E g \in v.fieldDeinit : place.p # <<>> /\ fieldPathsOverlap(g, place.p)

bindBorrowSources(s, id, sources, mut) ==
    FoldLeft(LAMBDA t, src : Then(Require(t, ~borrowConflictForField(t.b[src.id], src.f, mut)),
                 LAMBDA u : [activateBorrow(u, src.id, src.f, mut) EXCEPT
                                !.b[id].targets = Append(@, src)]),
             s, sources)

(***************************************************************************)
(* Last uses: a borrow ends after the statement that uses its name last.    *)
(***************************************************************************)
RECURSIVE exprIdentUses(_), stmtIdentUses(_)

ListUses(es) == UNION {exprIdentUses(es[i]) : i \in DOMAIN es}
blockIdentUses(block) == UNION {stmtIdentUses(block[i]) : i \in DOMAIN block}

exprIdentUses(e) ==
    CASE e.k = "place" -> {e.x}
      [] e.k \in {"move", "borrow", "try"} -> exprIdentUses(e.of)
      [] e.k \in {"call", "lit"} -> ListUses(e.args)
      [] e.k = "method" -> {e.on.x} \cup ListUses(e.args)
      [] e.k = "default" -> exprIdentUses(e.of) \cup exprIdentUses(e.other)
      [] e.k = "guard" -> exprIdentUses(e.of) \cup stmtIdentUses(e.exit)
      [] OTHER -> {}

stmtIdentUses(st) ==
    CASE st.k \in {"let", "return", "defer", "errdefer", "expr"} -> exprIdentUses(st.e)
      [] st.k = "assign" -> exprIdentUses(st.e) \cup {st.to.x}
      [] st.k = "if" -> exprIdentUses(st.e) \cup blockIdentUses(st.then) \cup blockIdentUses(st.else)
      [] st.k = "while" -> exprIdentUses(st.e) \cup blockIdentUses(st.body)
      [] st.k = "match" -> exprIdentUses(st.e) \cup
             UNION {blockIdentUses(st.arms[i].body) : i \in DOMAIN st.arms}
      [] OTHER -> {}

\* A use in a loop body, or in a cleanup, lasts to the end of the block.
LastingUses(st) ==
    CASE st.k = "while" -> blockIdentUses(st.body)
      [] st.k \in {"defer", "errdefer"} -> stmtIdentUses(st)
      [] OTHER -> {}

\* blockLastUses, as the names still in use after statement i.
UsedLater(block, i) ==
    UNION {IF j > i THEN stmtIdentUses(block[j]) ELSE LastingUses(block[j]) : j \in DOMAIN block}

\* The borrows of the innermost scope whose name is done; one that another
\* borrow still holds waits for that one.
RECURSIVE releaseLastUseBorrows(_, _)
releaseLastUseBorrows(s, later) ==
    LET done == {x \in DOMAIN Last(s.scopes) \ later :
                    LET v == s.b[Last(s.scopes)[x]] IN v.targets # <<>> /\ ~hasAnyBorrow(v)}
    IN  IF done = {} THEN s
        ELSE releaseLastUseBorrows(
                 releaseBorrow(s, Last(s.scopes)[CHOOSE x \in done : TRUE]), later)

(***************************************************************************)
(* Reading and moving                                                      *)
(***************************************************************************)
RECURSIVE readExpr(_, _), moveExpr(_, _)

\* One direct field of a value that has no deinit of its own is handed off.
moveFieldExpr(s, place) ==
    LET id == lookup(s, place.x)
        v == s.b[id]
    IN  Then(Require(checkLazyDefaultConsume(s),
                /\ ~v.borrowed
                /\ Len(place.p) = 1
                /\ Last(v.ty) \notin Declared
                /\ ~bindingConsumed(v)
                /\ ~hasAnyBorrow(v)
                /\ place.p \notin v.fieldDeinit),
             LAMBDA t : [t EXCEPT !.b[id].fieldDeinit = @ \cup {place.p}])

moveIdent(s, place) ==
    LET id == lookup(s, place.x)
        v == s.b[id]
    IN  IF isCopyType(v.ty) THEN s
        ELSE Then(Require(checkLazyDefaultConsume(s), ~hasAnyBorrow(v) /\ v.fieldDeinit = {}),
                  LAMBDA t : [t EXCEPT !.b[id].moved = TRUE])

movePlaceExpr(s, place) ==
    IF ~Known(s, place.x) THEN Fail(s)
    ELSE IF place.p = <<>>
    THEN Then(Require(s, CanMoveBinding(s, s.b[lookup(s, place.x)])),
              LAMBDA t : Typed(moveIdent(t, place), t.b[lookup(t, place.x)].ty))
    ELSE Then(readPlace(s, place),
              LAMBDA t : IF isCopyType(t.ty) THEN t ELSE moveFieldExpr(t, place))

\* A hand-off from a named place, and only that, carries the move marker; the
\* place stays pending until the statement's consumer has the value.
moveExprForm(s, e) ==
    LET place == IF e.k = "move" THEN e.of ELSE e
    IN  Then(movePlaceExpr(s, place),
             LAMBDA t : IF isCopyType(t.ty) THEN Require(t, e.k # "move")
                        ELSE Then(Require(t, e.k = "move"),
                                  LAMBDA u : IF place.p = <<>>
                                             THEN [u EXCEPT !.places = Append(@, lookup(u, place.x))]
                                             ELSE [u EXCEPT !.temps = Append(@, place)]))

ReadAll(s, es) == FoldLeft(LAMBDA t, e : Then(t, LAMBDA u : readExpr(u, e)), s, es)
MoveAll(s, es) == FoldLeft(LAMBDA t, e : Then(t, LAMBDA u : moveExpr(u, e)), s, es)

moveStructLiteralExpr(s, e) ==
    Then(MoveAll(s, e.args), LAMBDA t : settleOwnerTemps(Typed(t, e.ty), s, <<e>>))

\* Only a call and a literal are read as well as moved; what else is written
\* with `move`, or is a place, goes through the hand-off above.
moveExpr(s, e) ==
    CASE e.k \in {"place", "move"} -> moveExprForm(s, e)
      [] e.k = "lit" -> moveStructLiteralExpr(s, e)
      [] OTHER -> readExpr(s, e)

(***************************************************************************)
(* Calls                                                                   *)
(***************************************************************************)

\* A borrow argument holds its place for the call: acc is the state and the
\* loans so far.
activateBorrowArg(acc, mut, arg) ==
    LET place == ArgPlace(arg)
    IN  IF ~acc.s.ok THEN acc
        ELSE IF place = <<>> THEN [acc EXCEPT !.s = Require(@, ~mut)]
        ELSE IF ~CanBorrow(acc.s, place[1]) THEN [acc EXCEPT !.s = Fail(@)]
        ELSE LET at == borrowTarget(acc.s, place[1])
                 v == acc.s.b[at.id]
             IN  IF (mut /\ v.borrowed /\ ~v.mutBorrow) \/ borrowConflictForField(v, at.f, mut)
                 THEN [acc EXCEPT !.s = Fail(@)]
                 ELSE [s |-> activateBorrow(acc.s, at.id, at.f, mut),
                       loans |-> Append(acc.loans, [id |-> at.id, f |-> at.f, mut |-> mut])]

activateBorrowArgs(s, params, args) ==
    FoldLeftDomain(LAMBDA acc, i : IF params[i].mode = "val" THEN acc
                                   ELSE activateBorrowArg(acc, params[i].mode = "mut", args[i]),
                   [s |-> s, loans |-> <<>>], args)

\* checkUserCallArg and checkImplMethodArg, which agree: a shared borrow is
\* read, an owned parameter takes the argument.
checkArg(s, param, arg) ==
    CASE param.mode = "mut" -> s
      [] param.mode = "ref" -> readExpr(s, arg)
      [] OTHER -> moveExpr(s, arg)

checkArgs(s, params, args) ==
    FoldLeftDomain(LAMBDA t, i : Then(t, LAMBDA u : checkArg(u, params[i], args[i])), s, args)

\* A call that takes one arena and one handle takes a pair that belongs together.
checkCallHandlePairing(s, params, args) ==
    LET arenas == {i \in DOMAIN params : params[i].ty = <<"Arena">>}
        handles == {i \in DOMAIN params : params[i].ty = <<"Handle">>}
    IN  IF Cardinality(arenas) # 1 \/ Cardinality(handles) # 1 THEN s
        ELSE LET a == ArgPlace(args[CHOOSE i \in arenas : TRUE])
             IN  IF a = <<>> \/ ~Known(s, a[1].x) THEN s
                 ELSE checkKnownHandleProvenance(s, s.b[lookup(s, a[1].x)].arena,
                                                 args[CHOOSE i \in handles : TRUE])

checkCallableCall(s, f, args) ==
    LET acc == activateBorrowArgs(checkCallHandlePairing(s, f.params, args), f.params, args)
    IN  Then(acc.s, LAMBDA t : Then(checkArgs(t, f.params, args),
            LAMBDA u : Typed(releaseTemporaryBorrows(u, acc.loans), f.ret)))

\* A receiver that is written to is held while the arguments are evaluated and
\* must be free when the call begins.
checkMethodArgs(s, m, at, args) ==
    LET held == IF m.self # "mut" THEN s
                ELSE [activateBorrow(s, at.id, at.f, FALSE) EXCEPT !.b[at.id].reserved = @ + 1]
        acc == activateBorrowArgs(checkCallHandlePairing(held, m.params, args), m.params, args)
    IN  Then(acc.s, LAMBDA t : Then(checkArgs(t, m.params, args),
            LAMBDA u : IF m.self # "mut" THEN releaseTemporaryBorrows(u, acc.loans)
                       ELSE LET freed == [releaseTemporaryBorrow(u, [id |-> at.id, f |-> at.f,
                                              mut |-> FALSE]) EXCEPT !.b[at.id].reserved = @ - 1]
                            IN  releaseTemporaryBorrows(
                                    Require(freed, ~borrowConflictForField(
                                                       freed.b[at.id], at.f, TRUE)), acc.loans)))

\* The loans that matter to a receiver: those of the value, or of the field.
ReceiverLoans(v, f) == \E i \in DOMAIN v.loans : fieldPathsOverlap(v.loans[i].f, f)

checkImplMethodCall(s, m, at, e) ==
    LET cleanup == functionConsumesReceiver(m, e.name)
    IN  Then(Require(s, m.self = "mut" => ~ReceiverLoans(s.b[at.id], at.f)),
        LAMBDA t : Then(checkMethodArgs(t, m, at, e.args),
        LAMBDA u : IF ~cleanup THEN Typed(u, m.ret)
                   ELSE Then(Require(checkLazyDefaultConsume(u),
                                /\ ~ReceiverLoans(u.b[at.id], at.f)
                                /\ ~(at.f = <<>> /\ insideDeinitOf(u, e.on.x, u.b[at.id].ty))
                                /\ (at.f = <<>> => u.b[at.id].fieldDeinit = {})),
                             LAMBDA w : Typed(IF at.f = <<>> THEN [w EXCEPT !.b[at.id].moved = TRUE]
                                              ELSE w, m.ret))))

checkStdMethodCall(s, m, at, e) ==
    LET v == s.b[at.id]
    IN  Then(Require(s, checkContainerMethodAccess(v, e.name) /\ checkStdReceiverKind(v, m)),
        LAMBDA t : Then(checkMethodArgs(t, m, at, e.args),
        LAMBDA u : Then(FoldLeftDomain(LAMBDA w, i :
                            IF m.params[i].ty # <<"Handle">> THEN w
                            ELSE checkKnownHandleProvenance(w, v.arena, e.args[i]), u, e.args),
        LAMBDA w : IF ArenaAccess[e.name] # "cleanup" THEN Typed(w, m.ret)
                   ELSE Then(checkLazyDefaultConsume(w),
                             LAMBDA y : Typed([y EXCEPT !.b[at.id].moved = TRUE,
                                                        !.b[at.id].deinit = TRUE], m.ret)))))

\* A method on one field of a value; deinit takes the field out of the value.
checkDirectFieldReceiverMethod(s, e) ==
    LET id == lookup(s, e.on.x)
        v == s.b[id]
        m == Methods[<<Last(fieldPathType(v.ty, e.on.p)), e.name>>]
    IN  Then(Require(readPlace(s, e.on), ~DeinitializedUse(s, v) /\ ~v.moved),
        LAMBDA t : Then(Require(t, e.name = "deinit" =>
                              Len(e.on.p) = 1 /\ allowsOwnerFieldCleanup(t, e.on.x, v)),
        LAMBDA u : Then(checkImplMethodCall(u, m, [id |-> id, f |-> e.on.p], e),
        LAMBDA w : IF e.name # "deinit" THEN w
                   ELSE [w EXCEPT !.b[id].fieldDeinit = @ \cup {e.on.p}])))

checkLocalReceiverMethod(s, e) ==
    LET id == lookup(s, e.on.x)
        v == s.b[id]
        m == Methods[<<Last(v.ty), e.name>>]
        at == [id |-> id, f |-> <<>>]
    IN  Then(Require(s, ~v.deinit /\ ~v.moved),
             LAMBDA t : IF Last(v.ty) = "Arena" THEN checkStdMethodCall(t, m, at, e)
                        ELSE checkImplMethodCall(t, m, at, e))

checkMethodCallExpr(s, e) ==
    IF ~Known(s, e.on.x) THEN Fail(s)
    ELSE Then(checkConsumingReceiverOwned(s, e),
              LAMBDA t : IF e.on.p # <<>> THEN checkDirectFieldReceiverMethod(t, e)
                         ELSE checkLocalReceiverMethod(t, e))

checkCallExpr(s, e) ==
    Then(IF e.k = "method" THEN checkMethodCallExpr(s, e) ELSE checkCallableCall(s, Fn(e.fn), e.args),
         LAMBDA t : settleOwnerTemps(t, s, <<e>>))

(***************************************************************************)
(* Returns and the exits in the middle of a statement                      *)
(***************************************************************************)

\* Until its consumer runs, a value handed off by this statement is where it
\* was: the exit is checked as if it had not been moved.
withPendingPlacesLive(s, Check(_)) ==
    LET held == FoldLeft(LAMBDA t, id : [t EXCEPT !.b[id].moved = FALSE], s, s.places)
        r == Check(held)
    IN  [s EXCEPT !.ok = r.ok, !.retired = r.retired]

readTryExpr(s, e) ==
    Then(readExpr(s, e.of), LAMBDA t :
    Then(Require(checkNoPendingOwnerTemps(t, s, e.of), Head(t.ty) = "!"), LAMBDA u :
    Then(withPendingPlacesLive(u, LAMBDA held :
             Then(validateErrDeferReceivers(held, <<s.at, e.n>>),
                  LAMBDA w : checkOwnersConsumed(w, 0, TRUE))),
         LAMBDA w : Typed(w, Tail(u.ty)))))

\* The type of what is returned decides, and it is read without moving it.
returnTakesErrorPath(s, e) ==
    \/ e.k = "err"
    \/ e.k = "place" /\ e.p = <<>> /\ Known(s, e.x) /\ Head(s.b[lookup(s, e.x)].ty) = "!"

NoValue == [k |-> "none"]

ReturnedBinding(s, e) ==
    IF e.k = "place" /\ e.p = <<>> /\ Known(s, e.x) THEN <<s.b[lookup(s, e.x)]>> ELSE <<>>

RECURSIVE arenaAddReceiver(_, _)
arenaAddReceiver(s, e) ==
    CASE e.k = "try" -> arenaAddReceiver(s, e.of)
      [] e.k = "method" /\ e.name = "add" -> lookup(s, e.on.x)
      [] OTHER -> 0

\* Every arena a handle is known to come from is a local of this function.
checkReturnStmt(s, st) ==
    Then(checkDeinitCompleteness(s), LAMBDA t :
    LET v == ReturnedBinding(t, st.e)
        errorPath == returnTakesErrorPath(t, st.e)
    IN  CASE st.e = NoValue -> checkOwnersConsumed(t, 0, FALSE)
          [] v # <<>> /\ v[1].borrowed -> Require(t, borrowedReturnAllowed(t, st.e.x, v[1]))
          [] v # <<>> /\ v[1].handle # 0 -> Fail(t)
          [] arenaAddReceiver(t, st.e) # 0 /\ t.b[arenaAddReceiver(t, st.e)].arena # 0 -> Fail(t)
          [] OTHER ->
                Then(IF errorPath THEN validateErrDeferReceivers(t, <<t.at, 0>>) ELSE t, LAMBDA u :
                Then(moveExpr(u, st.e), LAMBDA w : checkOwnersConsumed(w, 0, errorPath))))

\* The exit of a guard starts without what the condition would have produced.
checkGuardExit(s, before, exit) ==
    withPendingPlacesLive([s EXCEPT !.temps = before.temps], LAMBDA t :
        IF exit.k = "return" THEN checkReturnStmt(t, exit) ELSE checkLoopBranch(t))

\* readOrelseGuardExpr and readCatchGuardExpr.
readGuardExpr(s, e) ==
    Then(readExpr(s, e.of), LAMBDA t :
    Then(checkNoPendingOwnerTemps(t, s, e.of), LAMBDA u :
    LET w == checkGuardExit(u, s, e.exit)
    IN  Typed([u EXCEPT !.ok = w.ok, !.retired = w.retired], Tail(u.ty))))

\* The default of an orelse or a catch competes with the payload: an owner is
\* produced in place, and a named one is refused.
readLazyDefault(s, e) ==
    Then(readExpr(s, e.of), LAMBDA t :
    LET lazy == [t EXCEPT !.lazy = TRUE]
        elem == Tail(t.ty)
    IN  Then(IF valueTypeNeedsConsume(elem) THEN moveExpr(lazy, e.other) ELSE readExpr(lazy, e.other),
             LAMBDA u : Typed([u EXCEPT !.lazy = s.lazy], elem)))

\* A borrow reads its place; `move` in a read position is refused.
readExpr(s, e) ==
    CASE e.k = "int" -> Typed(s, <<"int">>)
      [] e.k = "err" -> Typed(s, <<"err">>)
      [] e.k = "place" -> readPlace(s, e)
      [] e.k = "borrow" -> readPlace(s, e.of)
      [] e.k \in {"call", "method"} -> checkCallExpr(s, e)
      [] e.k = "try" -> readTryExpr(s, e)
      [] e.k = "lit" -> Then(ReadAll(s, e.args), LAMBDA t : settleOwnerTemps(Typed(t, e.ty), s, <<e>>))
      [] e.k = "default" -> readLazyDefault(s, e)
      [] e.k = "guard" -> readGuardExpr(s, e)
      [] OTHER -> Fail(s)

(***************************************************************************)
(* Bindings and assignments                                                *)
(***************************************************************************)
setArenaProvenance(s, id, e) ==
    LET from == arenaAddReceiver(s, e)
    IN  IF e.k = "call" /\ e.fn = "new_arena" THEN [s EXCEPT !.b[id].arena = id]
        ELSE [s EXCEPT !.b[id].handle = IF from # 0 THEN s.b[from].arena
                                        ELSE knownHandleProvenance(s, e)]

checkBorrowLetStmt(s, st) ==
    IF ~CanBorrow(s, st.e.of) THEN Fail(s)
    ELSE LET at == borrowTarget(s, st.e.of)
         IN  Then(Require(s, ~borrowConflictForField(s.b[at.id], at.f, st.e.mut)), LAMBDA t :
             Then(readPlace(t, st.e.of), LAMBDA u :
                  define(activateBorrow(u, at.id, at.f, st.e.mut), st.x,
                         [BorrowBinding(u.ty, st.e.mut) EXCEPT !.targets = <<at>>])))

\* A declared borrow result keeps its sources lent while its name is used.
checkExplicitReturnedBorrowLetStmt(s, x, sources, elem, mut) ==
    LET t == define(s, x, BorrowBinding(elem, mut)) IN bindBorrowSources(t, Len(t.b), sources, mut)

\* Every borrow argument may back the result, the writable ones a writable one.
callBorrowReturnSources(s, f, args, mut) ==
    LET from == SelectSeq([i \in DOMAIN args |-> [mode |-> f.params[i].mode, e |-> args[i]]],
                          LAMBDA a : a.mode = "mut" \/ (a.mode = "ref" /\ ~mut))
    IN  [i \in DOMAIN from |-> ArgPlace(from[i].e)]

checkReturnedBorrowLetStmt(s, st) ==
    LET f == Fn(st.e.fn)
        mut == Head(f.ret) = "&var"
        from == callBorrowReturnSources(s, f, st.e.args, mut)
    IN  IF from = <<>> \/ \E i \in DOMAIN from : from[i] = <<>> \/ ~CanBorrow(s, from[i][1])
        THEN Fail(s)
        ELSE Then(checkCallableCall(s, f, st.e.args), LAMBDA t :
                  checkExplicitReturnedBorrowLetStmt(t, st.x,
                      [i \in DOMAIN from |-> borrowTarget(s, from[i][1])], Tail(f.ret), mut))

checkArenaAtLetStmt(s, st) ==
    IF ~CanBorrow(s, st.e.on) THEN Fail(s)
    ELSE Then(readExpr(s, st.e), LAMBDA t :
              checkExplicitReturnedBorrowLetStmt(t, st.x, <<borrowTarget(s, st.e.on)>>, Tail(t.ty), FALSE))

checkLetStmtForm(s, st) ==
    CASE st.e.k = "borrow" -> checkBorrowLetStmt(s, st)
      [] st.e.k = "method" /\ st.e.name = "at" -> checkArenaAtLetStmt(s, st)
      [] st.e.k = "call" /\ Head(Fn(st.e.fn).ret) \in {"&", "&var"} -> checkReturnedBorrowLetStmt(s, st)
      [] OTHER -> Then(moveExpr(s, st.e), LAMBDA t :
                  Then(rejectStoredOptional(t, t.ty), LAMBDA u :
                       setArenaProvenance(define(u, st.x, newBinding(u.ty)), Len(u.b) + 1, st.e)))

AssignWhole(s, st) ==
    LET id == lookup(s, st.to.x)
    IN  Then(moveExpr(s, st.e), LAMBDA t :
        LET v == t.b[id]
        IN  Then(Require(t, /\ ~hasAnyBorrow(v)
                            /\ ~bindingNeedsConsume(v)
                            /\ ~(/\ v.borrowed /\ ~v.local /\ v.mutBorrow
                                 /\ valueTypeNeedsConsume(v.ty))), LAMBDA u :
            Then(checkCleanupReceiverOverwrite(u, id), LAMBDA w :
                 setArenaProvenance([w EXCEPT !.b[id].moved = FALSE, !.b[id].deinit = FALSE,
                                              !.b[id].arena = 0, !.b[id].handle = 0], id, st.e))))

\* Writing a field drops what it held, unless that is gone already.
AssignField(s, st) ==
    LET id == lookup(s, st.to.x)
    IN  Then(moveExpr(s, st.e), LAMBDA t :
        Then(Require(t, /\ checkAssignmentBorrowConflict(t.b[id], st.to.p)
                        /\ \/ st.to.p \in t.b[id].fieldDeinit
                           \/ ~fieldTypeNeedsConsume(fieldPathType(t.b[id].ty, st.to.p))),
             LAMBDA u : [u EXCEPT !.b[id].fieldDeinit = @ \ {st.to.p}]))

checkAssignStmt(s, st) ==
    IF ~Known(s, st.to.x) THEN Fail(s)
    ELSE IF st.to.p = <<>> THEN AssignWhole(s, st) ELSE AssignField(s, st)

\* An owner that nothing binds could never be released.
checkExprStmt(s, st) ==
    Then(readExpr(s, st.e), LAMBDA t : Require(t, ~resultTypeNeedsConsume(t.ty)))

(***************************************************************************)
(* Registered cleanups                                                     *)
(***************************************************************************)
\* The owner the call will consume when it runs: the receiver of its deinit, or
\* the argument written with `move`; at most one.
CleanupOwners(s, e) ==
    (IF e.k = "method" /\ e.on.p = <<>> /\ Known(s, e.on.x)
        /\ functionConsumesReceiver(Methods[<<Last(s.b[lookup(s, e.on.x)].ty), e.name>>], e.name)
     THEN <<e.on>> ELSE <<>>)
    \o SelectSeq([i \in DOMAIN e.args |-> IF e.args[i].k = "move" THEN e.args[i].of ELSE NoValue],
                 LAMBDA place : place # NoValue)

\* readDeferredCall: the call is read where it is written, and consumes nothing.
readDeferredCall(s, e) ==
    Then(IF e.k = "method" THEN readPlace(s, e.on) ELSE s, LAMBDA t :
         ReadAll(t, [i \in DOMAIN e.args |-> IF e.args[i].k = "move" THEN e.args[i].of ELSE e.args[i]]))

registerCleanup(s, st) ==
    Then(readDeferredCall(s, st.e), LAMBDA t :
    LET owners == CleanupOwners(t, st.e)
        id == IF owners = <<>> THEN 0 ELSE lookup(t, owners[1].x)
    IN  Then(Require(t, /\ Len(owners) <= 1
                        /\ \A i \in DOMAIN owners : owners[i].p = <<>>
                        /\ id # 0 => ~t.b[id].deferred /\ ~errDeferCoversID(t, id)), LAMBDA u :
             CASE st.k = "errdefer" -> [u EXCEPT !.errs = Append(@, [id |-> id, at |-> u.at])]
               [] id # 0 -> [u EXCEPT !.b[id].deferred = TRUE]
               [] OTHER -> u))

\* At the end of the block the defers run, the last one first.
checkDeferredCleanups(s, block) ==
    FoldRight(LAMBDA st, t :
                  IF st.k # "defer" THEN t
                  ELSE Then(t, LAMBDA u : Then(checkExprStmt(u, st), LAMBDA w :
                           releaseLastUseBorrows(w, {}))),
              block, s)

(***************************************************************************)
(* Branches, loops and matches                                             *)
(***************************************************************************)
RECURSIVE checkBlock(_, _)

\* The verdict so far and what the exits retired are not part of a scope.
Verdict(s, from) == [s EXCEPT !.ok = from.ok, !.retired = from.retired]

checkBranchFieldConsumeAgreement(s, paths) ==
    Require(s, \A id \in walkBindings(s) : \A f \in OwnerFields(s.b[id].ty) :
                   \A l, r \in paths : f \in l.b[id].fieldDeinit <=> f \in r.b[id].fieldDeinit)

\* Past the if nobody could tell which branch ran.
checkBranchConsumeAgreement(s, left, right) ==
    Then(Require(s, \A id \in walkBindings(s) :
                        bindingNeedsConsume(s.b[id]) =>
                            (bindingConsumed(left.b[id]) <=> bindingConsumed(right.b[id]))),
         LAMBDA t : checkBranchFieldConsumeAgreement(t, {left, right}))

\* The name between bars takes the payload the condition handed over.
defineCapture(s, x, condType) == IF x = "" THEN s ELSE define(s, x, newBinding(Tail(condType)))

\* A block in a scope of its own: enter names what it binds first.
Region(s, block, x, condType) ==
    Then(checkBlock(defineCapture(child(s), x, condType), block),
         LAMBDA t : leave(checkCapturePayloadConsumed(t, x)))

checkIfStmt(s, st) ==
    Then(readExpr(s, st.e), LAMBDA t :
    LET start == [t EXCEPT !.temps = s.temps, !.places = s.places]
        left == Region([start EXCEPT !.at = Append(@, 1)], st.then, st.cap, t.ty)
        right == IF ~st.hasElse THEN Verdict(start, left)
                 ELSE Then(Verdict([start EXCEPT !.at = Append(@, 2)], left),
                           LAMBDA u : Region(u, st.else, "", <<>>))
        leftLive == ~blockTerminates(st.then)
        rightLive == ~st.hasElse \/ ~blockTerminates(st.else)
    IN  Then(Verdict(start, right), LAMBDA u :
        Then(IF leftLive /\ rightLive THEN checkBranchConsumeAgreement(u, left, right) ELSE u,
        LAMBDA w : LET merged == IF leftLive THEN mergeMovedFrom(w, left) ELSE w
                   IN  IF rightLive THEN mergeMovedFrom(merged, right) ELSE merged)))

\* The body runs an unknown number of times.
checkLoopConsumesNothingOutside(s, turn) ==
    Require(s, \A id \in walkBindings(s) :
                   /\ bindingNeedsConsume(s.b[id]) => ~bindingConsumed(turn.b[id])
                   /\ \A f \in OwnerFields(s.b[id].ty) :
                         f \in turn.b[id].fieldDeinit => f \in s.b[id].fieldDeinit)

checkWhileStmt(s, st) ==
    LET enter == readExpr([s EXCEPT !.loops = Append(@, Len(s.b))], st.e)
    IN  Then(enter, LAMBDA t :
        LET turn == Region([t EXCEPT !.temps = s.temps, !.places = s.places, !.at = Append(@, 1)],
                           st.body, st.cap, t.ty)
        IN  Then(Verdict(s, turn), LAMBDA u :
            Then(checkLoopConsumesNothingOutside(u, turn), LAMBDA w : mergeMovedFrom(w, turn))))

payloadMoves(ty) == Len(ty) = 1 /\ ~isCopyType(ty)

\* One arm that takes its payload is enough: which one runs is not known.
consumeMovedFromScrutinee(s, st, payloads) ==
    IF matchScrutineeOwner(s, st.e)
       /\ \E i \in DOMAIN st.arms : st.arms[i].bind # "" /\ payloadMoves(payloads[st.arms[i].tag])
    THEN LET id == lookup(s, st.e.x)
         IN  [Require(s, ~hasAnyBorrow(s.b[id])) EXCEPT !.b[id].moved = TRUE]
    ELSE s

\* Matched through a place that may be written, a payload is lent for the arm.
PayloadLent(s, e, ty) ==
    /\ payloadMoves(ty) /\ e.k = "place"
    /\ LET v == s.b[lookup(s, e.x)] IN IF e.p = <<>> THEN v.borrowed /\ v.mutBorrow
                                                     ELSE v.borrowed => v.mutBorrow

defineMatchArmPayload(s, arm, payloads, st, dispatch, owned) ==
    IF arm.bind = "" THEN s
    ELSE LET ty == payloads[arm.tag]
         IN  IF ~dispatch /\ PayloadLent(s, st.e, ty)
             THEN LET at == borrowTarget(s, st.e)
                  IN  Then(Require(s, ~borrowConflictForField(s.b[at.id], at.f, TRUE)), LAMBDA t :
                           define(activateBorrow(t, at.id, at.f, TRUE), arm.bind,
                                  [BorrowBinding(ty, TRUE) EXCEPT !.targets = <<at>>]))
             ELSE define(s, arm.bind, [newBinding(ty) EXCEPT
                             !.borrowed = ~(isCopyType(ty) \/ owned \/ dispatch)])

checkMatchArm(s, arm, payloads, st, dispatch, owned) ==
    Then(defineMatchArmPayload(child(s), arm, payloads, st, dispatch, owned), LAMBDA t :
    Then(checkBlock(t, arm.body), LAMBDA u : leave(checkCapturePayloadConsumed(u, arm.bind))))

\* Every arm starts from the state the match was reached in; acc is the
\* verdict so far and the paths that go on past the match.
checkMatchArms(s, st, payloads, dispatch, owned) ==
    FoldLeftDomain(LAMBDA acc, i :
        IF ~acc.s.ok THEN acc
        ELSE LET path == checkMatchArm([Verdict(s, acc.s) EXCEPT !.at = Append(@, i)],
                                       st.arms[i], payloads, st, dispatch, owned)
             IN  [s |-> Verdict(s, path),
                  live |-> IF blockTerminates(st.arms[i].body) THEN acc.live
                           ELSE acc.live \cup {path}],
        [s |-> s, live |-> {}], st.arms)

checkMatchStmt(s, st) ==
    Then(readExpr(s, st.e), LAMBDA t :
    LET start == [t EXCEPT !.temps = s.temps, !.places = s.places]
        payloads == Unions[Last(t.ty)]
        dispatch == matchesOwnerUnionDeinit(start, st.e)
        taken == IF dispatch THEN [start EXCEPT !.b[lookup(start, st.e.x)].moved = TRUE]
                 ELSE consumeMovedFromScrutinee(start, st, payloads)
        arms == checkMatchArms(taken, st, payloads, dispatch, matchScrutineeOwned(start, st.e))
    IN  Then(taken, LAMBDA u : Then(arms.s, LAMBDA w :
        Then(checkBranchFieldConsumeAgreement(w, arms.live), LAMBDA y :
             FoldLeft(mergeMovedFrom, y, SetToSeq(arms.live))))))

(***************************************************************************)
(* Blocks and functions                                                    *)
(***************************************************************************)
checkStmtForm(s, st) ==
    CASE st.k = "let" -> checkLetStmtForm(s, st)
      [] st.k = "assign" -> checkAssignStmt(s, st)
      [] st.k = "return" -> checkReturnStmt(s, st)
      [] st.k \in {"defer", "errdefer"} -> registerCleanup(s, st)
      [] st.k = "expr" -> checkExprStmt(s, st)
      [] st.k = "if" -> checkIfStmt(s, st)
      [] st.k = "while" -> checkWhileStmt(s, st)
      [] st.k = "match" -> checkMatchStmt(s, st)
      [] st.k \in {"break", "continue"} -> checkLoopBranch(s)

\* A statement leaves nothing pending; the borrows whose name is done end.
checkStmt(s, block, i) ==
    Then(checkStmtForm([s EXCEPT !.at = Append(@, i)], block[i]), LAMBDA t :
         [releaseLastUseBorrows(t, UsedLater(block, i))
             EXCEPT !.at = s.at, !.temps = s.temps, !.places = s.places, !.loops = s.loops])

checkBlock(s, block) ==
    Then(FoldLeftDomain(LAMBDA t, i : Then(t, LAMBDA u : checkStmt(u, block, i)), s, block), LAMBDA t :
    Then(checkDeferredCleanups(t, block), LAMBDA u :
         [(IF blockTerminates(block) THEN u ELSE checkOwnersConsumed(u, Len(s.b), FALSE))
             EXCEPT !.errs = s.errs, !.temps = s.temps, !.places = s.places, !.at = s.at]))

\* A receiver carries no obligation, and is held like a borrow unless deinit
\* takes it over.
defineParams(s, fn) ==
    FoldLeft(LAMBDA t, param :
                 define(t, param.name,
                        [newBinding(param.ty) EXCEPT !.borrowed = param.mode # "val",
                                                     !.mutBorrow = param.mode = "mut",
                                                     !.exempt = param.name = "self"]),
             s, fn.params)

InitialState(fn) ==
    [ok |-> TRUE, ty |-> <<"void">>, scopes |-> <<<<>>>>, b |-> <<>>, errs |-> <<>>,
     temps |-> <<>>, places |-> <<>>, loops |-> <<>>, lazy |-> FALSE, at |-> <<>>,
     retired |-> <<>>, fn |-> fn]

checkFunction(fn, body) ==
    Then(checkBlock(defineParams(InitialState(fn), fn), body), checkDeinitCompleteness)

=============================================================================
