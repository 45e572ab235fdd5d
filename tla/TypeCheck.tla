----------------------------- MODULE TypeCheck -----------------------------
(***************************************************************************)
(* The bodies of the functions (internal/types/checker.go, checkFunction to*)
(* checkPrintCall): what an expression is, what a statement may do.        *)
(*                                                                         *)
(* An expression or statement is a record whose field k names its form; a  *)
(* value that is missing is [k |-> "none"].  A type argument of a call is a*)
(* type, a value argument <<"n", 3>>, <<"b", TRUE>> or <<"x", "N">>.       *)
(* Check stops at its first error, so a state that is not ok is only passed*)
(* on.  Reflection (std::meta, comptime) and the primitives only std may   *)
(* name are left out.                                                      *)
(***************************************************************************)
EXTENDS TypeScope

CONSTANT
    \* @type: Nat;  how many instantiations may be open (maxInstantiationDepth, 32)
    MaxInstantiationDepth

None == [k |-> "none"]

RECURSIVE check(_, _), checkStmt(_, _), checkBlock(_, _), checkBlockValue(_, _), checkReturnStmt(_, _),
          checkAssignableTarget(_, _), checkAssignableIndex(_, _)

(***************************************************************************)
(* A value where a type is wanted                                          *)
(***************************************************************************)
RECURSIVE isFloatLiteral(_)
isFloatLiteral(e) == e.k = "float" \/ (e.k = "prefix" /\ e.op = "-" /\ isFloatLiteral(e.e))

\* Its sign aside, a literal's value is one of f32 or too large for it.
RECURSIVE fitsF32(_)
fitsF32(e) == IF e.k = "float" THEN e.fits ELSE fitsF32(e.e)

\* An integer literal is of the integer type wanted when it fits it.
coerceContextualIntegerLiteral(e, want, got) ==
    \/ got = want
    \/ /\ got = I64 /\ want \in integerTypes
       /\ literalIndex(e) # <<>> /\ integerLiteralFitsType(literalIndex(e)[1], want)

coerceContextualLiteral(e, want, got) ==
    IF got = <<"f64">> THEN got = want \/ (want = <<"f32">> /\ isFloatLiteral(e) /\ fitsF32(e))
    ELSE coerceContextualIntegerLiteral(e, want, got)

wrapsIntoOptional(e, want, got) ==
    isOptional(want) /\ (got = want \/ coerceContextualIntegerLiteral(e, want[2], got))

\* A value of the type got may stand where the type wanted is.
suits(e, want, got) ==
    CASE fillsNullablePointer(want, got) -> TRUE
      [] isOptional(want) -> wrapsIntoOptional(e, want, got)
      [] OTHER -> coerceContextualLiteral(e, want, got)

\* e is a value of the type wanted, null and a wrapped value included.
checkContextualExpr(s, e, want) ==
    IF e.k = "null" THEN Typed(Require(s, takesNull(want)), want)
    ELSE LET r == check(s, e) IN Typed(Require(r, suits(e, want, r.ty)), want)

returnValueMatchesBorrowParam(s, e, want, got) ==
    /\ e.k = "ident" /\ isBorrowed(s, e.x) /\ isBorrow(want) /\ got = want[2]
    /\ Is(want, "&var") => isMutBorrowed(s, e.x)

\* The success value, an error of the set, or another union that fits.
checkErrorUnionReturn(c, e, want, got) ==
    /\ isErrorUnion(want)
    /\ \/ coerceContextualIntegerLiteral(e, want[3], got)
       \/ wrapsIntoOptional(e, want[3], got)
       \/ errorUnionFits(c, want, got)
       \/ IF want[2] = NoType THEN isErrorSet(c, got) ELSE errorSetFits(c, got, want[2])

checkReturnValue(s, e, want, got) ==
    \/ checkErrorUnionReturn(s.c, e, want, got)
    \/ fillsNullablePointer(want, got)
    \/ IF isOptional(want) THEN wrapsIntoOptional(e, want, got)
       ELSE returnValueMatchesBorrowParam(s, e, want, got) \/ coerceContextualIntegerLiteral(e, want, got)

checkReturnStmt(s, st) ==
    CASE st.e.k = "none" -> Require(s, acceptsBareReturn(s.ret))
      [] st.e.k = "null" -> Require(s, takesNull(unwrapReturnSuccessType(s.ret)))
      [] OTHER -> LET r == check([s EXCEPT !.capture = @ \/ BorrowOptional(s.ret)], st.e)
                  IN  [Require(r, checkReturnValue(r, st.e, s.ret, r.ty)) EXCEPT !.capture = s.capture]

(***************************************************************************)
(* Let                                                                     *)
(***************************************************************************)

\* `unsafe &x.*` borrows through a raw pointer.
checkRawPointerBorrow(s, e) ==
    underMark(s, e, LAMBDA m :
        LET p == check(m, e.e.e.e)
        IN  IF ~p.ok THEN p
            ELSE LET r == requireUnsafeCapability(Require(p, isPointerType(p.ty)))
                 IN  IF ~r.ok \/ ~derefable(p.ty) \/ (e.e.mut /\ ~assignableRawPointer(p.ty)) THEN Fail(r)
                     ELSE Typed(r, rawPointerDerefType(p.ty)))

checkBoxBorrow(s, e) ==
    LET r == check(s, e.on)
    IN  IF ~r.ok \/ ~Is(r.ty, "Box") \/ e.args # <<>>
           \/ (e.name = "borrow_mut" /\ ~boxBorrowMutReceiverIsMutable(r, e.on)) THEN Fail(r)
        ELSE Typed(r, r.ty[2])

isMutView(name) == name \in {"as_mut_bytes", "as_mut_slice"}
checkStringView(s, e) ==
    LET r == check(s, e.on)
        view == viewOfReceiver(r, r.ty, e.name)
        base == mutablePlaceBase(e.on)
    IN  IF ~r.ok THEN r
        ELSE Typed(Require(r, /\ view # NoType /\ e.args = <<>>
                              /\ isMutView(e.name) => isMutable(r, base) \/ isMutBorrowed(r, base)), view)

\* A view of the memory behind a raw pointer.
isRawView(e) == e.k = "call" /\ e.f \in {"view_from_ptr", "mut_view_from_ptr"}
checkRawViewInitializer(s, e) ==
    LET m == requireUnsafeCapability(Require(s, Len(e.args) = 2))
        p == check(m, e.args[1])
    IN  IF ~m.ok THEN m ELSE IF ~p.ok \/ ~Is(p.ty, "ptr") THEN Fail(p)
        ELSE Typed(checkContextualExpr(Require(p, e.f = "view_from_ptr" \/ ~Is(p.ty[2], "const")), e.args[2], I64),
                   <<"[]", rawPointerDerefType(p.ty)>>)

\* A let of a borrow binds a reference, as <<s, mutable>>; <<>> for another.
defineSpecialLetInitializer(s, e) ==
    CASE e.k = "borrow" -> <<check(s, e), e.mut>>
      [] e.k = "method" /\ e.name \in {"borrow", "borrow_mut"} -> <<checkBoxBorrow(s, e), e.name = "borrow_mut">>
      [] e.k = "method" /\ isViewMethodName(e.name) -> <<checkStringView(s, e), isMutView(e.name)>>
      [] isRawView(e) -> <<checkRawViewInitializer(s, e), e.f = "mut_view_from_ptr">>
      [] e.k = "unsafe" /\ isRawView(e.e) ->
            <<underMark(s, e, LAMBDA m : checkRawViewInitializer(m, e.e)), e.e.f = "mut_view_from_ptr">>
      [] deref(e) -> <<checkRawPointerBorrow(s, e), e.e.mut>>
      [] OTHER -> <<>>

letDeclaredType(s, st) == IF isBorrow(st.ty) THEN NoType ELSE parseTypeNode(s.c, s.ps, st.ty)

checkLetStmt(s, st) ==
    LET special == defineSpecialLetInitializer(s, st.e)
        want == letDeclaredType(s, st)
        plain == IF st.ty = NoType THEN check(s, st.e)
                 ELSE IF want = NoType THEN Fail(s) ELSE checkContextualExpr(s, st.e, want)
    IN  IF special # <<>>
        THEN LET r == special[1]
             IN  declareLocal(defineBinding(
                    Require(r, st.ty = NoType \/ (want = r.ty /\ st.x # "_")),
                    st.x, Param(r.ty, TRUE, special[2], FALSE)), st.x)
        ELSE IF ~plain.ok \/ containsTypeValue(plain.ty) THEN Fail(plain)
        ELSE declareLocal(defineBinding(plain, st.x,
                IF isBorrow(plain.ty) THEN Param(plain.ty[2], TRUE, Is(plain.ty, "&var"), FALSE)
                ELSE Plain(plain.ty, st.mut)), st.x)

(***************************************************************************)
(* Assignment                                                              *)
(***************************************************************************)
checkIndexBound(s, e) == LET r == check(s, e) IN Require(r, r.ty = I64)

bufferSize(array) == IF Is(array, "[n]") THEN array[2] ELSE 0
\* A literal index is known to be inside the array.
checkArrayIndex(s, e, array) ==
    Typed(Require(checkIndexBound(s, e.i),
                  literalIndex(e.i) # <<>> => literalIndex(e.i)[1] \in 0 .. bufferSize(array) - 1), array[3])

assignableArrayPlace(s, e) ==
    LET w == checkAssignableTarget(s, e)
    IN  Typed(Require(w, isBufferType(borrowedValueType(w.ty))), borrowedValueType(w.ty))

checkAssignableIndex(s, e) ==
    LET place == assignableArrayPlace(s, e.e)
        read == check(s, e.e)
        base == CASE ~read.ok -> s
                  [] isBufferType(borrowedValueType(read.ty)) -> checkAssignableTarget(read, e.e)
                  [] OTHER -> read
    IN  CASE place.ok -> checkArrayIndex(place, e, place.ty)
          [] ~base.ok \/ e.e.k # "ident" -> Fail(base)
          [] ~bound(base, e.e.x) \/ ~isMutBorrowed(base, e.e.x) \/ ~isSliceType(binding(base, e.e.x).typ) -> Fail(base)
          [] OTHER -> Typed(checkIndexBound(lookup(base, e.e.x), e.i), binding(base, e.e.x).typ[2])

RECURSIVE checkAssignableField(_, _)
checkAssignableDeref(s, e) ==
    IF e.e.k = "ident" /\ isMutBorrowed(s, e.e.x)
    THEN Require(lookup(s, e.e.x), ~isSliceType(binding(s, e.e.x).typ))
    ELSE LET r == check(s, e.e)
         IN  IF ~r.ok \/ ~isPointerType(r.ty) THEN Fail(r)
             ELSE IF ~assignableRawPointer(r.ty) THEN Fail(r)
             ELSE Typed(requireUnsafeCapability(r), rawPointerDerefType(r.ty))

\* The struct that declares the field e names, as <<decl>>.
fieldOwner(s, e) ==
    LET held == borrowedValueType(check(s, e.e).ty)
    IN  IF IsName(held) /\ held[1] \in DOMAIN s.c.structs THEN <<s.c.structs[held[1]]>> ELSE <<>>

\* A field is written through the place that holds it; the invariant of an
\* unsafe struct is written under a mark.
checkAssignableField(s, e) ==
    LET place == CASE e.e.k = "ident" ->
                        Require(s, IF isBorrowed(s, e.e.x) THEN isMutBorrowed(s, e.e.x) ELSE isMutable(s, e.e.x))
                   [] e.e.k = "deref" -> checkAssignableDeref(s, e.e)
                   [] e.e.k = "field" -> checkAssignableField(s, e.e)
                   [] e.e.k = "index" -> checkAssignableIndex(s, e.e)
                   [] OTHER -> Fail(s)
        r == IF place.ok THEN check(place, e) ELSE place
    IN  IF ~r.ok THEN r
        ELSE LET decl == fieldOwner(place, e)
             IN  IF decl = <<>> THEN r ELSE Typed(requireUnsafeStructInvariant(r, decl[1]), r.ty)

checkAssignableTarget(s, e) ==
    CASE e.k = "ident" -> checkAssignableIdent(s, e)
      [] e.k = "field" -> checkAssignableField(s, e)
      [] e.k = "deref" -> checkAssignableDeref(s, e)
      [] e.k = "index" -> checkAssignableIndex(s, e)
      [] e.k = "unsafe" -> underMark(s, e, LAMBDA m : checkAssignableTarget(m, e.e))
      [] OTHER -> Fail(s)

checkAssignStmt(s, st) ==
    LET target == checkAssignableTarget(s, st.t)
    IN  IF target.ok THEN checkContextualExpr(target, st.e, target.ty) ELSE target

(***************************************************************************)
(* Conditions: a bool, or a value the branch opens                          *)
(***************************************************************************)
\* What the condition binds in each branch, as at most one binding.
Opened(s, capture, errCapture) == [s |-> s, capture |-> capture, errCapture |-> errCapture]

bindErrorUnionCaptures(r, st) ==
    LET union == r.ty
    IN  Opened(Require(r, /\ union[2] # NoType /\ st.errCapture # ""
                          /\ (union[3] = Void) = (st.capture = "")),
               IF union[3] = Void THEN <<>> ELSE <<Plain(union[3], FALSE)>>, <<Plain(union[2], FALSE)>>)

bindConditionCapture(r, st) ==
    IF st.capture = "" THEN Opened(Require(r, r.ty = Bool), <<>>, <<>>)
    ELSE Opened(Require(r, takesNull(r.ty)), IF takesNull(r.ty) THEN <<Plain(r.ty[2], FALSE)>> ELSE <<>>, <<>>)

\* `|x|` on a call whose result borrows out of a container.
checkContainerBorrowCondition(s, e) ==
    [check([s EXCEPT !.capture = TRUE], e) EXCEPT !.capture = s.capture]

openCondition(s, st) ==
    LET lent == checkContainerBorrowCondition(s, st.e)
        tried == st.capture # "" /\ mayBorrowContainer(st.e)
        r == check(IF tried THEN [lent EXCEPT !.ty = s.ty] ELSE s, st.e)
    IN  CASE tried /\ ~lent.ok -> Opened(lent, <<>>, <<>>)
          [] tried /\ BorrowOptional(lent.ty) ->
                Opened(Require(lent, st.errCapture = ""),
                       <<Param(lent.ty[2][2], TRUE, Is(lent.ty[2], "&var"), FALSE)>>, <<>>)
          [] ~r.ok -> Opened(r, <<>>, <<>>)
          [] st.k = "if" /\ isErrorUnion(r.ty) -> bindErrorUnionCaptures(r, st)
          [] OTHER -> bindConditionCapture([r EXCEPT !.ok = st.errCapture = ""], st)

checkIfStmt(s, st) ==
    LET o == openCondition(s, st)
        left == checkBlock(enterBranch(o.s, st.capture, o.capture), st.then)
        right == checkBlock(enterBranch(leave(left), st.errCapture, o.errCapture), st.else)
    IN  CASE ~o.s.ok -> o.s
          [] ~left.ok -> left
          [] ~st.hasElse -> [leave(left) EXCEPT !.returns = FALSE]
          [] ~right.ok -> right
          [] OTHER -> [leave(right) EXCEPT !.returns = left.returns /\ right.returns]

checkWhileStmt(s, st) ==
    LET o == openCondition(s, st)
        body == checkBlock(enterLoop(enterBranch(o.s, st.capture, o.capture), st.label), st.body)
    IN  IF ~o.s.ok THEN o.s ELSE IF ~body.ok THEN body
        ELSE [leave(leaveLoop(body)) EXCEPT !.returns = FALSE]

checkForBounds(s, st) ==
    LET low == check(s, st.lo)
        high == check(low, st.hi)
    IN  IF low.ok THEN Require(high, low.ty = I64 /\ high.ty = I64) ELSE low

checkForStmt(s, st) ==
    LET bounds == checkForBounds(s, st)
        body == checkBlock(defineBinding(child(enterLoop(bounds, st.label)), st.x, Plain(I64, FALSE)), st.body)
    IN  IF ~bounds.ok THEN bounds ELSE IF ~body.ok THEN body
        ELSE [leave(leaveLoop(body)) EXCEPT !.returns = FALSE]

(***************************************************************************)
(* Match                                                                   *)
(***************************************************************************)
\* The value, and the type whose tags the arms name.
matchValue(s, st) ==
    LET r == check(s, st.e)
        t == borrowedValueType(r.ty)
    IN  IF r.ok THEN Typed(Require(r, matches(r.c, t) /\ armsCover(r.c, t, st.arms)), t) ELSE r

payloadOf(c, t, arm) == IF arm.tag = "_" THEN NoType ELSE armKey(c, t, arm)[2]

\* The arms from the ith on; left is what the first one said of itself.
RECURSIVE checkMatchArms(_, _, _, _, _)
checkMatchArms(s, st, t, i, returns) ==
    IF i > Len(st.arms) THEN [s EXCEPT !.returns = returns]
    ELSE LET arm == st.arms[i]
             r == checkBlock(child(defineMatchArmBinding(child(s), st.e, arm, payloadOf(s.c, t, arm))), arm.body)
         IN  IF ~r.ok THEN r ELSE checkMatchArms(leave(leave(r)), st, t, i + 1, returns /\ r.returns)

checkMatchStmt(s, st) ==
    LET r == matchValue(s, st)
    IN  IF r.ok THEN checkMatchArms(r, st, r.ty, 1, st.arms # <<>>) ELSE r

RECURSIVE checkMatchExprArms(_, _, _, _, _)
checkMatchExprArms(s, st, t, i, result) ==
    IF i > Len(st.arms) THEN Typed(s, result)
    ELSE LET arm == st.arms[i]
             r == checkBlockValue(child(defineMatchArmBinding(child(s), st.e, arm, payloadOf(s.c, t, arm))), arm.body)
         IN  IF ~r.ok \/ (i > 1 /\ r.ty # result) THEN Fail(r)
             ELSE checkMatchExprArms(leave(leave(r)), st, t, i + 1, r.ty)

checkMatchExpr(s, st) ==
    LET r == matchValue(s, st)
    IN  IF r.ok THEN checkMatchExprArms(r, st, r.ty, 1, NoType) ELSE r

(***************************************************************************)
(* Blocks as values                                                        *)
(***************************************************************************)
checkIfExpr(s, st) ==
    LET o == openCondition(s, st)
        left == checkBlockValue(enterBranch(o.s, st.capture, o.capture), st.then)
        right == checkBlockValue(enterBranch(leave(left), st.errCapture, o.errCapture), st.else)
    IN  CASE ~o.s.ok \/ ~st.hasElse -> Fail(o.s)
          [] ~left.ok -> left
          [] OTHER -> IF right.ok THEN Require(leave(right), left.ty = right.ty) ELSE right

checkStmtValue(s, st) ==
    CASE st.k = "expr" -> IF st.semi THEN Fail(s) ELSE check(s, st.e)
      [] st.k = "if" -> checkIfExpr(s, st)
      [] st.k = "match" -> checkMatchExpr(s, st)
      [] st.k = "block" -> LET r == checkBlockValue(child(s), st.body) IN IF r.ok THEN leave(r) ELSE r
      [] OTHER -> Fail(s)

checkBlockValue(s, body) ==
    CASE body = <<>> \/ ~s.ok -> Fail(s)
      [] Len(body) = 1 -> checkStmtValue(s, body[1])
      [] OTHER -> LET r == checkStmt(s, body[1])
                  IN  IF ~r.ok \/ r.returns THEN Fail(r) ELSE checkBlockValue(r, Tail(body))

(***************************************************************************)
(* Statements                                                              *)
(***************************************************************************)
validateDeferredCallShape(e) ==
    LET inner == IF e.k = "unsafe" THEN e.e ELSE e
    IN  \/ inner.k \in {"method", "apply", "make"}
        \/ inner.k = "call" /\ ~isBuiltinCallName(inner.f)
checkDeferredCall(s, e) ==
    IF ~validateDeferredCallShape(e) THEN Fail(s)
    ELSE LET r == check(s, e) IN Require(r, r.ty = Void)

checkStmt(s, st) ==
    LET r == CASE st.k = "let" -> checkLetStmt(s, st)
               [] st.k = "assign" -> checkAssignStmt(s, st)
               [] st.k = "return" -> checkReturnStmt(s, st)
               [] st.k \in {"defer", "errdefer"} -> checkDeferredCall(s, st.e)
               [] st.k = "expr" -> check(s, st.e)
               [] st.k = "if" -> checkIfStmt(s, st)
               [] st.k = "while" -> checkWhileStmt(s, st)
               [] st.k = "for" -> checkForStmt(s, st)
               [] st.k \in {"break", "continue"} -> checkLoopBranch(s, st.label)
               [] st.k = "match" -> checkMatchStmt(s, st)
               [] OTHER -> LET b == checkBlock(child(s), st.body) IN IF b.ok THEN leave(b) ELSE b
    IN  IF st.k \in {"if", "match", "block"} THEN r ELSE [r EXCEPT !.returns = st.k = "return"]

\* What follows a statement that returns is not read; every local of the
\* scope has been.
checkBlock(s, body) ==
    CASE ~s.ok -> s
      [] body = <<>> -> [Require(s, ~unreadLocalError(s)) EXCEPT !.returns = FALSE]
      [] OTHER -> LET r == checkStmt(s, body[1])
                  IN  IF ~r.ok THEN r
                      ELSE IF r.returns THEN Require(r, ~unreadLocalError(r)) ELSE checkBlock(r, Tail(body))

(***************************************************************************)
(* Arrays, vectors and views                                               *)
(***************************************************************************)
\* Every value is of the element's type.
RECURSIVE checkElements(_, _, _)
checkElements(s, es, elem) ==
    IF ~s.ok \/ es = <<>> THEN s ELSE checkElements(checkContextualExpr(s, es[1], elem), Tail(es), elem)

checkArrayLiteralExpr(s, e) ==
    LET array == parseTypeNode(s.c, s.ps, e.ty)
    IN  IF ~Is(array, "[n]") \/ ~isPlainDataType(s.c, array[3], {}) THEN Fail(s)
        ELSE IF e.fill THEN Typed(Require(s, zeroFillable(array[3])), array)
        ELSE Typed(checkElements(Require(s, Len(e.es) = array[2]), e.es, array[3]), array)

checkVectorLiteralExpr(s, e) ==
    IF ~IsVector(e.ty) THEN Fail(s)
    ELSE LET v == vectorLanes[e.ty[1]]
         IN  Typed(checkElements(Require(s, Len(e.es) = v[2]), e.es, v[1]), e.ty)

checkVectorLane(r, e) ==
    LET v == vectorLanes[r.ty[1]]
    IN  Typed(Require(r, e.k = "index" /\ e.i.k = "int" /\ e.i.n \in 0 .. v[2] - 1), v[1])

OptionalBound(s, e) == IF e.k = "none" \/ ~s.ok THEN s ELSE checkIndexBound(s, e)

checkIndexExpr(s, e) ==
    LET r == check(s, e.e)
        held == borrowedValueType(r.ty)
    IN  CASE ~r.ok -> r
          [] IsVector(r.ty) -> checkVectorLane(r, e)
          [] isBufferType(held) -> IF e.k = "slice" THEN Fail(r) ELSE checkArrayIndex(r, e, held)
          [] ~isSliceType(r.ty) -> Fail(r)
          [] e.k = "index" -> Typed(checkIndexBound(r, e.i), r.ty[2])
          [] OTHER -> Typed(OptionalBound(OptionalBound(r, e.lo), e.hi), r.ty)

(***************************************************************************)
(* Optionals and error unions                                              *)
(***************************************************************************)

\* What the left side holds when it is there; NoType when it cannot be opened.
opensTo(op, t) ==
    IF op \in {"orelse", "orelse_guard"} THEN IF takesNull(t) THEN t[2] ELSE NoType ELSE catchSuccessType(t)

checkOrelseExpr(s, e) ==
    LET r == check(s, e.l)
        elem == opensTo(e.op, r.ty)
    IN  IF ~r.ok \/ elem = NoType THEN Fail(r) ELSE checkContextualExpr(r, e.r, elem)

checkGuardExpr(s, e) ==
    LET r == check(s, e.e)
        elem == opensTo(e.k, r.ty)
    IN  IF ~r.ok \/ elem = NoType THEN Fail(r)
        ELSE Typed(CASE e.exit.k = "return" -> checkReturnStmt(r, e.exit)
                     [] e.exit.k \in {"break", "continue"} -> checkLoopBranch(r, e.exit.label)
                     [] OTHER -> Fail(r), elem)

checkTryExpr(s, e) ==
    LET r == check(s, e.e)
    IN  IF ~isErrorUnion(s.ret) \/ ~r.ok \/ ~isErrorUnion(r.ty) THEN Fail(r)
        ELSE Typed(Require(r, s.ret[2] = NoType \/ (r.ty[2] # NoType /\ errorSetFits(s.c, r.ty[2], s.ret[2]))),
                   r.ty[3])

(***************************************************************************)
(* Names, borrows and operators                                            *)
(***************************************************************************)
functionPointerValue(f) ==
    <<"fn", PointerABI(f), [i \in DOMAIN f.params |->
                               borrowWrappedType(f.params[i].borrow, f.params[i].mut, f.params[i].ty)],
      f.ret, f.unsafe /\ PointerABI(f) = "">>

checkIdentExpr(s, e) ==
    CASE bound(s, e.x) -> lookup(s, e.x)
      [] e.x \in DOMAIN s.subst -> Typed(s, TypeType)
      [] e.x \notin DOMAIN s.c.functions -> Fail(s)
      [] OTHER -> LET f == s.c.functions[e.x]
                      value == functionPointerValue(f)
                  IN  Typed(Require(s, /\ f.abi # "browser" /\ ~f.variadic
                                       /\ f.statics = <<>> /\ f.written
                                       /\ value[2] = "c" => cFunctionPointerSignature(value, <<s.c>>)), value)
checkBorrowTargetShape(e, mut) == mutablePlaceBase(e) # "" \/ (sliceBorrowTarget(e) /\ mut)

\* A mutant: any place may be lent for writing.
requireNamedBorrowArg(s, e, want) == Require(s, sliceBorrowTarget(e) \/ mutablePlaceBase(e) # "")

\* What may be lent for writing.
requireMutableBorrowArg(s, e, want) ==
    LET base == mutablePlaceBase(e)
    IN  Require(s, CASE sliceBorrowTarget(e) -> isMutBorrowed(s, e.e.x)
                     [] isSliceType(want) -> e.k = "ident" /\ isMutBorrowed(s, e.x)
                     [] OTHER -> base # "" /\ (isMutable(s, base) \/ isMutBorrowed(s, base)))

\* A borrow has the type of what it borrows.
checkBorrowPrefix(s, e) ==
    LET r == check(s, e.e)
    IN  IF ~checkBorrowTargetShape(e.e, e.mut) THEN Fail(s)
        ELSE IF r.ok /\ e.mut THEN requireMutableBorrowArg(r, e.e, r.ty) ELSE r

checkPrefixExpr(s, e) ==
    LET r == check(s, e.e)
    IN  IF ~r.ok THEN r
        ELSE Require(r, CASE e.op = "-" -> IF IsVector(r.ty) THEN vectorLanes[r.ty[1]][1] \in signedNumericTypes
                                           ELSE r.ty \in signedNumericTypes
                          [] e.op = "!" -> r.ty = Bool
                          [] OTHER -> r.ty \in integerTypes)

comparesAsOneValue(c, t) ==
    \/ t \in numericTypes \cup {Bool, Allocator} \/ isPointerType(t) \/ Is(t, "fn") \/ Is(t, "Handle")
    \/ Len(t) = 1 /\ t[1] \in DOMAIN c.enums \cup DOMAIN c.errorSets

\* The type both sides are read at: a literal takes the other side's type
\* when it fits it.
coerceBinaryLiteral(e, left, right) ==
    CASE left = right -> left
      [] coerceContextualLiteral(e.r, left, right) -> left
      [] coerceContextualLiteral(e.l, right, left) -> right
      [] OTHER -> NoType

checkArithmeticOperands(e, t) ==
    /\ ~(e.op = "&" /\ e.r.k = "borrow")
    /\ t \in numericTypes
    /\ e.op = "%" \/ isBitwise(e.op) => t \in integerTypes
    /\ isShift(e.op) /\ literalIndex(e.r) # <<>> => literalIndex(e.r)[1] >= 0

checkVectorOperands(e, t) ==
    e.op \in {"+", "-", "*"} \/ (e.op = "/" /\ vectorLanes[t[1]][1] \in floatTypes)

checkEquality(c, both, left, right) ==
    /\ both # NoType \/ errorSetFits(c, left, right) \/ errorSetFits(c, right, left)
    /\ comparesAsOneValue(c, IF both # NoType THEN both ELSE left)

checkOperands(c, e, left, right) ==
    LET both == coerceBinaryLiteral(e, left, right)
    IN  CASE e.op \in {"and", "or"} -> left = Bool /\ right = Bool
          [] IsVector(left) \/ IsVector(right) -> both # NoType /\ checkVectorOperands(e, both)
          [] e.op \in {"==", "!="} -> checkEquality(c, both, left, right)
          [] OTHER -> both # NoType /\ checkArithmeticOperands(e, both)

checkBinaryExpr(s, e) ==
    IF e.op \in {"orelse", "catch"} THEN checkOrelseExpr(s, e)
    ELSE LET l == check(s, e.l)
             r == check(l, e.r)
         IN  IF ~l.ok THEN l ELSE IF ~r.ok THEN r
             ELSE Typed(Require(r, checkOperands(s.c, e, l.ty, r.ty)),
                        IF isComparison(e.op) \/ e.op \in {"and", "or", "==", "!="} THEN Bool
                        ELSE coerceBinaryLiteral(e, l.ty, r.ty))

castsCFunctionAddress(source, target) ==
    LET from == IF Is(source, "?") THEN source[2] ELSE source
        to == IF Is(target, "?") THEN target[2] ELSE target
        f(t) == Is(t, "fn") /\ cFunctionPointer(t)
    IN  /\ Is(source, "?") = Is(target, "?")
        /\ f(from) \/ f(to)
        /\ f(from) \/ isPointerType(from)
        /\ f(to) \/ isPointerType(to)

checkCastExpr(s, e) ==
    LET target == parseTypeNode(s.c, s.ps, e.ty)
        r == check(s, e.e)
    IN  IF target = NoType \/ ~r.ok THEN Fail(r)
        ELSE IF r.ty \in numericTypes /\ target \in numericTypes THEN Typed(r, target)
        ELSE IF (isPointerType(r.ty) /\ isPointerType(target)) \/ castsCFunctionAddress(r.ty, target)
        THEN Typed(requireUnsafeCapability(r), target)
        ELSE Fail(r)

(***************************************************************************)
(* Aggregates                                                              *)
(***************************************************************************)
sameUserModule(s, decl) == decl.mod = "" \/ decl.mod = s.mod
checkPrivateFieldAccess(s, decl, f) ==
    \/ f.pub \/ decl.abi # ""
    \/ IF decl.mod = "std" THEN s.std ELSE sameUserModule(s, decl)

\* The field's declaration and its type here.
checkFieldExpr(s, e) ==
    LET r == check(s, e.e)
        t == borrowedValueType(r.ty)
    IN  IF ~r.ok \/ Len(t) # 1 THEN Fail(r)
        ELSE IF t[1] \notin DOMAIN s.c.structs THEN Fail(r)
        ELSE LET decl == s.c.structs[t[1]]
                 fs == declaredField(decl, e.f)
             IN  IF fs = {} THEN Fail(r)
                 ELSE LET f == CHOOSE g \in fs : TRUE
                      IN  Typed(Require(r, checkPrivateFieldAccess(r, decl, f)), f.ty)

\* The value of a field as it is written, before its declaration is compared.
structLiteralFieldValue(s, decl, v) ==
    IF v.e.k # "null" THEN check(s, v.e)
    ELSE LET fs == declaredField(decl, v.name)
             t == (CHOOSE f \in fs : TRUE).ty
         IN  IF fs = {} THEN Fail(s) ELSE Typed(Require(s, takesNull(t)), t)

structLiteralFieldMatches(s, e, want, got) ==
    \/ coerceContextualIntegerLiteral(e, want, got)
    \/ fillsNullablePointer(want, got) \/ wrapsIntoOptional(e, want, got)
    \/ returnValueMatchesBorrowParam(s, e, want, got)

\* The written values in order, each checked against its declaration.
RECURSIVE checkLiteralFields(_, _, _)
checkLiteralFields(s, decl, vs) ==
    IF ~s.ok \/ vs = <<>> THEN s
    ELSE LET r == structLiteralFieldValue(s, decl, vs[1])
             f == CHOOSE g \in declaredField(decl, vs[1].name) : TRUE
         IN  IF ~r.ok THEN r
             ELSE checkLiteralFields(
                    Require(r, /\ checkPrivateFieldAccess(r, decl, f)
                               /\ structLiteralFieldMatches(r, vs[1].e, f.ty, r.ty)),
                    decl, Tail(vs))

checkStructLiteralExpr(s, e) ==
    IF e.name \notin DOMAIN s.c.structs THEN Fail(s)
    ELSE LET decl == s.c.structs[e.name]
             names == NamesOf(e.fields)
             r == requireUnsafeStructInvariant(s, decl)
         IN  Typed(checkLiteralFields(
                Require(r, Distinct(names) /\ Range(names) = Range(NamesOf(decl.fields))), decl, e.fields),
                <<e.name>>)

checkUnionConstructorCall(s, e) ==
    LET vs == variantOf(s.c, e.union, e.tag)
        payload == (CHOOSE v \in vs : TRUE).ty
        r == check(s, e.args[1])
    IN  IF e.union \notin DOMAIN s.c.unions \/ Len(e.args) # 1 THEN Fail(s)
        ELSE IF vs = {} THEN Fail(s) ELSE IF payload = NoType THEN Fail(s) ELSE IF ~r.ok THEN r
        ELSE Typed(Require(r, \/ coerceContextualIntegerLiteral(e.args[1], payload, r.ty)
                              \/ returnValueMatchesBorrowParam(r, e.args[1], payload, r.ty)), <<e.union>>)

\* A tag, an error or a variant without payload, by its name.
checkNamespaceExpr(s, e) ==
    Typed(Require(s, CASE e.ns \in DOMAIN s.c.enums -> Contains(s.c.enums[e.ns].tags, e.name)
                       [] e.ns \in DOMAIN s.c.errorSets ->
                             /\ s.c.errorSets[e.ns].combines = <<>>
                             /\ errorValueKey(e.ns, e.name) \in ErrorValues(s.c, e.ns)
                       [] e.ns \in DOMAIN s.c.unions ->
                             \E v \in variantOf(s.c, e.ns, e.name) : v.ty = NoType
                       [] OTHER -> FALSE), <<e.ns>>)

checkDerefExpr(s, e) ==
    IF e.e.k = "ident" /\ isBorrowed(s, e.e.x) THEN lookup(s, e.e.x)
    ELSE LET r == check(s, e.e)
         IN  CASE ~r.ok -> r
               [] isBorrow(r.ty) -> Typed(r, r.ty[2])
               [] isPointerType(r.ty) -> IF ~derefable(r.ty) THEN Fail(r)
                                         ELSE Typed(requireUnsafeCapability(r), rawPointerDerefType(r.ty))
               [] OTHER -> Fail(r)

(***************************************************************************)
(* Arguments                                                               *)
(***************************************************************************)
\* The value that is passed, a written borrow in accordance with the parameter.
prepareBorrowArgument(s, arg, p) ==
    IF arg.k # "borrow" THEN s
    ELSE LET r == Require(s, /\ p.borrow /\ checkBorrowTargetShape(arg.e, arg.mut)
                             /\ arg.mut = p.mut)
         IN  IF r.ok /\ p.mut THEN requireMutableBorrowArg(r, arg.e, NoType) ELSE r

\* A borrow a call returned goes to a parameter that borrows alike.
coerceReturnedBorrowArgument(got, want, p) ==
    isBorrow(got) /\ p.borrow /\ Is(got, "&var") = p.mut /\ got[2] = want /\ ~isOptional(want)

checkArgument(s, arg, p, want) ==
    LET prepared == prepareBorrowArgument(s, arg, p)
        e == IF arg.k = "borrow" THEN arg.e ELSE arg
        lent == IF prepared.ok /\ p.mut THEN requireMutableBorrowArg(prepared, e, want) ELSE prepared
        r == check(lent, e)
    IN  CASE ~lent.ok -> lent
          [] e.k = "null" -> checkContextualExpr(lent, e, want)
          [] ~r.ok -> r
          [] OTHER -> Require(r, suits(e, want, r.ty) \/ coerceReturnedBorrowArgument(r.ty, want, p))

RECURSIVE checkArguments(_, _, _, _)
checkArguments(s, args, params, wants) ==
    IF ~s.ok \/ params = <<>> THEN s
    ELSE checkArguments(checkArgument(s, args[1], params[1], wants[1]), Tail(args), Tail(params), Tail(wants))

TypesOf(params) == [i \in DOMAIN params |-> params[i].ty]

(***************************************************************************)
(* Instances of generic functions                                          *)
(***************************************************************************)

\* A mutant: an instance is recognised by its function alone.
instanceKeyOfFunction(f, subst, values) == <<f.name, <<>>, <<>>>>

instanceKey(f, subst, values) == <<f.name, subst, values>>

RECURSIVE DefineParams(_, _, _)
DefineParams(s, params, ty) ==
    IF params = <<>> THEN s
    ELSE LET p == params[1]
         IN  DefineParams(defineBinding(s, p.name, Param(ty[1], p.borrow, p.mut, TRUE)), Tail(params), Tail(ty))
RECURSIVE defineStaticValueParams(_, _)
defineStaticValueParams(s, statics) ==
    IF statics = <<>> THEN s
    ELSE LET p == statics[1]
         IN  defineStaticValueParams(
                IF p.ty = TypeType THEN s ELSE defineBinding(s, p.name, Param(p.ty, FALSE, FALSE, FALSE)), Tail(statics))

\* The body with its types and values known, once for each of them.  Only
\* captureCondition is what the caller left it at.
checkGenericInstantiation(s, f, subst, values) ==
    LET key == instanceKey(f, subst, values)
        params == [i \in DOMAIN f.params |-> instanceType(f.params[i].ty, subst, values)]
        ret == instanceType(f.ret, subst, values)
        inside == [s EXCEPT !.scopes = <<<<>>>>, !.mark = "none", !.loops = <<>>, !.ret = ret, !.mod = f.mod,
                            !.std = f.std, !.ps = [enterSignature(f) EXCEPT !.ints = values],
                            !.subst = subst, !.insts = @ \cup {key}, !.depth = @ + 1]
        entered == DefineParams(defineStaticValueParams(inside, f.statics), f.params, params)
        r == checkBlock(entered, f.body)
    IN  CASE ~s.ok \/ key \in s.insts -> s
          [] s.depth >= MaxInstantiationDepth -> Fail(s)
          [] OTHER ->
                [s EXCEPT !.ok = /\ \A i \in DOMAIN params : revalidateSubstituted(s, params[i])
                                 /\ revalidateSubstituted(s, ret)
                                 /\ r.ok /\ (ret # Void => r.returns),
                          !.insts = r.insts]

\* The value of a static argument; a name is a static parameter of the caller.
staticValueOf(s, arg) == IF arg[1] = "x" THEN s.ps.ints[arg[2]] ELSE arg[2]
checkStaticValueArg(s, p, arg) ==
    CASE arg[1] = "x" -> arg[2] \in DOMAIN s.ps.ints
      [] arg[1] = "b" -> p.ty = Bool
      [] arg[1] = "n" -> p.ty # Bool
      [] OTHER -> FALSE
IsValueArg(arg) == arg # NoType /\ arg[1] \in {"n", "b", "x"}
checkStaticArgs(s, f, targs) ==
    /\ Len(targs) = Len(f.statics)
    /\ \A i \in DOMAIN targs :
           IF f.statics[i].ty = TypeType
           THEN ~IsValueArg(targs[i]) /\ parseTypeNode(s.c, s.ps, Substitute(targs[i], s.subst)) # NoType
           ELSE IsValueArg(targs[i]) /\ checkStaticValueArg(s, f.statics[i], targs[i])

StaticParams(f, typed) == {i \in DOMAIN f.statics : (f.statics[i].ty = TypeType) = typed}
Bound(f, idx, Value(_)) ==
    [x \in {f.statics[i].name : i \in idx} |-> Value(CHOOSE i \in idx : f.statics[i].name = x)]

checkGenericWrapperTypeArgs(s, f, subst) ==
    CASE f.name = "Array" -> \A x \in DOMAIN subst : ~rejectArrayStorageType(s.c, subst[x], {})
      [] f.name = "Map" -> IsMapKey(subst[f.statics[1].name])
      [] OTHER -> TRUE

\* A call with static arguments.  An unsafe function asks for no mark here.
checkGenericUserTypeApply(s, e, f) ==
    IF ~checkStaticArgs(s, f, e.targs) \/ Len(e.args) # Len(f.params) THEN Fail(s)
    ELSE LET subst == Bound(f, StaticParams(f, TRUE),
                            LAMBDA i : parseTypeNode(s.c, s.ps, Substitute(e.targs[i], s.subst)))
             values == Bound(f, StaticParams(f, FALSE), LAMBDA i : staticValueOf(s, e.targs[i]))
             wants == [i \in DOMAIN f.params |-> instanceType(f.params[i].ty, subst, values)]
             ret == instanceType(f.ret, subst, values)
             r == Require(s, /\ checkGenericWrapperTypeArgs(s, f, subst)
                             /\ \A i \in DOMAIN wants : ~BadLength(wants[i]) /\ revalidateSubstituted(s, wants[i])
                             /\ ~BadLength(ret))
             passed == checkArguments(r, e.args, f.params, wants)
         IN  IF ~r.ok THEN r ELSE IF ~passed.ok THEN passed
             ELSE Typed(checkGenericInstantiation(passed, f, subst, values), ret)

\* The casts between an integer and a raw pointer.
checkPtrIntCast(s, e) ==
    LET target == parseTypeNode(s.c, s.ps, Substitute(e.targs[1], s.subst))
        m == requireUnsafeCapability(Require(s, Len(e.args) = 1))
        r == check(m, e.args[1])
    IN  IF ~m.ok THEN m ELSE IF ~r.ok THEN r
        ELSE Typed(Require(r, IF e.f = "ptr_from_int" THEN Is(target, "ptr") /\ r.ty \in integerTypes
                              ELSE target \in integerTypes /\ isPointerType(r.ty)), target)

checkArenaTypeApply(s, e) ==
    LET elem == parseTypeNode(s.c, s.ps, Substitute(e.targs[1], s.subst))
        r == check(Require(s, Len(e.args) = 1 /\ elem # NoType), e.args[1])
    IN  IF Len(e.args) # 1 \/ ~r.ok THEN Fail(s) ELSE Typed(Require(r, r.ty = Allocator), <<"Arena", elem>>)

checkTypeApplyCallExpr(s, e) ==
    CASE e.f \in {"ptr_from_int", "int_from_ptr"} -> checkPtrIntCast(s, e)
      [] e.f \in DOMAIN s.c.functions ->
            IF s.c.functions[e.f].statics = <<>> THEN Fail(s) ELSE checkGenericUserTypeApply(s, e, s.c.functions[e.f])
      [] e.f = "arena_new" -> checkArenaTypeApply(s, e)
      [] OTHER -> Fail(s)

(***************************************************************************)
(* Calls by name                                                           *)
(***************************************************************************)
cVariadicArgType(t) ==
    isPointerType(t) \/ t \in {<<n>> : n \in {"i32", "u32", "i64", "u64", "isize", "usize", "f64"}}
checkCVariadicArg(s, arg) ==
    LET lent == prepareBorrowArgument(s, arg, [borrow |-> TRUE, mut |-> arg.mut])
        r == check(lent, arg.e)
        plain == check(s, arg)
    IN  IF arg.k = "borrow" THEN IF r.ok THEN Require(r, isExternStruct(s.c, r.ty)) ELSE r
        ELSE IF plain.ok THEN Require(plain, cVariadicArgType(plain.ty)) ELSE plain
RECURSIVE checkCVariadicArgs(_, _)
checkCVariadicArgs(s, args) ==
    IF ~s.ok \/ args = <<>> THEN s ELSE checkCVariadicArgs(checkCVariadicArg(s, args[1]), Tail(args))

\* A function whose static parameters are all values may be called without them.
checkUserCall(s, e) ==
    IF e.f \notin DOMAIN s.c.functions THEN Fail(s)
    ELSE LET f == s.c.functions[e.f]
             fixed == SubSeq(e.args, 1, Len(f.params))
             r == Require(checkUnsafeCall(s, f),
                          /\ TypeParamNames(f) = {}
                          /\ IF f.variadic THEN Len(e.args) >= Len(f.params) ELSE Len(e.args) = Len(f.params))
         IN  IF ~r.ok THEN r
             ELSE Typed(checkCVariadicArgs(checkArguments(r, fixed, f.params, TypesOf(f.params)),
                                           SubSeq(e.args, Len(f.params) + 1, Len(e.args))), f.ret)

checkFuncPointerCall(s, e) ==
    LET f == binding(s, e.f).typ
        params == [i \in DOMAIN f[3] |-> Lent(f[3][i])]
        m == IF f[5] \/ f[2] = "c" THEN requireUnsafeCapability(lookup(s, e.f)) ELSE lookup(s, e.f)
        r == Require(m, Len(e.args) = Len(f[3]))
    IN  IF r.ok THEN Typed(checkArguments(r, e.args, params, TypesOf(params)), f[4]) ELSE r

checkPrintCall(s, e) ==
    LET r == check(s, e.args[1])
        f == s.c.functions["print"]
    IN  IF Len(e.args) # 1 THEN Fail(s) ELSE IF ~r.ok \/ r.ty = Void THEN Fail(r)
        ELSE Typed(checkGenericInstantiation(r, f, f.statics[1].name :> r.ty, <<>>), Void)

ptrBuiltins ==
    {"ptr_read", "ptr_write", "ptr_of", "mut_ptr_of", "ptr_offset", "view_from_ptr", "mut_view_from_ptr",
     "volatile_read", "volatile_write"}

\* A view lends its address without a mark.
checkPtrOf(s, e) ==
    LET r == check(s, e.args[1])
    IN  IF Len(e.args) # 1 THEN Fail(s) ELSE IF ~r.ok \/ ~isSliceType(r.ty) THEN Fail(r)
        ELSE IF e.f = "ptr_of" THEN Typed(r, <<"ptr", <<"const", r.ty[2]>>>>)
        ELSE Typed(Require(r, e.args[1].k = "ident" /\ isMutBorrowed(r, e.args[1].x)), <<"ptr", r.ty[2]>>)

\* What is done through a raw pointer; the pointer is not null.
checkPtrBuiltinCall(s, e) ==
    LET writes == e.f \in {"ptr_write", "volatile_write"}
        m == requireUnsafeCapability(Require(s, Len(e.args) = IF e.f \in {"ptr_read", "volatile_read"} THEN 1 ELSE 2))
        p == check(m, e.args[1])
    IN  CASE e.f \in {"ptr_of", "mut_ptr_of"} -> checkPtrOf(s, e)
          [] e.f \in {"view_from_ptr", "mut_view_from_ptr"} \/ ~m.ok -> Fail(m)
          [] ~p.ok -> p
          [] ~Is(p.ty, "ptr") \/ (writes /\ Is(p.ty[2], "const")) -> Fail(p)
          [] writes -> Typed(checkContextualExpr(p, e.args[2], p.ty[2]), Void)
          [] e.f = "ptr_offset" -> Typed(checkContextualExpr(p, e.args[2], I64), p.ty)
          [] OTHER -> Typed(p, rawPointerDerefType(p.ty))

checkNamedCall(s, e) ==
    CASE e.f = "print" -> checkPrintCall(s, e)
      [] e.f \in ptrBuiltins -> checkPtrBuiltinCall(s, e)
      [] e.f = "Io" -> Fail(s)
      [] bound(s, e.f) ->
            IF Is(binding(s, e.f).typ, "fn") THEN checkFuncPointerCall(s, e) ELSE checkUserCall(lookup(s, e.f), e)
      [] OTHER -> checkUserCall(s, e)

(***************************************************************************)
(* Methods                                                                 *)
(***************************************************************************)
MemError == <<"MemError">>
Fallible(set) == <<"!", <<set>>, Void>>

\* The arguments of a method of std: a written borrow is an expression here.
RECURSIVE checkStdArguments(_, _, _, _)
checkStdArguments(s, args, params, wants) ==
    IF ~s.ok \/ params = <<>> THEN s
    ELSE LET r == check(s, args[1])
             given == IF args[1].k = "null" THEN checkContextualExpr(s, args[1], wants[1])
                      ELSE IF ~r.ok THEN r
                      ELSE Require(r, \/ suits(args[1], wants[1], r.ty)
                                      \/ coerceReturnedBorrowArgument(r.ty, wants[1], params[1]))
         IN  checkStdArguments(given, Tail(args), Tail(params), Tail(wants))

\* A method std declares for a generic type: its body is an instance.
checkStdMethod(s, base, elem, e) ==
    LET impl == implMethod(s.c, base, e.name)
        f == impl[1]
        subst == [x \in TypeParamNames(f) |-> elem]
        r == IF f.body = <<>> THEN s ELSE checkGenericInstantiation(s, f, subst, <<>>)
        wants == [i \in 1 .. Len(f.params) - 1 |-> Substitute(f.params[i + 1].ty, subst)]
        ret == Substitute(f.ret, subst)
    IN  IF impl = <<>> THEN Fail(s)
        ELSE IF ~r.ok \/ Len(e.args) # Len(f.params) - 1 THEN Fail(r)
        ELSE LET passed == checkStdArguments(r, e.args, Tail(f.params), wants)
             IN  Typed(Require(passed, revalidateSubstituted(s, ret)), ret)

\* A borrow out of a container is read by a capture; its arguments are not.
captured(s, Method(_)) ==
    IF ~s.capture THEN Fail(s) ELSE [Method([s EXCEPT !.capture = FALSE]) EXCEPT !.capture = TRUE]

checkArrayReceiverMethod(s, e, elem) ==
    LET r == Require(s, /\ arrayMethodRequiresMutableReceiver(e.name) => ~sharedBorrow(s, e.on)
                        /\ e.name = "at_mut" => mutableReceiverPlace(s, e.on))
    IN  CASE ~r.ok -> r
          [] e.name \in {"as_bytes", "as_mut_bytes"} ->
                Typed(Require(r, s.std /\ isViewElem(s.c, s.ps, elem) /\ e.args = <<>>),
                      IF e.name = "as_bytes" THEN <<"[]", elem>> ELSE <<"&var", <<"[]", elem>>>>)
          [] e.name \in {"as_slice", "as_mut_slice"} -> Fail(r)
          [] e.name \in {"at", "at_mut"} -> captured(r, LAMBDA m : checkStdMethod(m, "Array", elem, e))
          [] OTHER -> checkStdMethod(
                Require(r, /\ e.name \in {"get", "get_or_panic", "clone"} => isCopyType(s.c, elem)
                           /\ e.name = "append_bytes" => elem = U8
                           /\ e.name = "set" => ~ownerType(s.c, elem)), "Array", elem, e)

\* The parameters and the result of a map's method, as <<params, result>>.
mapMethod(key, value, name) ==
    CASE name = "insert" -> <<<<Allocator, key, value>>, Fallible("MemError")>>
      [] name = "get" -> <<<<key>>, <<"?", value>>>>
      [] name = "remove" -> <<<<Allocator, key>>, <<"?", value>>>>
      [] name = "at" -> <<<<key>>, <<"?", <<"&", value>>>>>>
      [] name = "at_mut" -> <<<<key>>, <<"?", <<"&var", value>>>>>>
      [] name = "key_at" -> <<<<I64>>, <<"?", key>>>>
      [] name = "contains" -> <<<<key>>, Bool>>
      [] name = "len" -> <<<<>>, I64>>
      [] name = "deinit" -> <<<<Allocator>>, Void>>
      [] OTHER -> <<>>

stringMethod(name) ==
    CASE name = "append_bytes" -> <<<<Allocator, Bytes>>, Fallible("MemError")>>
      [] name = "append_byte" -> <<<<Allocator, U8>>, Fallible("MemError")>>
      [] name = "append_string" -> <<<<Allocator, <<"String">>>>, Fallible("MemError")>>
      [] name = "reserve" -> <<<<Allocator, I64>>, Fallible("GrowError")>>
      [] name = "truncate" -> <<<<I64>>, Fallible("StringError")>>
      [] name \in {"len", "capacity"} -> <<<<>>, I64>>
      [] name = "clear" -> <<<<>>, Void>>
      [] name = "deinit" -> <<<<Allocator>>, Void>>
      [] OTHER -> <<>>
isStringMutatingMethod(name) ==
    name \in {"append_bytes", "append_byte", "append_string", "reserve", "truncate", "clear", "deinit"}

RECURSIVE checkContextualArgs(_, _, _)
checkContextualArgs(s, args, wants) ==
    IF ~s.ok \/ args = <<>> THEN s
    ELSE checkContextualArgs(checkContextualExpr(s, args[1], wants[1]), Tail(args), Tail(wants))
checkSignature(s, e, sig) ==
    IF sig = <<>> THEN Fail(s)
    ELSE LET r == Require(s, Len(e.args) = Len(sig[1]))
         IN  IF r.ok THEN Typed(checkContextualArgs(r, e.args, sig[1]), sig[2]) ELSE r

checkMapReceiverMethod(s, e, map) ==
    LET sig == mapMethod(map[2], map[3], e.name)
        r == Require(s, /\ e.name = "deinit" => ~borrowedIdent(s, e.on)
                        /\ e.name = "insert" => ~sharedBorrow(s, e.on)
                        /\ e.name = "at_mut" => mutableReceiverPlace(s, e.on)
                        /\ e.name = "get" => isGenericParamType(s, map[3]) \/ isCopyType(s.c, map[3]))
    IN  IF ~r.ok THEN r
        ELSE IF e.name \in {"at", "at_mut"} THEN captured(r, LAMBDA m : checkSignature(m, e, sig))
        ELSE checkSignature(r, e, sig)

checkStringReceiverMethod(s, e) ==
    checkSignature(Require(s, /\ e.name = "deinit" => ~borrowedIdent(s, e.on)
                              /\ isStringMutatingMethod(e.name) => ~sharedBorrow(s, e.on)), e, stringMethod(e.name))

checkBoxReceiverMethod(s, e, elem) ==
    CASE e.name \in {"borrow", "borrow_mut"} -> Fail(s)
      [] e.name = "take" -> checkStdMethod(Require(s, e.on.k = "ident"), "Box", elem, e)
      [] OTHER -> checkStdMethod(
            Require(s, e.name = "deinit" /\ (e.on.k = "ident" \/ directFieldCleanupReceiver(s, e.on))), "Box", elem, e)

checkArenaReceiverMethod(s, e, elem) ==
    CASE e.name = "at_mut" ->
            captured(Require(s, mutableReceiverPlace(s, e.on)), LAMBDA m : checkStdMethod(m, "Arena", elem, e))
      [] e.name = "deinit" ->
            checkStdMethod(Require(s, /\ e.on.k = "ident" \/ directFieldCleanupReceiver(s, e.on)
                                      /\ ~borrowedIdent(s, e.on)), "Arena", elem, e)
      [] OTHER -> checkStdMethod(s, "Arena", elem, e)

\* A method the program declares: self, and the arguments after it.
checkMethodArgs(s, e, receiver, f) ==
    LET self == Require(s, /\ f.params # <<>> /\ Len(e.args) = Len(f.params) - 1
                           /\ f.params[1].ty = receiver
                           /\ f.params[1].mut => mutableReceiverPlace(s, e.on))
        r == IF f.unsafe THEN requireUnsafeCapability(self) ELSE self
    IN  IF r.ok THEN Typed(checkArguments(r, e.args, Tail(f.params), TypesOf(Tail(f.params))), f.ret) ELSE r

checkMethodCallExpr(s, e) ==
    LET r == check(s, e.on)
        t == borrowedValueType(r.ty)
    IN  CASE ~checkMethodReceiverPath(e) \/ ~r.ok -> Fail(r)
          [] Is(t, "Array") -> checkArrayReceiverMethod(r, e, t[2])
          [] Is(t, "Map") -> checkMapReceiverMethod(r, e, t)
          [] Is(t, "Box") -> checkBoxReceiverMethod(r, e, t[2])
          [] t = <<"String">> -> checkStringReceiverMethod(r, e)
          [] Is(t, "Arena") -> checkArenaReceiverMethod(r, e, t[2])
          [] OTHER -> LET impl == IF IsName(t) /\ Len(t) = 1 THEN implMethod(s.c, t[1], e.name) ELSE <<>>
                      IN  IF impl = <<>> THEN Fail(r) ELSE checkMethodArgs(r, e, t, impl[1])

(***************************************************************************)
(* Expressions                                                             *)
(***************************************************************************)
\* A borrow out of a container is not a value: a capture reads it.
checkCallExpr(s, e) ==
    LET r == CASE e.k = "call" -> checkNamedCall(s, e)
               [] e.k = "apply" -> checkTypeApplyCallExpr(s, e)
               [] e.k = "make" -> checkUnionConstructorCall(s, e)
               [] OTHER -> checkMethodCallExpr(s, e)
    IN  IF r.ok THEN Require(r, BorrowOptional(r.ty) => r.capture) ELSE r

checkExprForm(s, e) ==
    CASE e.k = "null" -> Fail(s)
      [] literalType(e) # NoType -> Typed(s, literalType(e))
      [] e.k = "type" -> Typed(Require(s, parseTypeNode(s.c, s.ps, e.ty) # NoType), TypeType)
      [] e.k = "ident" -> checkIdentExpr(s, e)
      [] e.k = "borrow" -> checkBorrowPrefix(s, e)
      [] e.k = "prefix" -> checkPrefixExpr(s, e)
      [] e.k = "binary" -> checkBinaryExpr(s, e)
      [] e.k \in {"call", "apply", "make", "method"} -> checkCallExpr(s, e)
      [] e.k = "cast" -> checkCastExpr(s, e)
      [] e.k = "try" -> checkTryExpr(s, e)
      [] e.k = "unsafe" -> underMark(s, e, LAMBDA m : check(m, e.e))
      [] e.k = "move" -> check(s, e.e)
      [] e.k \in {"index", "slice"} -> checkIndexExpr(s, e)
      [] e.k = "field" -> checkFieldExpr(s, e)
      [] e.k = "ns" -> checkNamespaceExpr(s, e)
      [] e.k = "deref" -> checkDerefExpr(s, e)
      [] e.k = "lit" -> checkStructLiteralExpr(s, e)
      [] e.k = "vector" -> checkVectorLiteralExpr(s, e)
      [] e.k = "array" -> checkArrayLiteralExpr(s, e)
      [] e.k = "if" -> checkIfExpr(s, e)
      [] e.k = "match" -> checkMatchExpr(s, e)
      [] e.k \in {"orelse_guard", "catch_guard"} -> checkGuardExpr(s, e)
      [] OTHER -> Fail(s)
check(s, e) == IF s.ok THEN checkExprForm(s, e) ELSE s

(***************************************************************************)
(* Check: the declarations, then every body                                *)
(***************************************************************************)
checkMainReturnType(f) ==
    f.name = "main" => f.ret = Void \/ (isErrorUnion(f.ret) /\ f.ret[3] \in {Void, <<"ExitStatus">>})

\* The body of f; implicit when it may end without a return (a test).
checkFunction(s, f, implicit) ==
    IF ~s.ok \/ f.abi # "" \/ HasValueStaticParam(f) THEN s
    ELSE LET inside == [s EXCEPT !.scopes = <<<<>>>>, !.ret = f.ret, !.mod = f.mod, !.std = f.std,
                                 !.ps = enterSignature(f), !.loops = <<>>]
             r == checkBlock(DefineParams(inside, f.params, TypesOf(f.params)), f.body)
         IN  [s EXCEPT !.ok = r.ok /\ checkMainReturnType(f) /\ (f.ret # Void /\ ~implicit => r.returns),
                       !.insts = r.insts]

checkTestDecl(s, d) ==
    checkFunction(s, [name |-> "test", abi |-> "", statics |-> <<>>, params |-> <<>>, body |-> d.body,
                      mod |-> d.mod, std |-> FALSE, ret |-> <<"!", NoType, Void>>], TRUE)

\* A generic body is checked where it is instantiated.
checkDecl(s, d) ==
    CASE d.k = "fn" /\ TypeParamNames(d) = {} -> checkFunction(s, s.c.functions[d.name], FALSE)
      [] d.k = "test" -> checkTestDecl(s, d)
      [] OTHER -> s

RECURSIVE checkDecls(_, _)
checkDecls(s, decls) == IF decls = <<>> \/ ~s.ok THEN s ELSE checkDecls(checkDecl(s, decls[1]), Tail(decls))

Check(c, decls) ==
    LET st == CheckDecls(c, decls)
        s == [ok |-> TRUE, ty |-> NoType, returns |-> FALSE, scopes |-> <<>>, mark |-> "none", loops |-> <<>>,
              capture |-> FALSE, ret |-> Void, mod |-> "", std |-> FALSE, ps |-> NoParams, subst |-> <<>>,
              insts |-> {}, depth |-> 0, c |-> st.c]
    IN  IF st.ok THEN checkDecls(s, decls) ELSE [s EXCEPT !.ok = FALSE]

=============================================================================
