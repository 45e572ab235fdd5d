----------------------------- MODULE TypeScope ------------------------------
(***************************************************************************)
(* What internal/types threads through a body: scopes, the unsafe mark and *)
(* the shapes of places; and the single questions TypeCheck asks of a      *)
(* name, a target, an operator or a receiver.                              *)
(*                                                                         *)
(* The state s of a check:                                                  *)
(*   ok       no error so far (Check stops at the first one)                *)
(*   ty       the type of the expression read last                          *)
(*   returns  the statement read last leaves the function on every path     *)
(*   scopes   the chain of scopes, innermost last: name -> binding          *)
(*   mark     unsafeMark: "none", or "idle" and "used" below an unsafe      *)
(*   loops    loopLabels, "" for a loop without one                         *)
(*   capture  captureCondition                                              *)
(*   ret      currentReturn          mod   the module of the source read    *)
(*   std      currentStd             ps    typeParams and the bound ints     *)
(*   subst    typeArgValues          insts checkedInstances                  *)
(*   depth    the instantiations open                                       *)
(*   c        checkerMetadata                                               *)
(* The sources a borrow binding records are left out: no rule reads them.   *)
(***************************************************************************)
EXTENDS TypeDecls

Fail(s) == [s EXCEPT !.ok = FALSE]
Require(s, holds) == IF s.ok /\ holds THEN s ELSE Fail(s)
Then(s, Next(_)) == IF s.ok THEN Next(s) ELSE s
Typed(s, t) == [s EXCEPT !.ty = t]

(***************************************************************************)
(* Scopes (scope.go)                                                       *)
(***************************************************************************)
Plain(t, mutable) ==
    [typ |-> t, mutable |-> mutable, borrowed |-> FALSE, mutBorrow |-> FALSE,
     signatureParam |-> FALSE, unread |-> FALSE]
Param(t, borrowed, mutBorrow, signatureParam) ==
    [Plain(t, FALSE) EXCEPT !.borrowed = borrowed, !.mutBorrow = mutBorrow,
                            !.signatureParam = signatureParam]

child(s) == [s EXCEPT !.scopes = Append(@, <<>>)]
leave(s) == [s EXCEPT !.scopes = Front(@)]

\* `_` drops the value; a name is bound once in a scope.
defineBinding(s, x, b) ==
    IF x = "_" THEN s
    ELSE [Require(s, x \notin DOMAIN Last(s.scopes)) EXCEPT
             !.scopes = Append(Front(@), With(Last(@), x, b))]

declareLocal(s, x) ==
    IF x = "_" \/ ~s.ok THEN s ELSE [s EXCEPT !.scopes[Len(s.scopes)][x].unread = TRUE]

bound(s, x) == \E i \in DOMAIN s.scopes : x \in DOMAIN s.scopes[i]
scopeOf(s, x) ==
    CHOOSE i \in DOMAIN s.scopes :
        x \in DOMAIN s.scopes[i] /\ \A j \in i + 1 .. Len(s.scopes) : x \notin DOMAIN s.scopes[j]
binding(s, x) == s.scopes[scopeOf(s, x)][x]

\* The name is read, and its type is what was found.
lookup(s, x) ==
    IF ~bound(s, x) THEN Fail(s)
    ELSE [s EXCEPT !.ty = binding(s, x).typ, !.scopes[scopeOf(s, x)][x].unread = FALSE]

isMutable(s, x) == bound(s, x) /\ binding(s, x).mutable
isMutBorrowedParam(s, x) == bound(s, x) /\ binding(s, x).mutBorrow /\ binding(s, x).signatureParam
isBorrowed(s, x) == bound(s, x) /\ binding(s, x).borrowed
isMutBorrowed(s, x) == bound(s, x) /\ binding(s, x).mutBorrow

unreadLocalError(s) == \E b \in Range(Last(s.scopes)) : b.unread

(***************************************************************************)
(* The unsafe mark (unsafe.go)                                             *)
(***************************************************************************)
use(s) == IF s.mark = "none" THEN Fail(s) ELSE [s EXCEPT !.mark = "used"]
requireUnsafeCapability(s) == IF s.ok THEN use(s) ELSE s

\* An unsafe covers something that needs it, and a comment says why it holds.
closeMark(outer, r, e) == [Require(r, r.mark = "used" /\ e.safety) EXCEPT !.mark = outer.mark]
underMark(s, e, Check(_)) == closeMark(s, Check([s EXCEPT !.mark = "idle"]), e)

\* The invariant of an unsafe struct is written in its file alone.
requireUnsafeStructInvariant(s, decl) ==
    IF ~decl.unsafe THEN s ELSE requireUnsafeCapability(Require(s, decl.mod = s.mod))

(***************************************************************************)
(* Shapes of places                                                        *)
(***************************************************************************)
RECURSIVE FieldPathRoot(_)
\* The name a chain of fields starts from, "" when there is none.
FieldPathRoot(e) ==
    CASE e.k # "field" -> ""
      [] e.e.k = "ident" -> e.e.x
      [] OTHER -> FieldPathRoot(e.e)
mutablePlaceBase(e) == IF e.k = "ident" THEN e.x ELSE FieldPathRoot(e)
captureReceiverShape(e) == mutablePlaceBase(e) # ""
boxBorrowMutReceiverIsMutable(s, e) == isMutable(s, mutablePlaceBase(e))

isViewMethodName(name) == name \in {"as_bytes", "as_mut_bytes", "as_slice", "as_mut_slice"}

\* What a view of the receiver is; NoType when it has none.
viewOfReceiver(s, t, method) ==
    LET bytes == method \in {"as_bytes", "as_mut_bytes"}
    IN  CASE t = <<"String">> -> IF bytes THEN Bytes ELSE NoType
          [] Is(t, "Array") -> IF ~bytes /\ t[2] # U8 /\ isViewElem(s.c, s.ps, t[2]) THEN <<"[]", t[2]>> ELSE NoType
          [] isBufferType(t) -> IF bytes = (t[3] = U8) THEN <<"[]", t[3]>> ELSE NoType
          [] OTHER -> NoType

(***************************************************************************)
(* Literals                                                                *)
(***************************************************************************)
\* The value of a literal index, as <<n>>.
RECURSIVE literalIndex(_)
literalIndex(e) ==
    CASE e.k = "int" -> <<e.n>>
      [] e.k = "prefix" /\ e.op = "-" /\ literalIndex(e.e) # <<>> -> <<-literalIndex(e.e)[1]>>
      [] OTHER -> <<>>

RECURSIVE zeroFillable(_)
zeroFillable(t) == t \in numericTypes \cup {Bool} \/ (isBufferType(t) /\ zeroFillable(t[3]))

literalType(e) ==
    CASE e.k = "int" -> I64
      [] e.k = "float" -> <<"f64">>
      [] e.k = "bytes" -> Bytes
      [] e.k = "cstring" -> <<"ptr", <<"const", U8>>>>
      [] e.k = "bool" -> Bool
      [] OTHER -> NoType

(***************************************************************************)
(* Matching                                                                *)
(***************************************************************************)
\* The key an arm covers and the payload it may bind, as <<key, payload>>;
\* <<>> when the arm does not fit the value.
errorMatchArmValue(c, set, arm) ==
    LET origins == {v \in ErrorValues(c, set) : v[2] = arm.tag}
        named == errorValueKey(arm.set, arm.tag)
    IN  IF arm.bind # "" THEN <<>>
        ELSE IF arm.set # ""
        THEN IF /\ arm.set \in DOMAIN c.errorSets /\ c.errorSets[arm.set].combines = <<>>
                /\ named \in ErrorValues(c, set)
             THEN <<named, NoType>> ELSE <<>>
        ELSE IF Cardinality(origins) = 1 THEN <<CHOOSE v \in origins : TRUE, NoType>> ELSE <<>>

variantOf(c, union, tag) == {v \in Range(c.unions[union].variants) : v.name = tag}

matchPayloadType(c, t, arm) ==
    CASE arm.set # "" -> <<>>
      [] t[1] \in DOMAIN c.enums ->
            IF Contains(c.enums[t[1]].tags, arm.tag) /\ arm.bind = "" THEN <<arm.tag, NoType>> ELSE <<>>
      [] OTHER ->
            LET vs == variantOf(c, t[1], arm.tag)
            IN  IF vs = {} \/ (arm.bind # "" /\ \A v \in vs : v.ty = NoType) THEN <<>>
                ELSE <<arm.tag, (CHOOSE v \in vs : TRUE).ty>>

armKey(c, t, arm) ==
    IF isErrorSet(c, t) THEN errorMatchArmValue(c, t[1], arm) ELSE matchPayloadType(c, t, arm)

matches(c, t) == Len(t) = 1 /\ t[1] \in DOMAIN c.errorSets \cup DOMAIN c.enums \cup DOMAIN c.unions

matchVariantCount(c, t) ==
    CASE isErrorSet(c, t) -> Cardinality(ErrorValues(c, t[1]))
      [] t[1] \in DOMAIN c.enums -> Len(c.enums[t[1]].tags)
      [] OTHER -> Len(c.unions[t[1]].variants)

\* Every tag once; without a wildcard, which comes last, all of them.
armsCover(c, t, arms) ==
    LET wild == {i \in DOMAIN arms : arms[i].tag = "_"}
        keys == [i \in DOMAIN arms \ wild |-> armKey(c, t, arms[i])]
    IN  /\ \A i \in wild : i = Len(arms) /\ arms[i].bind = ""
        /\ \A i \in DOMAIN keys : keys[i] # <<>>
        /\ \A i, j \in DOMAIN keys : keys[i][1] = keys[j][1] => i = j
        /\ wild = {} => Cardinality(DOMAIN keys) = matchVariantCount(c, t)

payloadBindsByReference(c, t) ==
    \/ Len(t) = 1 /\ t[1] \in DOMAIN c.structs \cup DOMAIN c.unions
    \/ ownerType(c, t)

matchPayloadReferenceRoot(s, e, payload) ==
    LET root == mutablePlaceBase(e)
    IN  /\ payloadBindsByReference(s.c, payload) /\ root # ""
        /\ isMutBorrowed(s, root) \/ (e.k # "ident" /\ isMutable(s, root))

\* The payload of an owner reached through a mutable place is a reference to it.
defineMatchArmBinding(s, e, arm, payload) ==
    IF payload = NoType \/ arm.bind = "" THEN s
    ELSE defineBinding(s, arm.bind, IF matchPayloadReferenceRoot(s, e, payload)
                                    THEN Param(payload, TRUE, TRUE, FALSE) ELSE Plain(payload, FALSE))

(***************************************************************************)
(* Loops                                                                   *)
(***************************************************************************)
enterLoop(s, label) ==
    [Require(s, label = "" \/ ~Contains(s.loops, label)) EXCEPT !.loops = Append(@, label)]
leaveLoop(s) == [s EXCEPT !.loops = Front(@)]
checkLoopBranch(s, label) ==
    Require(s, s.loops # <<>> /\ (label = "" \/ Contains(s.loops, label)))

-----------------------------------------------------------------------------
(***************************************************************************)
(* A value where a type is wanted                                          *)
(***************************************************************************)

errorUnionFits(c, want, got) ==
    \/ absorbsErrorUnion(want, got)
    \/ /\ isErrorUnion(want) /\ want[2] # NoType /\ isErrorUnion(got) /\ got[2] # NoType
       /\ got[3] = want[3] /\ errorSetFits(c, got[2], want[2])

acceptsBareReturn(want) == unwrapReturnSuccessType(want) = Void

(***************************************************************************)
(* Let                                                                     *)
(***************************************************************************)
deref(e) == e.k = "unsafe" /\ e.e.k = "borrow" /\ e.e.e.k = "deref"

(***************************************************************************)
(* Assignment                                                              *)
(***************************************************************************)

checkAssignableIdent(s, e) ==
    Require(lookup(s, e.x), isMutable(s, e.x) \/ isMutBorrowedParam(s, e.x))

(***************************************************************************)
(* Conditions: a bool, or a value the branch opens                         *)
(***************************************************************************)
mayBorrowContainer(e) == e.k = "call" \/ (e.k = "method" /\ captureReceiverShape(e.on))

\* A branch is a scope of its own, with what the condition opened in it.
enterBranch(s, name, opened) ==
    IF opened = <<>> THEN child(s) ELSE defineBinding(child(s), name, opened[1])

(***************************************************************************)
(* Statements                                                              *)
(***************************************************************************)
isBuiltinCallName(name) ==
    name \in {"print", "ptr_read", "ptr_write", "ptr_of", "mut_ptr_of", "ptr_offset", "view_from_ptr",
              "mut_view_from_ptr", "volatile_read", "volatile_write", "Io"}

(***************************************************************************)
(* Optionals and error unions                                              *)
(***************************************************************************)
catchSuccessType(t) == IF isErrorUnion(t) /\ t[2] # NoType THEN t[3] ELSE NoType

(***************************************************************************)
(* Names, borrows and operators                                            *)
(***************************************************************************)
PointerABI(f) == IF f.abi = "c" \/ f.export = "c" THEN "c" ELSE ""

sliceBorrowTarget(e) == e.k = "slice" /\ e.e.k = "ident"

isComparison(op) == op \in {"<", "<=", ">", ">="}
isShift(op) == op \in {"<<", ">>"}
isBitwise(op) == op \in {"&", "|", "^"} \/ isShift(op)

(***************************************************************************)
(* Aggregates                                                              *)
(***************************************************************************)

declaredField(decl, name) == {f \in Range(decl.fields) : f.name = name}

(***************************************************************************)
(* Arguments                                                               *)
(***************************************************************************)
Lent(t) == [ty |-> borrowedValueType(t), borrow |-> isBorrow(t), mut |-> Is(t, "&var")]

(***************************************************************************)
(* Instances of generic functions                                          *)
(***************************************************************************)
\* A substituted optional or error union is one that may be written.
revalidateSubstituted(s, t) ==
    (\E node \in Walk(t) : Is(node, "?") \/ Is(node, "!")) => parseTypeNode(s.c, s.ps, t) # NoType

(***************************************************************************)
(* Calls by name                                                           *)
(***************************************************************************)

checkUnsafeCall(s, f) == IF f.abi # "" \/ f.unsafe THEN requireUnsafeCapability(s) ELSE s

(***************************************************************************)
(* Methods                                                                 *)
(***************************************************************************)

mutableReceiverPlace(s, e) ==
    LET base == mutablePlaceBase(e) IN base # "" /\ (isMutable(s, base) \/ isMutBorrowed(s, base))
sharedBorrow(s, e) == e.k = "ident" /\ isBorrowed(s, e.x) /\ ~isMutBorrowed(s, e.x)
borrowedIdent(s, e) == e.k = "ident" /\ isBorrowed(s, e.x)
directFieldCleanupReceiver(s, e) == e.k = "field" /\ e.e.k = "ident" /\ bound(s, e.e.x)

\* A field that is a receiver is a path of fields; cleanup takes one step.
checkMethodReceiverPath(e) ==
    e.on.k = "field" => FieldPathRoot(e.on) # "" /\ (e.name = "deinit" => e.on.e.k = "ident")

arrayMethodRequiresMutableReceiver(name) == name \in {"swap", "remove", "truncate", "clear"}

\* A name that starts with a capital is taken for a type parameter: the names
\* of the program's own types do.
isGenericParamType(s, t) == IsName(t) /\ t[1] \in s.ps.types \cup DOMAIN s.c.structs \cup DOMAIN s.c.unions

=============================================================================
