----------------------------- MODULE TypeDecls ------------------------------
(***************************************************************************)
(* Types as internal/types and internal/typ read them, and the tables of    *)
(* declarations the checker asks about them.                                *)
(*                                                                         *)
(* A type is a tuple whose head is a string: <<"i64">>, <<"Point">>,        *)
(* <<"Array", t>>, <<"ptr", <<"const", t>>>> are names with arguments, and  *)
(* the other forms are <<"?", t>>, <<"!", e, t>> (e = <<>> when no set is   *)
(* declared), <<"&", t>>, <<"&var", t>>, <<"[]", t>>, <<"[n]", 3, t>>,      *)
(* <<"[N]", "N", t>> (a length that is a static parameter) and              *)
(* <<"fn", abi, params, result, unsafe>>.  Array, Map, Box, Arena, Handle   *)
(* and String stand for the std types of those names.                      *)
(*                                                                         *)
(* c is checkerMetadata: the tables structs, unions, enums, errorSets,      *)
(* contracts, functions and impls, declaredTypes and deinitOwners.  ps is a *)
(* typeParamScope with the bound lengths: [types, lengths, ints].           *)
(*                                                                         *)
(* Collecting the declarations of a program (internal/types/checker.go,     *)
(* collectFunctions to checkOwnerUnionContracts): the tables, and the rules *)
(* a declaration keeps.  A declaration is a record whose field k names its  *)
(* form; st is [ok, c], the tables so far.                                  *)
(***************************************************************************)
EXTENDS Integers, Sequences, FiniteSets, SequencesExt, Functions, TLC

Void == <<"void">>
Bool == <<"bool">>
I64 == <<"i64">>
U8 == <<"u8">>
Bytes == <<"[]", U8>>
Allocator == <<"Allocator">>
TypeType == <<"type">>
NoType == <<>>

integerTypes == {<<n>> : n \in {"i8", "i16", "i32", "i64", "u8", "u16", "u32", "u64", "usize", "isize"}}
floatTypes == {<<"f32">>, <<"f64">>}
numericTypes == integerTypes \cup floatTypes
signedNumericTypes == {<<n>> : n \in {"i8", "i16", "i32", "i64", "isize", "f32", "f64"}}
vectorLanes == [f64x2 |-> <<<<"f64">>, 2>>, i64x2 |-> <<I64, 2>>, i32x4 |-> <<<<"i32">>, 4>>,
                u32x4 |-> <<<<"u32">>, 4>>]
knownTypes ==
    {n[1] : n \in numericTypes} \cup DOMAIN vectorLanes
    \cup {"bool", "void", "Field", "Function", "type", "Io", "Allocator", "Metadata", "DirEntry", "String"}
copyTypes == {Bool, Bytes, Void, <<"Io">>, Allocator, <<"Metadata">>} \cup numericTypes
isKnownGenericBase(name) == name \in {"Box", "Map", "ptr", "Arena", "Handle", "Array"}

(***************************************************************************)
(* The forms of a type                                                     *)
(***************************************************************************)
Is(t, head) == t # NoType /\ t[1] = head
IsName(t) == t # NoType /\ t[1] \notin {"?", "!", "&", "&var", "[]", "[n]", "[N]", "fn", "const"}
isSliceType(t) == Is(t, "[]")
isBufferType(t) == Is(t, "[n]") \/ Is(t, "[N]")
isPointerType(t) == Is(t, "ptr") \/ (Is(t, "?") /\ Is(t[2], "ptr"))
isErrorUnion(t) == Is(t, "!")
IsVector(t) == t # NoType /\ t[1] \in DOMAIN vectorLanes
funcPointerNode(t) == IF Is(t, "?") /\ Is(t[2], "fn") THEN t[2] ELSE t
\* ?T is an optional, except ?ptr<T>, which is a pointer that may be null.
isOptional(t) == Is(t, "?") /\ ~Is(t[2], "ptr")
\* What a capture or an orelse opens.
takesNull(t) == Is(t, "?")
isBorrow(t) == Is(t, "&") \/ Is(t, "&var")
BorrowOptional(t) == Is(t, "?") /\ isBorrow(t[2])
borrowedValueType(t) == IF isBorrow(t) THEN t[2] ELSE t
borrowWrappedType(borrow, mut, t) == IF ~borrow THEN t ELSE IF mut THEN <<"&var", t>> ELSE <<"&", t>>
fillsNullablePointer(want, got) == Is(want, "?") /\ Is(want[2], "ptr") /\ want[2] = got

parts(t) ==
    CASE Is(t, "[n]") \/ Is(t, "[N]") -> <<t[3]>>
      [] Is(t, "!") -> IF t[2] = NoType THEN <<t[3]>> ELSE <<t[2], t[3]>>
      [] Is(t, "fn") -> Append(t[3], t[4])
      [] OTHER -> Tail(t)

RECURSIVE Walk(_)
Walk(t) == {t} \cup UNION {Walk(parts(t)[i]) : i \in DOMAIN parts(t)}

containsNamedType(t, names) == \E node \in Walk(t) : IsName(node) /\ node[1] \in names
containsRawPointer(t) == containsNamedType(t, {"ptr"})
containsTypeValue(t) == containsNamedType(t, {"type"})
containsCompileTimeOnly(t) == containsNamedType(t, {"Function", "Field"})
containsBorrowOptional(t) == \E node \in Walk(t) : BorrowOptional(node)
referencedTypeNames(t) == {node[1] : node \in {n \in Walk(t) : IsName(n)}}

unwrapReturnSuccessType(t) == IF isErrorUnion(t) THEN t[3] ELSE t

\* !T declares no error set, and takes an E!T with E absorbed.
absorbsErrorUnion(want, got) ==
    /\ isErrorUnion(want) /\ want[2] = NoType
    /\ isErrorUnion(got) /\ got[2] # NoType /\ got[3] = want[3]

derefable(t) == Is(t, "ptr")
rawPointerDerefType(t) == IF Is(t[2], "const") THEN t[2][2] ELSE t[2]
assignableRawPointer(t) == Is(t, "ptr") /\ ~Is(t[2], "const")

RECURSIVE Substitute(_, _)
substituteFunc(t, subst) ==
    <<"fn", t[2], [i \in DOMAIN t[3] |-> Substitute(t[3][i], subst)], Substitute(t[4], subst), t[5]>>
Substitute(t, subst) ==
    CASE t = NoType -> t
      [] Is(t, "[n]") \/ Is(t, "[N]") -> <<t[1], t[2], Substitute(t[3], subst)>>
      [] Is(t, "!") -> <<"!", Substitute(t[2], subst), Substitute(t[3], subst)>>
      [] Is(t, "fn") -> substituteFunc(t, subst)
      [] Len(t) = 1 -> IF t[1] \in DOMAIN subst THEN subst[t[1]] ELSE t
      [] OTHER -> <<t[1]>> \o [i \in 1 .. Len(t) - 1 |-> Substitute(t[i + 1], subst)]

\* [N]T once N has a value: an array holds at least one element.
RECURSIVE BindLengths(_, _)
BindLengths(t, ints) ==
    CASE t = NoType \/ Len(t) = 1 -> t
      [] Is(t, "[n]") -> <<"[n]", t[2], BindLengths(t[3], ints)>>
      [] Is(t, "[N]") -> IF t[2] \in DOMAIN ints THEN <<"[n]", ints[t[2]], BindLengths(t[3], ints)>>
                         ELSE <<"[N]", t[2], BindLengths(t[3], ints)>>
      [] Is(t, "!") -> <<"!", BindLengths(t[2], ints), BindLengths(t[3], ints)>>
      [] Is(t, "fn") -> <<"fn", t[2], [i \in DOMAIN t[3] |-> BindLengths(t[3][i], ints)],
                          BindLengths(t[4], ints), t[5]>>
      [] OTHER -> <<t[1]>> \o [i \in 1 .. Len(t) - 1 |-> BindLengths(t[i + 1], ints)]
BadLength(t) == \E node \in Walk(t) : Is(node, "[n]") /\ node[2] <= 0
instanceType(t, subst, ints) == BindLengths(Substitute(t, subst), ints)

(***************************************************************************)
(* What the declarations say of a name                                     *)
(***************************************************************************)
implMethod(c, ty, method) == IF <<ty, method>> \in DOMAIN c.impls THEN <<c.impls[<<ty, method>>]>> ELSE <<>>

isTypeName(c, name) ==
    \/ name \in knownTypes \cup c.declaredTypes \/ isKnownGenericBase(name)
    \/ name \in DOMAIN c.structs \cup DOMAIN c.enums \cup DOMAIN c.unions \cup DOMAIN c.errorSets
isUserDeclaredType(c, name) ==
    name \in DOMAIN c.structs \cup DOMAIN c.enums \cup DOMAIN c.errorSets \cup DOMAIN c.unions \cup DOMAIN c.contracts
isPublicType(c, name) ==
    CASE name \in DOMAIN c.structs -> c.structs[name].pub
      [] name \in DOMAIN c.enums -> c.enums[name].pub
      [] name \in DOMAIN c.errorSets -> c.errorSets[name].pub
      [] name \in DOMAIN c.unions -> c.unions[name].pub
      [] OTHER -> c.contracts[name].pub
rejectPrivateTypeExcept(c, t, params) ==
    \A name \in referencedTypeNames(t) \ params : isUserDeclaredType(c, name) => isPublicType(c, name)
isExternStruct(c, t) == Len(t) = 1 /\ t[1] \in DOMAIN c.structs /\ c.structs[t[1]].abi # ""

OwnerType(owners, t) == IsName(t) /\ t[1] \in owners
holdsOwner(owners, t) ==
    OwnerType(owners, CASE isOptional(t) -> t[2] [] isErrorUnion(t) -> t[3] [] OTHER -> t)
ownerType(c, t) == OwnerType(c.deinitOwners, t)

\* A value of copies all the way down.
RECURSIVE isPlainDataType(_, _, _)
isPlainDataAggregate(c, name, seen) ==
    /\ name \in DOMAIN c.structs \cup DOMAIN c.unions
    /\ implMethod(c, name, "deinit") = <<>>
    /\ IF name \in DOMAIN c.structs
       THEN \A f \in Range(c.structs[name].fields) :
                ~f.borrow /\ isPlainDataType(c, f.ty, seen \cup {name})
       ELSE \A v \in Range(c.unions[name].variants) :
                v.ty = NoType \/ isPlainDataType(c, v.ty, seen \cup {name})
isPlainDataType(c, t, seen) ==
    CASE Is(t, "?") -> isPlainDataType(c, t[2], seen)
      [] t \in {Bool, Void} \cup numericTypes \/ IsVector(t) \/ Is(t, "fn") -> TRUE
      [] Len(t) = 1 /\ t[1] \in DOMAIN c.enums \cup DOMAIN c.errorSets -> TRUE
      [] isBufferType(t) -> isPlainDataType(c, t[3], seen)
      [] Is(t, "Handle") -> TRUE
      [] OTHER -> Len(t) = 1 /\ t[1] \notin seen /\ isPlainDataAggregate(c, t[1], seen)

isCopyType(c, t) == isSliceType(t) \/ t \in copyTypes \/ isPlainDataType(c, t, {})
isViewElem(c, ps, t) == (Len(t) = 1 /\ t[1] \in ps.types) \/ isPlainDataType(c, t, {})
IsMapKey(t) == t = Bytes \/ t \in integerTypes
optionalFieldElemAllowed(c, t) == isPlainDataType(c, t, {}) \/ ownerType(c, t)

\* Array<T> moves its storage when it grows, and keeps no raw pointer.
RECURSIVE rejectArrayStorageType(_, _, _)
rejectArrayStorageType(c, t, seen) ==
    \/ isPointerType(t)
    \/ /\ Len(t) = 1 /\ t[1] \notin seen
       /\ LET held == CASE t[1] \in DOMAIN c.structs -> Range(c.structs[t[1]].fields)
                        [] t[1] \in DOMAIN c.unions -> Range(c.unions[t[1]].variants)
                        [] OTHER -> {}
          IN  \E h \in held : h.ty # NoType /\ rejectArrayStorageType(c, h.ty, seen \cup {t[1]})

(***************************************************************************)
(* What C can name                                                         *)
(***************************************************************************)
browserHostScalar(t) == t = Bool \/ isPointerType(t) \/ t \in integerTypes
RECURSIVE cFunctionPointerSignature(_, _)
cFunctionPointer(t) ==
    LET f == funcPointerNode(t) IN Is(f, "fn") /\ f[2] = "c" /\ cFunctionPointerSignature(f, NoType)
cHostScalar(t) == browserHostScalar(t) \/ t \in floatTypes \/ cFunctionPointer(t)
cLentStruct(t) == isBorrow(t) /\ IsName(t[2]) /\ Len(t[2]) = 1
\* Once the type is resolved (c = NoType) the layout of what it lends is known.
cFunctionPointerSignature(f, c) ==
    /\ \A i \in DOMAIN f[3] :
           IF cLentStruct(f[3][i]) THEN c = NoType \/ isExternStruct(c[1], f[3][i][2])
           ELSE cHostScalar(f[3][i])
    /\ f[4] = Void \/ cHostScalar(f[4])

(***************************************************************************)
(* resolveTypeNode: every name is known and every form wraps what it may    *)
(***************************************************************************)
RECURSIVE resolves(_, _, _)
resolveWrappingType(c, ps, elem) == ~Is(elem, "?") /\ resolves(c, ps, elem)
resolveErrorUnionType(c, ps, t) ==
    /\ t[2] = NoType \/ /\ resolves(c, ps, t[2])
                        /\ Len(t[2]) = 1 /\ t[2][1] \in DOMAIN c.errorSets \cup ps.types
    /\ IF Is(t[3], "?") THEN resolves(c, ps, t[3]) ELSE resolveWrappingType(c, ps, t[3])
resolveFuncType(c, ps, t) ==
    /\ \A i \in DOMAIN t[3] : resolves(c, ps, t[3][i])
    /\ resolves(c, ps, t[4])
    /\ t[2] = "c" => cFunctionPointerSignature(t, <<c>>)
resolveNamedType(c, ps, t) == t[1] \in ps.types \/ isTypeName(c, t[1])
resolveMapType(c, ps, t) ==
    /\ Len(t) = 3 /\ (IsMapKey(t[2]) \/ (Len(t[2]) = 1 /\ t[2][1] \in ps.types))
    /\ resolves(c, ps, t[3])
resolvePointerType(c, ps, t) == resolves(c, ps, IF Is(t[2], "const") THEN t[2][2] ELSE t[2])
resolveUserGenericType(c, ps, t, params) ==
    Len(t) = Len(params) + 1 /\ \A i \in 2 .. Len(t) : resolves(c, ps, t[i])
resolveGenericType(c, ps, t) ==
    /\ \A i \in 2 .. Len(t) : ~isOptional(t[i])
    /\ CASE t[1] = "Map" -> resolveMapType(c, ps, t)
         [] t[1] = "ptr" -> Len(t) = 2 /\ resolvePointerType(c, ps, t)
         [] t[1] \in DOMAIN c.structs -> resolveUserGenericType(c, ps, t, c.structs[t[1]].params)
         [] t[1] \in DOMAIN c.unions -> resolveUserGenericType(c, ps, t, c.unions[t[1]].params)
         [] OTHER -> isKnownGenericBase(t[1]) /\ Len(t) = 2 /\ resolves(c, ps, t[2])
resolveNullableType(c, ps, elem) == ~Is(elem, "?") /\ ~Is(elem, "!") /\ resolves(c, ps, elem)
resolves(c, ps, t) ==
    CASE t = NoType -> FALSE
      [] Is(t, "!") -> resolveErrorUnionType(c, ps, t)
      [] isBorrow(t) \/ Is(t, "[]") -> resolveWrappingType(c, ps, t[2])
      [] Is(t, "[n]") -> resolveWrappingType(c, ps, t[3])
      [] Is(t, "[N]") -> t[2] \in ps.lengths /\ resolveWrappingType(c, ps, t[3])
      [] Is(t, "?") -> resolveNullableType(c, ps, t[2])
      [] Is(t, "fn") -> resolveFuncType(c, ps, t)
      [] Is(t, "const") -> FALSE
      [] OTHER -> IF Len(t) = 1 THEN resolveNamedType(c, ps, t) ELSE resolveGenericType(c, ps, t)

\* The type, its lengths bound; NoType when it is refused.
parseTypeNode(c, ps, t) ==
    LET bound == BindLengths(t, ps.ints)
    IN  IF ~BadLength(bound) /\ resolves(c, ps, bound) THEN bound ELSE NoType
NoParams == [types |-> {}, lengths |-> {}, ints |-> <<>>]

(***************************************************************************)
(* Error sets: a value is an error of the set that declared it              *)
(***************************************************************************)
ErrorValues(c, set) == Range(c.errorSets[set].values)
isErrorSet(c, t) == Len(t) = 1 /\ t[1] \in DOMAIN c.errorSets

\* A mutant: error sets are compared by the names of their members.
errorSetFitsByName(c, source, target) ==
    /\ isErrorSet(c, source) /\ isErrorSet(c, target)
    /\ {v[2] : v \in ErrorValues(c, source[1])} \subseteq {v[2] : v \in ErrorValues(c, target[1])}

\* Every value of the source is one of the target.
errorSetFits(c, source, target) ==
    \/ source = target
    \/ /\ isErrorSet(c, source) /\ isErrorSet(c, target)
       /\ ErrorValues(c, source[1]) \subseteq ErrorValues(c, target[1])

\* 2^n.  A number from 2^31 on is written in millions, which keeps the order that
\* the bounds read.
Power(n) == IF n < 31 THEN 2 ^ n ELSE 1000000 * n

\* Mutant: only the sign is looked at.
integerLiteralFitsTypeBySign(value, t) == t \in signedNumericTypes \/ value >= 0

\* Whether a value fits an integer type.
integerLiteralFitsType(value, t) ==
    CASE t[1] = "i8" -> value \in -128 .. 127
      [] t[1] = "i16" -> value \in -32768 .. 32767
      [] t[1] = "i32" -> value \in -Power(31) .. Power(31) - 1
      [] t[1] \in {"i64", "isize"} -> TRUE
      [] t[1] = "u8" -> value \in 0 .. 255
      [] t[1] = "u16" -> value \in 0 .. 65535
      [] t[1] = "u32" -> value \in 0 .. Power(32) - 1
      [] t[1] \in {"u64", "usize"} -> value >= 0
      [] OTHER -> FALSE

-----------------------------------------------------------------------------
Keep(st, holds) == IF st.ok /\ holds THEN st ELSE [st EXCEPT !.ok = FALSE]
Distinct(names) == \A i, j \in DOMAIN names : names[i] = names[j] => i = j
NamesOf(parts_) == [i \in DOMAIN parts_ |-> parts_[i].name]
OfKind(decls, k) == SelectSeq(decls, LAMBDA d : d.k = k)
With(table, key, value) == (key :> value) @@ table

newCheckerMetadata ==
    [structs |-> <<>>, unions |-> <<>>, enums |-> <<>>, errorSets |-> <<>>, contracts |-> <<>>,
     functions |-> <<>>, impls |-> <<>>, declaredTypes |-> {},
     deinitOwners |-> {"Arena"}]

(***************************************************************************)
(* Who owes cleanup (internal/ast/deinit_owners.go)                         *)
(***************************************************************************)
Deinits(decls) == {d.recv : d \in {e \in Range(OfKind(decls, "fn")) : e.recv # "" /\ e.method = "deinit"}}

declaredHolder(owners, d) ==
    \/ d.k = "struct" /\ \E f \in Range(d.fields) : holdsOwner(owners, f.ty)
    \/ d.k = "union" /\ \E v \in Range(d.variants) : v.ty # NoType /\ holdsOwner(owners, v.ty)

RECURSIVE GrowOwners(_, _)
GrowOwners(owners, decls) ==
    LET more == {d.name : d \in {e \in Range(decls) : e.k \in {"struct", "union"} /\ declaredHolder(owners, e)}}
    IN  IF more \subseteq owners THEN owners ELSE GrowOwners(owners \cup more, decls)

DeinitOwners(owners, decls) == GrowOwners(owners \cup Deinits(decls), decls)
(***************************************************************************)
(* Types                                                                   *)
(***************************************************************************)
hasDuplicateTypeName(c, name) ==
    name \in DOMAIN c.errorSets \cup DOMAIN c.enums \cup DOMAIN c.structs \cup DOMAIN c.unions

predeclareTypeNames(c, decls) ==
    [c EXCEPT !.declaredTypes = @ \cup
        {d.name : d \in {e \in Range(decls) : e.k \in {"struct", "enum", "error", "union", "contract"}}}]

ParamsOf(names) == [types |-> Range(names), lengths |-> {}, ints |-> <<>>]

validateExternStructShape(d) == d.abi = "" \/ (d.abi = "c" /\ d.params = <<>> /\ ~d.unsafe)
requireObligationDoc(d) == d.unsafe => d.doc

rawPointerFieldRequiresUnsafe(unsafe, t) == ~unsafe /\ containsRawPointer(t)

structField(c, d, f) ==
    LET t == parseTypeNode(c, ParamsOf(d.params), f.ty)
    IN  /\ t # NoType /\ ~f.borrow
        /\ d.abi = "" =>
               /\ ~rawPointerFieldRequiresUnsafe(d.unsafe, t)
               /\ ~containsCompileTimeOnly(t) /\ ~containsTypeValue(t)
               /\ isOptional(t) => optionalFieldElemAllowed(c, t[2])

\* The struct is known while its fields are read, so they may name it.
collectStruct(st, d) ==
    LET c == [st.c EXCEPT !.structs = With(@, d.name, d)]
    IN  [Keep(st, /\ ~hasDuplicateTypeName(st.c, d.name)
                  /\ requireObligationDoc(d) /\ validateExternStructShape(d)
                  /\ \A i \in DOMAIN d.fields : structField(c, d, d.fields[i])) EXCEPT !.c = c]

unionVariant(c, d, v) ==
    LET t == parseTypeNode(c, ParamsOf(d.params), v.ty)
    IN  v.ty = NoType \/ (t # NoType /\ ~isOptional(t) /\ ~isBorrow(t) /\ ~containsTypeValue(t))

collectUnion(st, d) ==
    [Keep(st, /\ ~hasDuplicateTypeName(st.c, d.name) /\ Distinct(NamesOf(d.variants))
              /\ \A i \in DOMAIN d.variants : unionVariant(st.c, d, d.variants[i]))
        EXCEPT !.c.unions = With(@, d.name, d)]

collectEnum(st, d) ==
    [Keep(st, ~hasDuplicateTypeName(st.c, d.name) /\ Distinct(d.tags))
        EXCEPT !.c.enums = With(@, d.name, d)]

\* A set of its own knows its values; one combined from others waits for them.
errorValueKey(origin, member) == <<origin, member>>
collectErrorSet(st, d) ==
    LET own == [i \in DOMAIN d.members |-> errorValueKey(d.name, d.members[i])]
        set == [combines |-> d.combines, pub |-> d.pub, known |-> d.combines = <<>>,
                values |-> IF d.combines = <<>> THEN own ELSE <<>>]
    IN  [Keep(st, ~hasDuplicateTypeName(st.c, d.name) /\ (d.combines = <<>> => Distinct(d.members)))
            EXCEPT !.c.errorSets = With(@, d.name, set)]

RECURSIVE resolveErrorSetComposition(_, _, _)
resolveErrorSetComposition(st, name, opening) ==
    IF ~st.ok \/ st.c.errorSets[name].known THEN st
    ELSE LET refs == st.c.errorSets[name].combines
             open == FoldLeft(LAMBDA r, ref :
                        IF ref \notin DOMAIN r.c.errorSets THEN Keep(r, FALSE)
                        ELSE resolveErrorSetComposition(r, ref, opening \cup {name}),
                        Keep(st, name \notin opening), refs)
             all == FlattenSeq([i \in DOMAIN refs |-> open.c.errorSets[refs[i]].values])
             once == SelectSeq([i \in DOMAIN all |-> <<i, all[i]>>],
                               LAMBDA p : \A j \in 1 .. p[1] - 1 : all[j] # p[2])
         IN  IF name \in opening \/ ~open.ok THEN Keep(open, FALSE)
             ELSE [open EXCEPT !.c.errorSets[name].known = TRUE,
                               !.c.errorSets[name].values = [i \in DOMAIN once |-> once[i][2]]]

resolveErrorSetCompositions(st) ==
    FoldLeft(LAMBDA r, name : resolveErrorSetComposition(r, name, {}), st,
             SetToSeq(DOMAIN st.c.errorSets))

validateExternStructFields(st, d) ==
    Keep(st, d.k = "struct" /\ d.abi # "" =>
                 \A f \in Range(d.fields) : cHostScalar(f.ty) \/ isExternStruct(st.c, f.ty))

(***************************************************************************)
(* Functions                                                               *)
(***************************************************************************)
TypeParamNames(f) == {p.name : p \in {q \in Range(f.statics) : q.ty = TypeType}}
HasValueStaticParam(f) == \E p \in Range(f.statics) : p.ty # TypeType

enterSignature(f) ==
    [types |-> TypeParamNames(f), ints |-> <<>>,
     lengths |-> {p.name : p \in {q \in Range(f.statics) :
                     q.ty \notin {TypeType, Bool, <<"Function">>, <<"Field">>}}}]

checkFunctionParam(c, f, p, t) ==
    /\ t # NoType /\ t # Void
    /\ f.std \/ ~containsBorrowOptional(t)
    /\ ~containsTypeValue(t) /\ ~containsCompileTimeOnly(t)
    \* a capture through the borrow would move the payload out
    /\ isOptional(t) /\ p.borrow => isCopyType(c, t[2]) /\ ~isSliceType(t[2])

collectFunctionParams(c, f) ==
    [i \in DOMAIN f.params |-> parseTypeNode(c, enterSignature(f), f.params[i].ty)]

validateHostFunctionABI(f) ==
    /\ f.abi = "" \/ f.export = ""
    /\ f.abi \in {"", "c", "browser"} /\ f.export \in {"", "c", "browser"}
    /\ f.link => f.abi = "c"

validateCVariadicFunction(c, f, params, ret) ==
    f.variadic => /\ \A i \in DOMAIN params : f.params[i].borrow \/ ~isExternStruct(c, params[i])
                  /\ ~isExternStruct(c, ret)

validateCHostFunctionTypes(c, f, params, ret) ==
    /\ \A i \in DOMAIN params :
           isExternStruct(c, params[i]) \/ (~f.params[i].borrow /\ cHostScalar(params[i]))
    /\ ret = Void \/ cHostScalar(ret) \/ isExternStruct(c, ret)
    /\ validateCVariadicFunction(c, f, params, ret)

validateCExportFunction(f, params, ret) ==
    /\ f.recv = "" /\ f.statics = <<>> /\ f.name # "main" /\ ~f.reserved
    /\ \A i \in DOMAIN params : ~f.params[i].borrow /\ cHostScalar(params[i])
    /\ ret = Void \/ cHostScalar(ret)

validateBrowserHostFunctionShape(f) ==
    /\ f.recv = "" /\ f.statics = <<>>
    /\ f.export = "browser" => f.name # "main" /\ ~f.reserved

validateBrowserHostFunctionTypes(f, params, ret) ==
    /\ \A i \in DOMAIN params :
           /\ ~f.params[i].borrow
           /\ browserHostScalar(params[i]) \/ (f.abi = "browser" /\ params[i] = Bytes)
    /\ ret = Void \/ browserHostScalar(ret)

validateHostFunctionSignature(c, f, params, ret) ==
    /\ validateHostFunctionABI(f)
    /\ CASE f.abi = "c" -> validateCHostFunctionTypes(c, f, params, ret)
         [] f.export = "c" -> validateCExportFunction(f, params, ret)
         [] f.abi = "browser" \/ f.export = "browser" ->
               validateBrowserHostFunctionShape(f) /\ validateBrowserHostFunctionTypes(f, params, ret)
         [] OTHER -> TRUE

\* Only std takes a function by its name as a static parameter.
reservedFunctionStaticParam(f) == ~f.std /\ \E p \in Range(f.statics) : p.ty = <<"Function">>

\* The signature with its types resolved, as <<f>>; <<>> when it is refused.
newFunctionType(c, f) ==
    LET params == collectFunctionParams(c, f)
        ret == IF f.ret = NoType THEN Void ELSE parseTypeNode(c, enterSignature(f), f.ret)
    IN  IF /\ ~reservedFunctionStaticParam(f)
           /\ \A i \in DOMAIN params : checkFunctionParam(c, f, f.params[i], params[i])
           /\ ret # NoType /\ ~containsCompileTimeOnly(ret) /\ ~containsTypeValue(ret)
           /\ f.std \/ ~containsBorrowOptional(ret) \/ BorrowOptional(ret)
           /\ validateHostFunctionSignature(c, f, params, ret)
        THEN <<[written |-> f.ret # NoType]
               @@ [f EXCEPT !.ret = ret,
                            !.params = [i \in DOMAIN params |-> [f.params[i] EXCEPT !.ty = params[i]]]]>>
        ELSE <<>>

newDeclaredFunctionType(c, f) == IF requireObligationDoc(f) THEN newFunctionType(c, f) ELSE <<>>

collectReceiverMethod(st, d) ==
    IF d.k # "fn" \/ d.recv = "" THEN st
    ELSE LET f == newDeclaredFunctionType(st.c, d)
         IN  IF f = <<>> \/ <<d.recv, d.method>> \in DOMAIN st.c.impls THEN Keep(st, FALSE)
             ELSE [st EXCEPT !.c.impls = With(@, <<d.recv, d.method>>, f[1])]

collectTopLevelFunction(st, d) ==
    LET f == IF d.recv # "" /\ implMethod(st.c, d.recv, d.method) # <<>>
             THEN implMethod(st.c, d.recv, d.method) ELSE newDeclaredFunctionType(st.c, d)
    IN  IF f = <<>> \/ d.name \in DOMAIN st.c.functions \/ isTypeName(st.c, d.name) THEN Keep(st, FALSE)
        ELSE [st EXCEPT !.c.functions = With(@, d.name, f[1])]

(***************************************************************************)
(* Contracts                                                               *)
(***************************************************************************)
collectContract(st, d) ==
    LET fs == [i \in DOMAIN d.methods |-> newDeclaredFunctionType(st.c, d.methods[i])]
    IN  IF d.name \in DOMAIN st.c.contracts \/ ~Distinct(NamesOf(d.methods))
           \/ \E i \in DOMAIN fs : fs[i] = <<>>
        THEN Keep(st, FALSE)
        ELSE [st EXCEPT !.c.contracts =
                 With(@, d.name, [pub |-> d.pub, methods |-> [i \in DOMAIN fs |-> fs[i][1]]])]

\* The method takes what the contract's caller will pass, after its receiver.
methodMatches(want, got) ==
    /\ got.params # <<>> /\ Len(want.params) = Len(got.params) - 1 /\ want.ret = got.ret
    /\ \A i \in DOMAIN want.params :
           /\ want.params[i].ty = got.params[i + 1].ty
           /\ want.params[i].borrow = got.params[i + 1].borrow
           /\ want.params[i].mut = got.params[i + 1].mut

checkSatisfies(c, contract, name) ==
    /\ contract \in DOMAIN c.contracts
    /\ \A m \in Range(c.contracts[contract].methods) :
           /\ implMethod(c, name, m.name) # <<>>
           /\ methodMatches(m, implMethod(c, name, m.name)[1])

collectImpl(st, d) ==
    Keep(st, parseTypeNode(st.c, NoParams, <<d.ty>>) # NoType /\ checkSatisfies(st.c, d.contract, d.ty))

collectTypeDecl(st, d) ==
    CASE d.k = "struct" -> collectStruct(st, d)
      [] d.k = "enum" -> collectEnum(st, d)
      [] d.k = "error" -> collectErrorSet(st, d)
      [] d.k = "union" -> collectUnion(st, d)
      [] d.k = "contract" -> collectContract(st, d)
      [] OTHER -> st

\* One pass over the declarations; it stops at the first error.
collectStep(pass, st, d) ==
    CASE pass = "types" -> collectTypeDecl(st, d)
      [] pass = "layouts" -> validateExternStructFields(st, d)
      [] pass = "methods" -> collectReceiverMethod(st, d)
      [] pass = "impls" -> collectImpl(st, d)
      [] OTHER -> collectTopLevelFunction(st, d)
RECURSIVE collectPass(_, _, _)
collectPass(pass, st, decls) ==
    IF decls = <<>> \/ ~st.ok THEN st ELSE collectPass(pass, collectStep(pass, st, decls[1]), Tail(decls))

collectTypesAndMethods(st, decls) ==
    LET typed == collectPass("types", [st EXCEPT !.c = predeclareTypeNames(@, decls)], decls)
        sets == resolveErrorSetCompositions(typed)
        laid == collectPass("layouts", sets, decls)
        methods == collectPass("methods", laid, decls)
    IN  collectPass("impls", methods, OfKind(decls, "impl"))

collectFunctions(st, decls) ==
    LET typed == collectTypesAndMethods(st, decls)
    IN  collectPass("functions", typed, OfKind(decls, "fn"))

(***************************************************************************)
(* Sizes end: checkInlineRecursion                                         *)
(***************************************************************************)
\* A mutant: only a field that names the type itself is seen.
inlineTypeNameBare(t) == IF IsName(t) /\ Len(t) = 1 THEN {t[1]} ELSE {}

\* The declared type that a field stores by value; a generic application is
\* taken to be behind a handle.
RECURSIVE inlineTypeName(_)
inlineTypeName(t) ==
    CASE isBufferType(t) -> inlineTypeName(t[3])
      [] Is(t, "?") -> inlineTypeName(t[2])
      [] Is(t, "!") -> inlineTypeName(t[3])
      [] IsName(t) /\ Len(t) = 1 -> {t[1]}
      [] OTHER -> {}

inlineParts(c, name) ==
    (IF name \in DOMAIN c.structs /\ c.structs[name].params = <<>> THEN Range(c.structs[name].fields) ELSE {})
    \cup (IF name \in DOMAIN c.unions /\ c.unions[name].params = <<>>
          THEN {v \in Range(c.unions[name].variants) : v.ty # NoType} ELSE {})

\* The types reached from one by what it stores, step by step.
RECURSIVE inlinePathTo(_, _, _)
inlinePathTo(c, names, seen) ==
    LET next == UNION {UNION {inlineTypeName(p.ty) : p \in inlineParts(c, n)} : n \in names}
    IN  IF next \subseteq seen THEN seen ELSE inlinePathTo(c, next \ seen, seen \cup next)

checkInlineRecursion(st, decls) ==
    Keep(st, \A d \in Range(decls) :
                 d.k \in {"struct", "union"} /\ d.params = <<>> => d.name \notin inlinePathTo(st.c, {d.name}, {}))

(***************************************************************************)
(* A public declaration names public types: checkPublicAPI                  *)
(***************************************************************************)
checkPublicSignature(c, f) ==
    /\ \A p \in Range(f.params) : rejectPrivateTypeExcept(c, p.ty, TypeParamNames(f))
    /\ f.ret = NoType \/ rejectPrivateTypeExcept(c, f.ret, TypeParamNames(f))
checkPublicStructFields(c, d) ==
    \A f \in Range(d.fields) : f.pub => ~d.unsafe /\ rejectPrivateTypeExcept(c, f.ty, {})
checkPublicUnionVariants(c, d) ==
    d.pub => \A v \in Range(d.variants) : v.ty = NoType \/ rejectPrivateTypeExcept(c, v.ty, {})
checkPublicContract(c, d) == d.pub => \A m \in Range(d.methods) : checkPublicSignature(c, m)

checkPublicAPI(st, decls) ==
    Keep(st, \A d \in Range(decls) :
                 CASE d.k = "fn" -> d.pub => checkPublicSignature(st.c, d)
                   [] d.k = "struct" -> checkPublicStructFields(st.c, d)
                   [] d.k = "union" -> checkPublicUnionVariants(st.c, d)
                   [] d.k = "contract" -> checkPublicContract(st.c, d)
                   [] OTHER -> TRUE)

(***************************************************************************)
(* The deinit of a union that holds owners releases every one of them       *)
(***************************************************************************)
unionHasOwnerPayload(c, d) == \E v \in Range(d.variants) : v.ty # NoType /\ ownerType(c, v.ty)

checkOwnerUnionDeinitSignature(d, f) ==
    /\ f.ret = Void /\ Len(f.params) = 2 /\ f.params[2].ty = Allocator
    /\ ~f.params[1].borrow /\ f.params[1].ty = <<d.name>>

ownerUnionDeinitCall(e, binding) ==
    e.k = "expr" /\ e.e.k = "method" /\ e.e.name = "deinit" /\ e.e.on = [k |-> "ident", x |-> binding]

ownerUnionSelfMatch(f) ==
    /\ f.body # <<>> /\ f.body[1].k = "match" /\ f.body[1].e = [k |-> "ident", x |-> f.params[1].name]

checkOwnerUnionDeinitBody(c, d, f) ==
    /\ ownerUnionSelfMatch(f)
    /\ LET arms == f.body[1].arms
       IN  /\ \A a \in Range(arms) : a.tag # "_"
           /\ \A v \in Range(d.variants) :
                  v.ty # NoType /\ ownerType(c, v.ty) =>
                     \E a \in Range(arms) :
                        /\ a.tag = v.name /\ a.bind # ""
                        /\ Len(a.body) = 1 /\ ownerUnionDeinitCall(a.body[1], a.bind)

validateOwnerUnionCleanup(c, d) ==
    unionHasOwnerPayload(c, d) =>
        /\ d.params = <<>>
        /\ LET f == implMethod(c, d.name, "deinit")
           IN  f # <<>> => checkOwnerUnionDeinitSignature(d, f[1]) /\ checkOwnerUnionDeinitBody(c, d, f[1])

checkOwnerUnionContracts(st, decls) ==
    Keep(st, \A d \in Range(OfKind(decls, "union")) : validateOwnerUnionCleanup(st.c, d))

(***************************************************************************)
(* Check up to the bodies of the functions                                 *)
(***************************************************************************)
CheckDecls(c, decls) ==
    LET st == [ok |-> TRUE,
               c |-> [c EXCEPT !.deinitOwners = DeinitOwners(@, decls)]]
        collected == collectFunctions(st, decls)
    IN  IF ~collected.ok THEN collected
        ELSE checkOwnerUnionContracts(
                checkPublicAPI(checkInlineRecursion(collected, decls), decls), decls)

=============================================================================
