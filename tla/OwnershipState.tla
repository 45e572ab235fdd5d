--------------------------- MODULE OwnershipState ---------------------------
(***************************************************************************)
(* The state of the ownership checker (internal/ownership/checker.go), the *)
(* questions its walk asks of it, and the single rules and changes the walk*)
(* is put together from.                                                   *)
(*                                                                         *)
(* A program is a block: a sequence of statement records, whose field k    *)
(* names the form.  A place is [k |-> "place", x, p]: a name and a path of *)
(* field names, <<>> for the whole value.  A type is a sequence: the name  *)
(* of a type behind the wrappers "?", "!", "&" and "&var".                 *)
(*                                                                         *)
(* The state s the checker threads through the walk:                       *)
(*   ok       no error so far (Check stops at the first one)               *)
(*   ty       the type of the expression read last                         *)
(*   scopes   the chain of scopes, innermost last: name -> binding id      *)
(*   b        the bindings by id                                           *)
(*   errs     liveErrDefers: the statement at of each, and the id it covers*)
(*   temps    pendingOwnerTemps          places   pendingMovedPlaces       *)
(*   loops    loopStarts, as the sinceID of each loop                      *)
(*   lazy     reading an orelse or catch default                           *)
(*   at       the path of the statement in the program                     *)
(*   retired  Result: the errdefers retired at each error exit             *)
(*                                                                         *)
(* The state is a value, so a clone of the scopes is the state itself.  The*)
(* four borrow counters of a binding are one sequence of loans [f, mut].   *)
(***************************************************************************)
EXTENDS Naturals, Sequences, FiniteSets, SequencesExt, Functions, TLC

CONSTANTS
    Structs,    \* struct name -> the sequence of its fields [name, ty]
    Unions,     \* union name -> the payload type of each variant, <<>> for none
    Declared,   \* the types whose deinit an author wrote
    Functions_, \* function name -> [params: sequence of [ty, mode], ret: type]
    Methods     \* <<type name, method>> -> [self: mode, params, ret]

Fn(name) == Functions_[name]
Whole(x) == [k |-> "place", x |-> x, p |-> <<>>]

(***************************************************************************)
(* Types                                                                   *)
(***************************************************************************)
RECURSIVE OwnerName(_)

\* A field or a payload carries an obligation, also behind ? and !.
holdsOwner(ty) == Len(ty) > 0 /\ OwnerName(Last(ty)) /\ Head(ty) \notin {"&", "&var"}

\* The types that owe cleanup: the declared ones and those that hold one.
OwnerName(n) ==
    \/ n \in Declared
    \/ n \in DOMAIN Structs /\ \E i \in DOMAIN Structs[n] : holdsOwner(Structs[n][i].ty)
    \/ n \in DOMAIN Unions /\ \E v \in DOMAIN Unions[n] : holdsOwner(Unions[n][v])

valueTypeNeedsConsume(ty) == Len(ty) = 1 /\ OwnerName(ty[1])

fieldTypeNeedsConsume(ty) ==
    valueTypeNeedsConsume(IF Head(ty) = "?" THEN Tail(ty) ELSE ty)

resultTypeNeedsConsume(ty) ==
    Head(ty) \notin {"&", "&var"} /\ valueTypeNeedsConsume(<<Last(ty)>>)

producesOwnerTemp(ty) == resultTypeNeedsConsume(ty)

isCopyType(ty) ==
    /\ Head(ty) \notin {"&", "&var"}
    /\ Last(ty) \notin Declared \cup DOMAIN Structs \cup DOMAIN Unions

RECURSIVE fieldPathType(_, _)
fieldPathType(ty, p) ==
    IF p = <<>> THEN ty
    ELSE LET fs == Structs[Last(ty)]
             i == CHOOSE j \in DOMAIN fs : fs[j].name = Head(p)
         IN  fieldPathType(fs[i].ty, Tail(p))

OwnerFields(ty) ==
    IF Len(ty) = 1 /\ ty[1] \in DOMAIN Structs
    THEN {<<Structs[ty[1]][i].name>> : i \in
             {j \in DOMAIN Structs[ty[1]] : fieldTypeNeedsConsume(Structs[ty[1]][j].ty)}}
    ELSE {}

(***************************************************************************)
(* Bindings and scopes                                                     *)
(***************************************************************************)
newBinding(ty) ==
    [ty |-> ty, moved |-> FALSE, deinit |-> FALSE, borrowed |-> FALSE,
     local |-> FALSE, mutBorrow |-> FALSE, targets |-> <<>>, loans |-> <<>>,
     reserved |-> 0, fieldDeinit |-> {}, arena |-> 0, handle |-> 0,
     exempt |-> FALSE, deferred |-> FALSE]

Fail(s) == [s EXCEPT !.ok = FALSE]
Require(s, holds) == IF holds THEN s ELSE Fail(s)
Then(s, Next(_)) == IF s.ok THEN Next(s) ELSE s

Known(s, x) == \E i \in DOMAIN s.scopes : x \in DOMAIN s.scopes[i]

lookup(s, x) ==
    LET i == CHOOSE j \in DOMAIN s.scopes :
                 /\ x \in DOMAIN s.scopes[j]
                 /\ \A l \in DOMAIN s.scopes : l > j => x \notin DOMAIN s.scopes[l]
    IN  s.scopes[i][x]

walkBindings(s) == UNION {Range(s.scopes[i]) : i \in DOMAIN s.scopes}

define(s, x, binding) ==
    LET id == Len(s.b) + 1
        inner == [y \in DOMAIN Last(s.scopes) \cup {x} |->
                     IF y = x THEN id ELSE Last(s.scopes)[y]]
    IN  [s EXCEPT !.b = Append(@, binding), !.scopes = Append(Front(@), inner)]

child(s) == [s EXCEPT !.scopes = Append(@, <<>>)]
leave(s) == [s EXCEPT !.scopes = Front(@)]

bindingConsumed(v) == v.moved \/ v.deinit
hasAnyBorrow(v) == v.loans # <<>>

\* A value without a deinit of its own is consumed once its owner fields are.
allOwnerFieldsConsumed(v) ==
    /\ v.fieldDeinit # {} /\ Last(v.ty) \notin Declared
    /\ OwnerFields(v.ty) # {} /\ OwnerFields(v.ty) \subseteq v.fieldDeinit

bindingNeedsConsume(v) ==
    /\ ~(v.moved \/ v.deinit \/ v.deferred)
    /\ ~(v.borrowed \/ v.local \/ v.exempt)
    /\ v.handle = 0
    /\ ~allOwnerFieldsConsumed(v)
    /\ valueTypeNeedsConsume(v.ty)

errDeferCoversID(s, id) == \E i \in DOMAIN s.errs : s.errs[i].id = id

\* No owner bound since the id `since` is left behind; an error exit also runs
\* the errdefers.
checkOwnersConsumed(s, since, errorPath) ==
    Require(s, \A id \in walkBindings(s) :
                   \/ id <= since
                   \/ ~bindingNeedsConsume(s.b[id])
                   \/ errorPath /\ errDeferCoversID(s, id))

(***************************************************************************)
(* Borrows                                                                 *)
(***************************************************************************)
fieldPathsOverlap(f, g) == IsPrefix(f, g) \/ IsPrefix(g, f)

activateBorrow(s, id, f, mut) ==
    [s EXCEPT !.b[id].loans = Append(@, [f |-> f, mut |-> mut])]

releaseTemporaryBorrow(s, loan) ==
    [s EXCEPT !.b[loan.id].loans = RemoveFirst(@, [f |-> loan.f, mut |-> loan.mut])]

releaseTemporaryBorrows(s, loans) == FoldLeft(releaseTemporaryBorrow, s, loans)

\* What the binding borrowed is free again.
releaseBorrow(s, id) ==
    [FoldLeft(LAMBDA t, src : [t EXCEPT !.b[src.id].loans =
                  RemoveFirst(@, [f |-> src.f, mut |-> s.b[id].mutBorrow])],
              s, s.b[id].targets) EXCEPT !.b[id].targets = <<>>]

borrowTarget(s, place) == [id |-> lookup(s, place.x), f |-> place.p]

(***************************************************************************)
(* Reading and moving                                                      *)
(***************************************************************************)

Typed(s, ty) == [s EXCEPT !.ty = ty]

\* A handle of an arena that is gone cannot be used.
DeinitializedUse(s, v) ==
    \/ v.deinit
    \/ /\ v.handle # 0
       /\ \E id \in walkBindings(s) : s.b[id].arena = v.handle /\ s.b[id].deinit

\* readIdentAliasing and the receivers of readFieldPathReceiver: the value is
\* here, so is every part on the way, and nobody may be writing to the place.
readPlace(s, place) ==
    IF ~Known(s, place.x) THEN Fail(s)
    ELSE LET v == s.b[lookup(s, place.x)]
         IN  Typed(Require(s, /\ ~DeinitializedUse(s, v) /\ ~v.moved
                              /\ ~\E g \in v.fieldDeinit : g # <<>> /\ IsPrefix(g, place.p)
                              /\ ~\E i \in DOMAIN v.loans :
                                    v.loans[i].mut /\ fieldPathsOverlap(v.loans[i].f, place.p)),
                   fieldPathType(v.ty, place.p))

\* What a call or a literal took is settled; its own result is pending if it
\* is an owner.
settleOwnerTemps(s, before, e) ==
    [s EXCEPT !.temps = IF e # <<>> /\ producesOwnerTemp(s.ty)
                        THEN Append(before.temps, e[1]) ELSE before.temps,
              !.places = before.places]

\* The consumers refuse a named owner inside an orelse or catch default.
checkLazyDefaultConsume(s) == Require(s, ~s.lazy)

\* A mutant: what has been moved away is not missed.
CanMoveBindingAgain(s, v) == ~DeinitializedUse(s, v) /\ ~v.borrowed

\* checkMovePlaceBinding: a borrow cannot be handed on as an owned value.
CanMoveBinding(s, v) == ~DeinitializedUse(s, v) /\ ~v.moved /\ ~v.borrowed

(***************************************************************************)
(* Calls                                                                   *)
(***************************************************************************)
ArgPlace(arg) ==
    CASE arg.k = "borrow" -> <<arg.of>> [] arg.k = "place" -> <<arg>> [] OTHER -> <<>>

\* A mutant: a copy of a handle comes from nowhere.
knownHandleProvenanceLost(s, e) == 0

\* The arena a handle expression is known to come from, 0 if it is not.
knownHandleProvenance(s, e) ==
    IF e.k = "place" /\ e.p = <<>> /\ Known(s, e.x) THEN s.b[lookup(s, e.x)].handle ELSE 0

checkKnownHandleProvenance(s, arena, e) ==
    Require(s, arena = 0 \/ knownHandleProvenance(s, e) \in {0, arena})

\* Only deinit consumes its receiver.
functionConsumesReceiver(m, name) == m.self = "val" /\ name = "deinit" /\ m.ret = <<"void">>

insideDeinitOf(s, x, ty) == s.fn.self = ty /\ x = "self"

\* The fields of a value with a deinit of its own are cleaned up only there.
allowsOwnerFieldCleanup(s, x, v) ==
    ~v.borrowed /\ ~v.local /\ (Last(v.ty) \notin Declared \/ insideDeinitOf(s, x, v.ty))

\* The container access table (stdmethod): what an arena's methods do to it.
ArenaAccess == [add |-> "mutate", at |-> "read", deinit |-> "cleanup"]

checkContainerMethodAccess(v, name) ==
    IF ArenaAccess[name] = "read"
    THEN ~\E i \in DOMAIN v.loans : v.loans[i].f = <<>> /\ v.loans[i].mut
    ELSE ~hasAnyBorrow(v)

checkStdReceiverKind(v, m) ==
    /\ m.self = "val" => ~v.borrowed
    /\ m.self = "mut" => (v.borrowed => v.mutBorrow)

\* A borrow cannot be consumed by its own method.
checkConsumingReceiverOwned(s, e) ==
    LET v == s.b[lookup(s, e.on.x)]
    IN  Require(s, ~(/\ e.on.p = <<>> /\ (v.borrowed \/ v.local)
                     /\ functionConsumesReceiver(Methods[<<Last(v.ty), e.name>>], e.name)))

(***************************************************************************)
(* Returns and the exits in the middle of a statement                      *)
(***************************************************************************)
\* A mutant: the values the statement holds are forgotten at an exit.
checkNothingPending(s, before, own) == s

\* An exit taken here would drop the owners the statement already holds; what
\* the exit itself unwraps is not one of them.
checkNoPendingOwnerTemps(s, before, own) ==
    Require(s, \A i \in DOMAIN before.temps : before.temps[i] = own)

\* The errdefers an error exit skips: their value is gone.  One whose value is
\* lent cannot run at all.
validateErrDeferReceivers(s, site) ==
    LET live == {i \in DOMAIN s.errs : s.errs[i].id \in walkBindings(s)}
        gone == {i \in live : bindingConsumed(s.b[s.errs[i].id])}
        Lent(v) == \/ \E i \in DOMAIN v.loans : v.loans[i].f = <<>> /\ v.loans[i].mut
                   \/ Cardinality({i \in DOMAIN v.loans : v.loans[i].f = <<>>}) > v.reserved
    IN  [Require(s, \A i \in live \ gone : ~Lent(s.b[s.errs[i].id]))
            EXCEPT !.retired = (site :> {s.errs[i].at : i \in gone}) @@ @]

\* A deinit consumes every owner field of its receiver, or hands all of it on.
checkDeinitCompleteness(s) ==
    IF s.fn.self = <<>> \/ ~Known(s, "self") THEN s
    ELSE LET self == s.b[lookup(s, "self")]
         IN  Require(s, self.moved \/ OwnerFields(s.fn.self) \subseteq self.fieldDeinit)

\* A borrow leaves only as the declared borrow of a parameter.
borrowedReturnAllowed(s, x, v) ==
    /\ Head(s.fn.ret) \in {"&", "&var"}
    /\ Tail(s.fn.ret) = v.ty
    /\ Head(s.fn.ret) = "&var" => v.mutBorrow
    /\ \E i \in DOMAIN s.fn.params : s.fn.params[i].name = x /\ s.fn.params[i].mode # "val"

\* Leaving the loop skips the releases the body has not reached.
checkLoopBranch(s) ==
    IF s.loops = <<>> THEN Fail(s) ELSE checkOwnersConsumed(s, Last(s.loops), FALSE)

(***************************************************************************)
(* Bindings and assignments                                                *)
(***************************************************************************)

\* A wrapped owner is consumed where it is produced.
rejectStoredOptional(s, ty) ==
    Require(s, ~(Head(ty) \in {"?", "!"} /\ valueTypeNeedsConsume(Tail(ty))))

BorrowBinding(ty, mut) ==
    [newBinding(ty) EXCEPT !.borrowed = TRUE, !.local = TRUE, !.mutBorrow = mut]

\* A cleanup stands for the value that was there when it was written.
checkCleanupReceiverOverwrite(s, id) ==
    Require(s, ~s.b[id].deferred /\ ~errDeferCoversID(s, id))

checkAssignmentBorrowConflict(v, f) ==
    /\ v.borrowed => v.mutBorrow
    /\ ~\E i \in DOMAIN v.loans : fieldPathsOverlap(v.loans[i].f, f)

(***************************************************************************)
(* Branches, loops and matches                                             *)
(***************************************************************************)
RECURSIVE blockTerminates(_)

\* Only a return ends a block for good; a break or a continue does not count.
stmtTerminates(st) ==
    CASE st.k = "return" -> TRUE
      [] st.k = "if" -> st.hasElse /\ blockTerminates(st.then) /\ blockTerminates(st.else)
      [] st.k = "match" -> /\ st.arms # <<>>
                           /\ \A i \in DOMAIN st.arms : blockTerminates(st.arms[i].body)
      [] OTHER -> FALSE

blockTerminates(block) == block # <<>> /\ stmtTerminates(Last(block))

\* What a path did to the values of s, carried out past the end of the path;
\* everything else it did to them is forgotten.
mergeMovedFrom(s, path) ==
    [s EXCEPT !.b = [id \in DOMAIN s.b |->
        IF id \notin walkBindings(s) THEN s.b[id]
        ELSE [s.b[id] EXCEPT !.moved = @ \/ path.b[id].moved,
                             !.deinit = @ \/ path.b[id].deinit,
                             !.fieldDeinit = @ \cup path.b[id].fieldDeinit]]]

checkCapturePayloadConsumed(s, x) ==
    Require(s, x = "" \/ ~bindingNeedsConsume(s.b[Last(s.scopes)[x]]))

matchesOwnerUnionDeinit(s, e) ==
    e.k = "place" /\ e.p = <<>> /\ insideDeinitOf(s, e.x, s.b[lookup(s, e.x)].ty)

\* A named value, or the fresh result of a call, hands its payload over.
matchScrutineeOwner(s, e) ==
    /\ e.k = "place" /\ e.p = <<>>
    /\ LET v == s.b[lookup(s, e.x)] IN ~v.borrowed /\ ~v.local /\ v.handle = 0

matchScrutineeOwned(s, e) ==
    matchScrutineeOwner(s, e) \/ (e.k = "call" /\ Head(Fn(e.fn).ret) \notin {"&", "&var"})

=============================================================================
