------------------------------- MODULE Backend -------------------------------
(***************************************************************************)
(* The algorithms the backends are built on: the order and the dominator    *)
(* tree of a control flow graph, as the compiler finds them                 *)
(* (internal/ir/verify.go; internal/wasm/structure.go does the same over    *)
(* names), and the order in which the copies of an edge are written         *)
(* (internal/wasm/control.go).                                              *)
(*                                                                         *)
(* Blocks are listed in reverse postorder; the tree comes of rounds over    *)
(* that order, each block taking the nearest common ancestor of the         *)
(* predecessors already placed, until a round changes nothing.              *)
(*                                                                         *)
(* A graph of blocks is succs, for each block those its edges go to, or     *)
(* preds, for each block those its edges come from; the entry is block 1.   *)
(* The tree is over places in the order, 0 for a block no path reaches:     *)
(* idom has the place of each block's immediate dominator, the entry being  *)
(* its own, and 0 while the block has not been placed.                      *)
(*                                                                         *)
(* Nothing here is a recursive operator: a loop is a recursive function of  *)
(* the turns it has taken.                                                  *)
(***************************************************************************)
EXTENDS Integers, Sequences

\* v: TLC keeps the value it compares, and not the steps to it.
Held(v) == IF v = v THEN v ELSE v

\* The state of a loop after some turns: body gives the state a turn leaves
\* from the number of the turn and the state it finds.
Loop(body, start, turns) ==
    LET at[t \in Nat] == IF t = 0 THEN start ELSE body[<<t, at[t - 1]>>]
    IN  at[turns]

-----------------------------------------------------------------------------
(* Reverse postorder. *)

\* visit, a turn at a time: the block opened last opens the first of its
\* targets that is not visited, or is done and goes before those done already.
Visit(succs, s) ==
    LET b == s.open[Len(s.open)]
        fresh == {k \in DOMAIN succs[b] : succs[b][k] \notin s.visited}
        to == succs[b][CHOOSE k \in fresh : \A j \in fresh : k <= j]
    IN  IF s.open = <<>> THEN s
        ELSE IF fresh = {}
        THEN [open |-> SubSeq(s.open, 1, Len(s.open) - 1), visited |-> s.visited,
              order |-> <<b>> \o s.order]
        ELSE [open |-> Append(s.open, to), visited |-> s.visited \cup {to}, order |-> s.order]

\* Each block is opened once and done once, so two turns a block are enough.
Postorder(succs, turns) ==
    LET blocks == DOMAIN succs
        visit == [s \in Nat \X [open : Seq(blocks), visited : SUBSET blocks, order : Seq(blocks)] |->
                    Visit(succs, s[2])]
    IN  Loop(visit, [open |-> <<1>>, visited |-> {1}, order |-> <<>>], turns)

postorderReversed(succs) == Postorder(succs, 2 * Len(succs)).order

-----------------------------------------------------------------------------
(* The tree over the places of an order. *)

\* meet: idom comes earlier in the order, so the later of two blocks climbs
\* until both are the same one; a turn after that changes nothing.
meet(idom, left, right) ==
    LET blocks == 1..Len(idom)
        climb == [s \in Nat \X (blocks \X blocks) |->
                    LET l == s[2][1]
                        r == s[2][2]
                    IN  IF l > r THEN <<idom[l], r>>
                        ELSE IF r > l THEN <<l, idom[r]>> ELSE <<l, r>>]
    IN  Loop(climb, <<left, right>>, left + right)[1]

\* Mutant: one predecessor, the first to be placed, stands for all.
NearestFirst(idom, from) ==
    LET placed == {k \in DOMAIN from : from[k] # 0 /\ idom[from[k]] # 0}
    IN  IF placed = {} THEN 0 ELSE from[CHOOSE k \in placed : \A j \in placed : k <= j]

\* What a block takes: the meet of the predecessors placed so far, 0 when
\* none is.
Nearest(idom, from) ==
    LET take == [s \in Nat \X (0..Len(idom)) |->
                   LET at == from[s[1]]
                   IN  IF at = 0 \/ idom[at] = 0 THEN s[2]
                       ELSE IF s[2] = 0 THEN at ELSE meet(idom, s[2], at)]
    IN  Loop(take, 0, Len(from))

\* One block takes its place.
Place(idom, b, nearest) == IF nearest = 0 THEN idom ELSE [idom EXCEPT ![b] = nearest]

\* One round over the blocks after the first.
Round(preds, idom) ==
    LET turn == [s \in Nat \X [1..Len(idom) -> 0..Len(idom)] |->
                   Place(s[2], s[1] + 1, Nearest(s[2], preds[s[1] + 1]))]
    IN  Loop(turn, idom, Len(idom) - 1)

Unplaced(n) == [b \in 1..n |-> IF b = 1 THEN 1 ELSE 0]

\* The tree after some rounds.
AfterRounds(preds, k) ==
    LET round == [s \in Nat \X [1..Len(preds) -> 0..Len(preds)] |-> Round(preds, s[2])]
    IN  Loop(round, Unplaced(Len(preds)), k)

\* Rounds are repeated until one changes nothing.
immediateDominators(preds) ==
    LET last == CHOOSE k \in 0..(Len(preds) * Len(preds)) :
                   AfterRounds(preds, k + 1) = AfterRounds(preds, k)
    IN  AfterRounds(preds, last)

\* dominates: climbing from a block arrives at the other.
Climbs(idom, b, d) ==
    LET up == [s \in Nat \X (1..Len(idom)) |-> IF s[2] = d THEN d ELSE idom[s[2]]]
    IN  Loop(up, b, b) = d

-----------------------------------------------------------------------------
(* The tree over the blocks of a graph. *)

\* A predecessor no path reaches has no place.
DominatorTree(succs, preds) ==
    LET order == postorderReversed(succs)
        place == [b \in DOMAIN succs |->
                    IF \E i \in DOMAIN order : order[i] = b
                    THEN CHOOSE i \in DOMAIN order : order[i] = b ELSE 0]
        from == [i \in DOMAIN order |->
                    [k \in DOMAIN preds[order[i]] |-> place[preds[order[i]][k]]]]
    IN  [order |-> order, place |-> place, from |-> Held(from),
         idom |-> immediateDominators(Held(from))]

\* Nothing is claimed about a block no path reaches.
dominates(tree, d, b) ==
    IF tree.place[b] = 0 THEN TRUE
    ELSE IF tree.place[d] = 0 THEN FALSE
    ELSE Climbs(tree.idom, tree.place[b], tree.place[d])

-----------------------------------------------------------------------------
(* The copies an edge of the control flow makes (internal/wasm/control.go,  *)
(* writePhiCopies).  A copy assigns the phi dst what the expression src     *)
(* says, which reads the cells in reads; spare is where each phi's value    *)
(* can be kept.                                                             *)

Get(local) == <<"get", local>>

\* Whether a copy still waiting reads the phi that the copy at k assigns.
phiCopyRead(pending, k) ==
    \E other \in DOMAIN pending \ {k} : pending[k].dst \in pending[other].reads

Ready(pending) == {k \in DOMAIN pending : ~phiCopyRead(pending, k)}

FirstReady(pending) == CHOOSE k \in Ready(pending) : \A j \in Ready(pending) : k <= j

\* What a turn writes: the first copy that is ready; when none is, the copies
\* go in circles, and the first phi's value is parked.
Move(pending, spare) ==
    LET next == pending[FirstReady(pending)]
        parked == pending[1].dst
    IN  IF Ready(pending) # {} THEN [dst |-> next.dst, src |-> next.src]
        ELSE [dst |-> spare[parked], src |-> Get(parked)]

\* What is read where it was is read where it is parked.
Redirected(copy, parked, to) ==
    IF copy.src = Get(parked) THEN [dst |-> copy.dst, src |-> Get(to), reads |-> {to}] ELSE copy

\* What a turn leaves waiting.
Waiting(pending, spare) ==
    LET k == FirstReady(pending)
        parked == pending[1].dst
    IN  IF pending = <<>> THEN pending
        ELSE IF Ready(pending) # {}
        THEN [i \in 1..(Len(pending) - 1) |-> IF i < k THEN pending[i] ELSE pending[i + 1]]
        ELSE [i \in 1..Len(pending) |-> Redirected(pending[i], parked, spare[parked])]

Assigned(copies) == {copies[k].dst : k \in DOMAIN copies}

\* The copies that may come to wait on an edge that makes these.
Waits(copies, spare) ==
    [dst : Assigned(copies),
     src : {copies[k].src : k \in DOMAIN copies} \cup {Get(spare[d]) : d \in Assigned(copies)},
     reads : {copies[k].reads : k \in DOMAIN copies} \cup {{spare[d]} : d \in Assigned(copies)}]

\* The copies waiting after some turns.
Pending(copies, spare, turns) ==
    LET turn == [s \in Nat \X Seq(Waits(copies, spare)) |-> Waiting(s[2], spare)]
    IN  Loop(turn, copies, turns)

\* A circle is opened once and each copy made once, and a circle has two copies.
PhiTurns(copies) == 2 * Len(copies)

-----------------------------------------------------------------------------
(* What the tree and the copies are for. *)

Leads(preds, a, b) == \E i \in DOMAIN preds[b] : preds[b][i] = a

\* Reverse postorder: each block but the first has an edge from an earlier one.
Ordered(preds) ==
    \A b \in 2..Len(preds) : \E a \in 1..(b - 1) : Leads(preds, a, b)

Path(preds, p) ==
    /\ p # <<>> /\ p[1] = 1
    /\ \A i \in 1..(Len(p) - 1) : Leads(preds, p[i], p[i + 1])

\* d dominates b: no path from the entry to b misses d.
Dominates(preds, d, b) ==
    \A p \in Seq(1..Len(preds)) :
        Path(preds, p) /\ p[Len(p)] = b => \E i \in DOMAIN p : p[i] = d

\* What a state of the cells becomes when the turns write, where ev has the
\* value of an expression in a state.
Executed(copies, spare, states, ev, state, turns) ==
    LET turn == [s \in Nat \X states |->
                   LET pending == Pending(copies, spare, s[1] - 1)
                       move == Move(pending, spare)
                   IN  IF pending = <<>> THEN s[2]
                       ELSE [s[2] EXCEPT ![move.dst] = ev[<<move.src, s[2]>>]]]
    IN  Loop(turn, state, turns)

=============================================================================
