----------------------------- MODULE BackendProofs -----------------------------
(***************************************************************************)
(* Proofs about the algorithms the backends are built on, for every graph   *)
(* and every size: the depth-first search finds an order to work in, the    *)
(* rounds over it settle, the dominator tree they settle on is the one the  *)
(* paths of the graph define, and the copies of an edge do what they would  *)
(* do all at once.                                                          *)
(***************************************************************************)
EXTENDS Backend, FiniteSetTheorems, SequenceTheorems, WellFoundedInduction, TLAPS

-----------------------------------------------------------------------------
(* Numbers and loops. *)

\* A set of numbers with 0 and the successor of each member has them all.
LEMMA NatSet ==
  ASSUME NEW S, 0 \in S, \A t \in Nat : t \in S => t + 1 \in S
  PROVE  \A t \in Nat : t \in S
<1> DEFINE R == OpToRel(<, Nat)
           T == {t \in Nat : t \notin S}
<1>1. IsWellFoundedOn(R, Nat)
  BY NatLessThanWellFounded
<1>2. \A x, y \in Nat : x < y => <<x, y>> \in R
  BY DEF OpToRel
<1> HIDE DEF R
<1>3. ASSUME T # {} PROVE FALSE
  <2>1. T \subseteq Nat
    OBVIOUS
  <2> HIDE DEF T
  <2>2. PICK x \in T : \A y \in T : <<y, x>> \notin R
    BY <1>1, <1>3, <2>1, WFMin
  <2>3. x \in Nat /\ x \notin S
    BY DEF T
  <2>4. x - 1 \in Nat /\ x - 1 < x /\ x = (x - 1) + 1
    BY <2>3
  <2>5. x - 1 \notin T
    BY <1>2, <2>2, <2>3, <2>4
  <2>6. x - 1 \in S
    BY <2>4, <2>5 DEF T
  <2> QED
    BY <2>3, <2>4, <2>6
<1> QED
  BY <1>3

\* A function that gives the states of a loop up to some turn.
Turns(body, start, f, n) ==
  f = [t \in 0..n |-> IF t = 0 THEN start ELSE body[<<t, f[t - 1]>>]]

\* There are such functions, up to every turn.
LEMMA TurnsExist ==
  \A body, start : \A n \in Nat : \E f : Turns(body, start, f, n)
<1> TAKE body, start
<1> DEFINE S == {n \in Nat : \E f : Turns(body, start, f, n)}
<1>1. 0 \in S
  <2>1. Turns(body, start, [t \in 0..0 |-> start], 0)
    BY DEF Turns
  <2> QED
    BY <2>1
<1>2. ASSUME NEW n \in Nat, n \in S PROVE n + 1 \in S
  <2>1. PICK f : Turns(body, start, f, n)
    BY <1>2
  <2> DEFINE g == [t \in 0..(n + 1) |-> IF t <= n THEN f[t] ELSE body[<<n + 1, f[n]>>]]
  <2>2. \A t \in 0..n : f[t] = IF t = 0 THEN start ELSE body[<<t, f[t - 1]>>]
    BY <2>1 DEF Turns
  <2>3. ASSUME NEW t \in 0..(n + 1)
        PROVE  g[t] = IF t = 0 THEN start ELSE body[<<t, g[t - 1]>>]
    <3>1. CASE t <= n
      <4>1. t \in 0..n /\ (t # 0 => t - 1 \in 0..(n + 1) /\ t - 1 <= n)
        BY <3>1
      <4> QED
        BY <2>2, <3>1, <4>1
    <3>2. CASE ~(t <= n)
      <4>1. t = n + 1 /\ t # 0 /\ t - 1 = n /\ n \in 0..(n + 1) /\ n <= n
        BY <3>2
      <4> QED
        BY <3>2, <4>1
    <3> QED
      BY <3>1, <3>2
  <2>4. Turns(body, start, g, n + 1)
    BY <2>3 DEF Turns
  <2> QED
    BY <2>4
<1> HIDE DEF S
<1>3. \A n \in Nat : n \in S
  BY <1>1, <1>2, NatSet
<1> QED
  BY <1>3 DEF S

\* Two of them agree where both are defined.
LEMMA TurnsAgree ==
  \A body, start, f, g : \A n, m \in Nat :
    Turns(body, start, f, n) /\ Turns(body, start, g, m) =>
      \A t \in Nat : t <= n /\ t <= m => f[t] = g[t]
<1> TAKE body, start, f, g
<1> TAKE n, m \in Nat
<1> HAVE Turns(body, start, f, n) /\ Turns(body, start, g, m)
<1> DEFINE S == {t \in Nat : t <= n /\ t <= m => f[t] = g[t]}
<1>1. \A t \in 0..n : f[t] = IF t = 0 THEN start ELSE body[<<t, f[t - 1]>>]
  BY DEF Turns
<1>2. \A t \in 0..m : g[t] = IF t = 0 THEN start ELSE body[<<t, g[t - 1]>>]
  BY DEF Turns
<1>3. 0 \in S
  <2>1. 0 \in 0..n /\ 0 \in 0..m
    OBVIOUS
  <2> QED
    BY <1>1, <1>2, <2>1
<1>4. ASSUME NEW t \in Nat, t \in S PROVE t + 1 \in S
  <2>1. CASE t + 1 <= n /\ t + 1 <= m
    <3>1. t + 1 \in 0..n /\ t + 1 \in 0..m /\ t + 1 # 0 /\ (t + 1) - 1 = t /\ t <= n /\ t <= m
      BY <2>1
    <3>2. f[t] = g[t]
      BY <1>4, <3>1
    <3>3. f[t + 1] = body[<<t + 1, f[t]>>] /\ g[t + 1] = body[<<t + 1, g[t]>>]
      BY <1>1, <1>2, <3>1
    <3> QED
      BY <3>2, <3>3
  <2> QED
    BY <2>1
<1> HIDE DEF S
<1>5. \A t \in Nat : t \in S
  BY <1>3, <1>4, NatSet
<1> QED
  BY <1>5 DEF S

\* A loop satisfies its equation.
LEMMA LoopIs ==
  \A body, start :
    /\ Loop(body, start, 0) = start
    /\ \A t \in Nat : Loop(body, start, t + 1) = body[<<t + 1, Loop(body, start, t)>>]
<1> TAKE body, start
<1> DEFINE Is(f) == f = [t \in Nat |-> IF t = 0 THEN start ELSE body[<<t, f[t - 1]>>]]
           Some(n) == CHOOSE f : Turns(body, start, f, n)
           g == [t \in Nat |-> Some(t)[t]]
<1>1. \A n \in Nat : Turns(body, start, Some(n), n)
  BY TurnsExist
<1> HIDE DEF Some
<1>2. ASSUME NEW t \in Nat
      PROVE  g[t] = IF t = 0 THEN start ELSE body[<<t, g[t - 1]>>]
  <2>1. Some(t)[t] = IF t = 0 THEN start ELSE body[<<t, Some(t)[t - 1]>>]
    BY <1>1 DEF Turns
  <2>2. ASSUME t # 0 PROVE Some(t)[t - 1] = Some(t - 1)[t - 1]
    <3>1. t - 1 \in Nat /\ t - 1 <= t /\ t - 1 <= t - 1
      BY <2>2
    <3> QED
      BY <1>1, <3>1, TurnsAgree
  <2>3. t # 0 => t - 1 \in Nat
    OBVIOUS
  <2> QED
    BY <2>1, <2>2, <2>3
<1>3. Is(g)
  BY <1>2
<1>4. Is(CHOOSE f : Is(f))
  BY <1>3
<1>5. \A k : Loop(body, start, k) = (CHOOSE f : Is(f))[k]
  BY DEF Loop
<1> DEFINE h == CHOOSE f : Is(f)
<1>6. \A t \in Nat : h[t] = IF t = 0 THEN start ELSE body[<<t, h[t - 1]>>]
  BY <1>4
<1> HIDE DEF h
<1>7. \A t \in Nat : t + 1 \in Nat /\ t + 1 # 0 /\ (t + 1) - 1 = t
  OBVIOUS
<1>8. h[0] = start /\ \A t \in Nat : h[t + 1] = body[<<t + 1, h[t]>>]
  BY <1>6, <1>7
<1> QED
  BY <1>5, <1>8 DEF h


-----------------------------------------------------------------------------
(* Trees and ancestors. *)

\* A tree over n blocks: each block but the first has an earlier one for its
\* immediate dominator, or none while it is not placed.
Tree(T, n) ==
  /\ n \in Nat \ {0}
  /\ T \in [1..n -> 0..n]
  /\ T[1] = 1
  /\ \A b \in 2..n : T[b] < b /\ (T[b] # 0 => T[T[b]] # 0)

Placed(T, b) == T[b] # 0

\* What climbing from b passes, b included: the least set with b that holds
\* the immediate dominator of each of its members.
Closed(T, S) == \A x \in S : T[x] # 0 => T[x] \in S

Anc(T, n, b) == {d \in 1..n : \A S \in SUBSET (1..n) : b \in S /\ Closed(T, S) => d \in S}

\* What climbing passes lies in every closed set with its start, is closed,
\* and holds its start.
LEMMA AncIs ==
  ASSUME NEW T, NEW n, Tree(T, n), NEW b \in 1..n
  PROVE  /\ b \in Anc(T, n, b) /\ Anc(T, n, b) \subseteq 1..n
         /\ Closed(T, Anc(T, n, b))
         /\ \A S \in SUBSET (1..n) : b \in S /\ Closed(T, S) => Anc(T, n, b) \subseteq S
<1>1. b \in Anc(T, n, b) /\ Anc(T, n, b) \subseteq 1..n
  BY DEF Anc
<1>2. \A S \in SUBSET (1..n) : b \in S /\ Closed(T, S) => Anc(T, n, b) \subseteq S
  BY DEF Anc
<1>3. ASSUME NEW x \in Anc(T, n, b), T[x] # 0 PROVE T[x] \in Anc(T, n, b)
  <2>1. x \in 1..n /\ T[x] \in 1..n
    BY <1>1, <1>3 DEF Tree
  <2>2. \A S \in SUBSET (1..n) : b \in S /\ Closed(T, S) => T[x] \in S
    BY <1>3 DEF Anc, Closed
  <2> QED
    BY <2>1, <2>2 DEF Anc
<1>4. Closed(T, Anc(T, n, b))
  BY <1>3 DEF Closed
<1> QED
  BY <1>1, <1>2, <1>4

\* An ancestor of an ancestor is an ancestor.
LEMMA AncTrans ==
  ASSUME NEW T, NEW n, Tree(T, n), NEW b \in 1..n, NEW e \in Anc(T, n, b)
  PROVE  Anc(T, n, e) \subseteq Anc(T, n, b)
<1>1. e \in 1..n /\ Anc(T, n, b) \in SUBSET (1..n) /\ Closed(T, Anc(T, n, b))
  BY AncIs
<1> QED
  BY <1>1, AncIs

\* The first block has no ancestor but itself, any other placed one those of
\* its immediate dominator besides.
LEMMA AncRoot ==
  ASSUME NEW T, NEW n, Tree(T, n) PROVE 1 \in 1..n /\ Anc(T, n, 1) = {1}
<1>1. 1 \in 1..n /\ {1} \in SUBSET (1..n) /\ Closed(T, {1})
  BY DEF Tree, Closed
<1> QED
  BY <1>1, AncIs

\* A block below the first has the ancestors of its immediate dominator, and itself.
LEMMA AncStep ==
  ASSUME NEW T, NEW n, Tree(T, n), NEW b \in 2..n, T[b] # 0
  PROVE  /\ T[b] \in 1..n /\ T[b] < b /\ T[T[b]] # 0
         /\ Anc(T, n, b) = {b} \cup Anc(T, n, T[b])
<1>1. b \in 1..n /\ T[b] \in 1..n /\ T[b] < b /\ T[T[b]] # 0
  BY DEF Tree
<1>2. b \in Anc(T, n, b) /\ T[b] \in Anc(T, n, b)
  BY <1>1, AncIs DEF Closed
<1>3. Anc(T, n, T[b]) \subseteq Anc(T, n, b)
  BY <1>1, <1>2, AncTrans
<1>4. T[b] \in Anc(T, n, T[b]) /\ Closed(T, Anc(T, n, T[b])) /\ Anc(T, n, T[b]) \subseteq 1..n
  BY <1>1, AncIs
<1> DEFINE S == {b} \cup Anc(T, n, T[b])
<1>5. S \in SUBSET (1..n) /\ b \in S /\ Closed(T, S)
  BY <1>1, <1>4 DEF Closed
<1> HIDE DEF S
<1>6. Anc(T, n, b) \subseteq S
  BY <1>1, <1>5, AncIs
<1> QED
  BY <1>1, <1>2, <1>3, <1>6 DEF S

\* The ancestors of a placed block are placed, and no later than it.
LEMMA AncBelow ==
  ASSUME NEW T, NEW n, Tree(T, n), NEW b \in 1..n, T[b] # 0
  PROVE  \A d \in Anc(T, n, b) : d \in 1..n /\ d <= b /\ T[d] # 0
<1> DEFINE S == {x \in 1..n : x <= b /\ T[x] # 0}
<1>1. ASSUME NEW x \in S, T[x] # 0 PROVE T[x] \in S
  <2>1. CASE x = 1
    BY <2>1 DEF Tree
  <2>2. CASE x # 1
    <3>1. x \in 2..n /\ x <= b
      BY <2>2 DEF Tree
    <3>2. T[x] \in 1..n /\ T[x] < x /\ T[T[x]] # 0
      BY <1>1, <3>1, AncStep
    <3> QED
      BY <3>1, <3>2
  <2> QED
    BY <2>1, <2>2
<1>2. S \in SUBSET (1..n) /\ b \in S /\ Closed(T, S)
  BY <1>1 DEF Closed
<1> QED
  BY <1>2, AncIs

\* Of two ancestors of a block the earlier is an ancestor of the later.
LEMMA AncTotal ==
  ASSUME NEW T, NEW n, Tree(T, n), NEW b \in 1..n, T[b] # 0,
         NEW d \in Anc(T, n, b), NEW e \in Anc(T, n, b), d <= e
  PROVE  d \in Anc(T, n, e)
<1>1. /\ d \in 1..n /\ T[d] # 0
      /\ e \in 1..n /\ T[e] # 0
  BY AncBelow
<1> DEFINE S == {x \in Anc(T, n, b) : e \in Anc(T, n, x)} \cup Anc(T, n, e)
<1>2. Anc(T, n, b) \subseteq 1..n /\ Closed(T, Anc(T, n, b)) /\ b \in Anc(T, n, b)
  BY AncIs
<1>3. Anc(T, n, e) \subseteq 1..n /\ Closed(T, Anc(T, n, e))
  BY <1>1, AncIs
<1>4. ASSUME NEW x \in S, T[x] # 0 PROVE T[x] \in S
  <2>1. CASE x \in Anc(T, n, e)
    BY <1>3, <1>4, <2>1 DEF Closed
  <2>2. CASE x \in Anc(T, n, b) /\ e \in Anc(T, n, x) /\ x \notin Anc(T, n, e)
    <3>1. x \in 1..n /\ T[x] \in Anc(T, n, b)
      BY <1>2, <1>4, <2>2 DEF Closed
    <3>2. x # e
      BY <1>1, <2>2, AncIs
    <3>3. x # 1
      BY <2>2, <3>2, AncRoot
    <3>4. x \in 2..n
      BY <3>1, <3>3
    <3>5. Anc(T, n, x) = {x} \cup Anc(T, n, T[x])
      BY <1>4, <3>4, AncStep
    <3> QED
      BY <2>2, <3>1, <3>2, <3>5
  <2> QED
    BY <2>1, <2>2
<1>5. S \in SUBSET (1..n) /\ b \in S /\ Closed(T, S)
  BY <1>2, <1>3, <1>4 DEF Closed
<1> HIDE DEF S
<1>6. Anc(T, n, b) \subseteq S
  BY <1>5, AncIs
<1>7. d \in Anc(T, n, e) \/ e \in Anc(T, n, d)
  BY <1>6 DEF S
<1>8. CASE e \in Anc(T, n, d)
  <2>1. e <= d
    BY <1>1, <1>8, AncBelow
  <2>2. e = d
    BY <1>1, <2>1
  <2> QED
    BY <1>8, <2>2
<1> QED
  BY <1>7, <1>8

-----------------------------------------------------------------------------
(* One block takes another place. *)

Moved(T, U, c, m) == U = [T EXCEPT ![c] = m]

\* An ancestry that does not pass the block stays.
LEMMA PlaceAside ==
  ASSUME NEW T, NEW n, Tree(T, n), NEW c \in 2..n, NEW m \in 1..n, m < c, T[m] # 0,
         NEW U, Moved(T, U, c, m),
         NEW x \in 1..n, T[x] # 0, c \notin Anc(T, n, x)
  PROVE  Tree(U, n) /\ Anc(U, n, x) = Anc(T, n, x)
<1>1. Tree(U, n)
  BY DEF Tree, Moved
<1>2. \A y \in 1..n : U[y] = IF y = c THEN m ELSE T[y]
  BY DEF Tree, Moved
<1>3. Anc(T, n, x) \in SUBSET (1..n) /\ x \in Anc(T, n, x) /\ Closed(U, Anc(T, n, x))
  BY <1>2, AncIs DEF Closed
<1>4. Anc(U, n, x) \subseteq Anc(T, n, x)
  BY <1>1, <1>3, AncIs
<1>5. Anc(U, n, x) \in SUBSET (1..n) /\ x \in Anc(U, n, x) /\ Closed(T, Anc(U, n, x))
  BY <1>1, <1>2, <1>4, AncIs DEF Closed
<1>6. Anc(T, n, x) \subseteq Anc(U, n, x)
  BY <1>5, AncIs
<1> QED
  BY <1>1, <1>4, <1>6

\* One that passes it goes on from the new place.
LEMMA PlaceThrough ==
  ASSUME NEW T, NEW n, Tree(T, n), NEW c \in 2..n, NEW m \in 1..n, m < c, T[m] # 0,
         NEW U, Moved(T, U, c, m),
         NEW x \in 1..n, T[x] # 0, c \in Anc(T, n, x)
  PROVE  /\ c \in Anc(U, n, x)
         /\ Anc(U, n, x) = {y \in Anc(T, n, x) : y >= c} \cup Anc(T, n, m)
<1>1. Tree(U, n)
  BY DEF Tree, Moved
<1>2. \A y \in 1..n : U[y] = IF y = c THEN m ELSE T[y]
  BY DEF Tree, Moved
<1>3. /\ Anc(T, n, x) \subseteq 1..n /\ x \in Anc(T, n, x) /\ Closed(T, Anc(T, n, x))
      /\ \A y \in Anc(T, n, x) : y <= x /\ T[y] # 0
  BY AncIs, AncBelow
<1>4. /\ Anc(T, n, m) \subseteq 1..n /\ m \in Anc(T, n, m) /\ Closed(T, Anc(T, n, m))
      /\ \A y \in Anc(T, n, m) : y <= m /\ T[y] # 0
  BY AncIs, AncBelow
<1> DEFINE S == {y \in Anc(T, n, x) : y >= c} \cup Anc(T, n, m)
<1>5. ASSUME NEW y \in S PROVE U[y] \in S
  <2>1. CASE y \in Anc(T, n, m)
    <3>1. y \in 1..n /\ y # c /\ T[y] \in Anc(T, n, m)
      BY <1>4, <2>1 DEF Closed
    <3> QED
      BY <1>2, <3>1
  <2>2. CASE y = c
    BY <1>2, <1>4, <2>2
  <2>3. CASE y \in Anc(T, n, x) /\ y >= c /\ y # c
    <3>1. y \in 2..n /\ T[y] # 0 /\ T[y] \in Anc(T, n, x)
      BY <1>3, <2>3 DEF Closed
    <3>2. c \in Anc(T, n, y)
      <4>1. c <= y
        BY <2>3, <3>1
      <4> QED
        BY <2>3, <4>1, AncTotal
    <3>3. T[y] \in 1..n /\ T[T[y]] # 0 /\ Anc(T, n, y) = {y} \cup Anc(T, n, T[y])
      BY <3>1, AncStep
    <3>4. c \in Anc(T, n, T[y])
      BY <2>3, <3>2, <3>3
    <3>5. c <= T[y]
      BY <3>3, <3>4, AncBelow
    <3>6. U[y] = T[y] /\ T[y] >= c
      BY <1>2, <2>3, <3>1, <3>3, <3>5
    <3> QED
      BY <3>1, <3>6
  <2> QED
    BY <2>1, <2>2, <2>3
<1>6. c <= x
  BY <1>3
<1>7. S \in SUBSET (1..n) /\ x \in S /\ Closed(U, S)
  BY <1>3, <1>4, <1>5, <1>6 DEF Closed
<1> HIDE DEF S
<1>8. Anc(U, n, x) \subseteq S
  BY <1>1, <1>7, AncIs
<1> DEFINE R == Anc(U, n, x) \cup {y \in 1..n : y < c}
<1>9. Anc(U, n, x) \subseteq 1..n /\ x \in Anc(U, n, x) /\ Closed(U, Anc(U, n, x))
  BY <1>1, AncIs
<1>10. ASSUME NEW y \in R, T[y] # 0 PROVE T[y] \in R
  <2>1. y \in 1..n /\ T[y] \in 1..n /\ T[y] <= y
    <3>1. y \in 1..n
      BY <1>9
    <3>2. y \in 2..n => T[y] < y
      BY DEF Tree
    <3>3. T[y] \in 1..n /\ (y = 1 => T[y] = 1)
      BY <1>10, <3>1 DEF Tree
    <3> QED
      BY <3>1, <3>2, <3>3
  <2>2. CASE y < c
    BY <2>1, <2>2
  <2>3. CASE y = c
    <3>1. T[y] < y
      BY <2>3 DEF Tree
    <3> QED
      BY <2>1, <2>3, <3>1
  <2>4. CASE y \in Anc(U, n, x) /\ y # c
    BY <1>2, <1>9, <1>10, <2>1, <2>4 DEF Closed
  <2> QED
    BY <2>1, <2>2, <2>3, <2>4
<1>11. R \in SUBSET (1..n) /\ x \in R /\ Closed(T, R)
  BY <1>9, <1>10 DEF Closed
<1> HIDE DEF R
<1>12. Anc(T, n, x) \subseteq R
  BY <1>11, AncIs
<1>13. \A y \in Anc(T, n, x) : y >= c => y \in Anc(U, n, x)
  <2>1. \A y \in 1..n : y >= c => ~(y < c)
    OBVIOUS
  <2> QED
    BY <1>3, <1>12, <2>1 DEF R
<1>14. c \in Anc(U, n, x)
  <2>1. c >= c
    OBVIOUS
  <2> QED
    BY <1>13, <2>1
<1>15. Anc(U, n, c) \subseteq Anc(U, n, x)
  BY <1>1, <1>14, AncTrans
<1>16. Anc(U, n, c) = {c} \cup Anc(U, n, m)
  <2>1. U[c] = m /\ U[c] # 0
    BY <1>2
  <2> QED
    BY <1>1, <2>1, AncStep
<1>17. c \notin Anc(T, n, m)
  BY <1>4
<1>18. Anc(U, n, m) = Anc(T, n, m)
  BY <1>17, PlaceAside
<1> QED
  BY <1>8, <1>13, <1>14, <1>15, <1>16, <1>18 DEF S

-----------------------------------------------------------------------------
(* The meet of blocks. *)

\* A tree over n blocks is a sequence of n places.
LEMMA TreeLen == ASSUME NEW T, NEW n, Tree(T, n) PROVE n \in Nat /\ Len(T) = n
<1>1. n \in Nat /\ DOMAIN T = 1..n
  BY DEF Tree
<1>2. T \in Seq(0..n)
  BY <1>1 DEF Tree
<1> QED
  BY <1>1, <1>2

\* Where climbing has come to, on the way to what two blocks have in common.
Climbing(T, n, l, r, t, p) ==
  /\ p \in (1..n) \X (1..n)
  /\ T[p[1]] # 0 /\ T[p[2]] # 0
  /\ p[1] \in Anc(T, n, l) /\ p[2] \in Anc(T, n, r)
  /\ Anc(T, n, p[1]) \cap Anc(T, n, p[2]) = Anc(T, n, l) \cap Anc(T, n, r)
  /\ p[1] = p[2] \/ p[1] + p[2] + t <= l + r

\* The later of two blocks is no ancestor of the earlier, so it may climb.
LEMMA ClimbLater ==
  ASSUME NEW T, NEW n, Tree(T, n), NEW l \in 1..n, NEW r \in 1..n, T[l] # 0, T[r] # 0, l > r
  PROVE  /\ T[l] \in 1..n /\ T[l] < l /\ T[T[l]] # 0 /\ T[l] \in Anc(T, n, l)
         /\ Anc(T, n, T[l]) \cap Anc(T, n, r) = Anc(T, n, l) \cap Anc(T, n, r)
<1>1. l \in 2..n
  OBVIOUS
<1>2. /\ T[l] \in 1..n /\ T[l] < l /\ T[T[l]] # 0
      /\ Anc(T, n, l) = {l} \cup Anc(T, n, T[l])
  BY <1>1, AncStep
<1>3. l \notin Anc(T, n, r)
  BY AncBelow
<1>4. T[l] \in Anc(T, n, T[l])
  BY <1>2, AncIs
<1> QED
  BY <1>2, <1>3, <1>4

\* meet: the block two climb to is placed, and its ancestors are those the two
\* have in common.
LEMMA MeetIs ==
  ASSUME NEW T, NEW n, Tree(T, n), NEW l \in 1..n, NEW r \in 1..n, T[l] # 0, T[r] # 0
  PROVE  /\ meet(T, l, r) \in 1..n /\ T[meet(T, l, r)] # 0
         /\ Anc(T, n, meet(T, l, r)) = Anc(T, n, l) \cap Anc(T, n, r)
<1> DEFINE climb == [s \in Nat \X ((1..Len(T)) \X (1..Len(T))) |->
                       LET i == s[2][1]
                           j == s[2][2]
                       IN  IF i > j THEN <<T[i], j>>
                           ELSE IF j > i THEN <<i, T[j]>> ELSE <<i, j>>]
<1>1. meet(T, l, r) = Loop(climb, <<l, r>>, l + r)[1]
  BY DEF meet
<1>3. n \in Nat /\ Len(T) = n
  BY TreeLen
<1>4. \A k \in Nat : \A i, j \in 1..n :
        climb[<<k, <<i, j>> >>] = IF i > j THEN <<T[i], j>>
                                 ELSE IF j > i THEN <<i, T[j]>> ELSE <<i, j>>
  BY <1>3
<1> HIDE DEF climb
<1> DEFINE at(t) == Loop(climb, <<l, r>>, t)
           S == {t \in Nat : Climbing(T, n, l, r, t, at(t))}
<1>2. at(0) = <<l, r>> /\ \A t \in Nat : at(t + 1) = climb[<<t + 1, at(t)>>]
  BY LoopIs
<1> HIDE DEF at
<1>5. 0 \in S
  <2>1. l \in Anc(T, n, l) /\ r \in Anc(T, n, r)
    BY AncIs
  <2> QED
    BY <1>2, <2>1 DEF Climbing
<1>6. ASSUME NEW t \in Nat, t \in S PROVE t + 1 \in S
  <2>0. Climbing(T, n, l, r, t, at(t))
    BY <1>6
  <2>1. PICK i \in 1..n, j \in 1..n : at(t) = <<i, j>>
    BY <2>0 DEF Climbing
  <2>2. /\ T[i] # 0 /\ T[j] # 0
        /\ i \in Anc(T, n, l) /\ j \in Anc(T, n, r)
        /\ Anc(T, n, i) \cap Anc(T, n, j) = Anc(T, n, l) \cap Anc(T, n, r)
        /\ i = j \/ i + j + t <= l + r
    BY <2>0, <2>1 DEF Climbing
  <2>3. at(t + 1) = IF i > j THEN <<T[i], j>> ELSE IF j > i THEN <<i, T[j]>> ELSE <<i, j>>
    <3>1. t + 1 \in Nat /\ at(t + 1) = climb[<<t + 1, at(t)>>]
      BY <1>2
    <3>2. at(t + 1) = climb[<<t + 1, <<i, j>> >>]
      BY <2>1, <3>1
    <3> QED
      BY <1>4, <3>1, <3>2
  <2>4. CASE i > j
    <3>1. /\ T[i] \in 1..n /\ T[i] < i /\ T[T[i]] # 0 /\ T[i] \in Anc(T, n, i)
          /\ Anc(T, n, T[i]) \cap Anc(T, n, j) = Anc(T, n, i) \cap Anc(T, n, j)
      BY <2>2, <2>4, ClimbLater
    <3>2. T[i] \in Anc(T, n, l)
      BY <2>2, <3>1, AncTrans
    <3>3. T[i] + j + (t + 1) <= l + r
      BY <2>2, <2>4, <3>1
    <3>4. at(t + 1) = <<T[i], j>>
      BY <2>3, <2>4
    <3>5. Climbing(T, n, l, r, t + 1, <<T[i], j>>)
      BY <2>2, <3>1, <3>2, <3>3 DEF Climbing
    <3> QED
      BY <3>4, <3>5
  <2>5. CASE j > i
    <3>1. /\ T[j] \in 1..n /\ T[j] < j /\ T[T[j]] # 0 /\ T[j] \in Anc(T, n, j)
          /\ Anc(T, n, T[j]) \cap Anc(T, n, i) = Anc(T, n, j) \cap Anc(T, n, i)
      BY <2>2, <2>5, ClimbLater
    <3>2. T[j] \in Anc(T, n, r)
      BY <2>2, <3>1, AncTrans
    <3>3. i + T[j] + (t + 1) <= l + r
      BY <2>2, <2>5, <3>1
    <3>4. at(t + 1) = <<i, T[j]>>
      BY <2>3, <2>5
    <3>5. Climbing(T, n, l, r, t + 1, <<i, T[j]>>)
      BY <2>2, <3>1, <3>2, <3>3 DEF Climbing
    <3> QED
      BY <3>4, <3>5
  <2>6. CASE i = j
    <3>1. at(t + 1) = <<i, j>>
      BY <2>3, <2>6
    <3>2. Climbing(T, n, l, r, t + 1, <<i, j>>)
      BY <2>2, <2>6 DEF Climbing
    <3> QED
      BY <3>1, <3>2
  <2> QED
    BY <2>4, <2>5, <2>6
<1> HIDE DEF S
<1>7. \A t \in Nat : t \in S
  BY <1>5, <1>6, NatSet
<1>8. Climbing(T, n, l, r, l + r, at(l + r))
  <2>1. l + r \in Nat
    OBVIOUS
  <2> QED
    BY <1>7, <2>1 DEF S
<1>9. PICK i \in 1..n, j \in 1..n : at(l + r) = <<i, j>>
  BY <1>8 DEF Climbing
<1>10. i = j /\ T[i] # 0 /\ Anc(T, n, i) \cap Anc(T, n, j) = Anc(T, n, l) \cap Anc(T, n, r)
  BY <1>8, <1>9 DEF Climbing
<1> QED
  BY <1>1, <1>9, <1>10 DEF at

\* The placed blocks among the first k a block is reached from.
Met(T, n, from, k) == {a \in 1..n : T[a] # 0 /\ \E i \in 1..k : from[i] = a}

\* c is their meet: 0 when there are none, else the placed block whose
\* ancestors are those they have in common.
MeetOf(T, n, P, c) ==
  /\ c \in 0..n
  /\ c = 0 <=> P = {}
  /\ c # 0 => /\ T[c] # 0
              /\ Anc(T, n, c) = {y \in 1..n : \A a \in P : y \in Anc(T, n, a)}

\* One more block brings the meet of a set to that of the larger one.
LEMMA MeetAdds ==
  ASSUME NEW T, NEW n, Tree(T, n), NEW P, P \subseteq 1..n, \A a \in P : T[a] # 0,
         NEW c, MeetOf(T, n, P, c), NEW b \in 1..n, T[b] # 0
  PROVE  MeetOf(T, n, P \cup {b}, IF c = 0 THEN b ELSE meet(T, c, b))
<1>1. CASE c = 0
  <2>0. b # 0 /\ b \in 0..n
    BY DEF Tree
  <2>1. P \cup {b} = {b} /\ b # 0 /\ b \in 0..n
    <3>1. P = {}
      BY <1>1 DEF MeetOf
    <3> QED
      BY <2>0, <3>1
  <2>2. Anc(T, n, b) = {y \in 1..n : y \in Anc(T, n, b)}
    BY AncIs
  <2> QED
    BY <1>1, <2>1, <2>2 DEF MeetOf
<1>2. CASE c # 0
  <2>1. c \in 1..n /\ T[c] # 0 /\ Anc(T, n, c) = {y \in 1..n : \A a \in P : y \in Anc(T, n, a)}
    BY <1>2 DEF MeetOf
  <2>2. /\ meet(T, c, b) \in 1..n /\ T[meet(T, c, b)] # 0
        /\ Anc(T, n, meet(T, c, b)) = Anc(T, n, c) \cap Anc(T, n, b)
    BY <2>1, MeetIs
  <2>3. Anc(T, n, c) \cap Anc(T, n, b) = {y \in 1..n : \A a \in P \cup {b} : y \in Anc(T, n, a)}
    BY <2>1
  <2>4. P \cup {b} # {} /\ meet(T, c, b) # 0 /\ meet(T, c, b) \in 0..n
    BY <2>2
  <2> QED
    BY <1>2, <2>2, <2>3, <2>4 DEF MeetOf
<1> QED
  BY <1>1, <1>2

\* What a block takes is the meet of its placed predecessors.
LEMMA NearestIs ==
  ASSUME NEW T, NEW n, Tree(T, n), NEW from \in Seq(0..n)
  PROVE  MeetOf(T, n, Met(T, n, from, Len(from)), Nearest(T, from))
<1> DEFINE take == [s \in Nat \X (0..Len(T)) |->
                      LET at == from[s[1]]
                      IN  IF at = 0 \/ T[at] = 0 THEN s[2]
                          ELSE IF s[2] = 0 THEN at ELSE meet(T, s[2], at)]
<1>0. \A i \in 1..Len(from) : from[i] \in 0..n
  BY ElementOfSeq
<1>1. Nearest(T, from) = Loop(take, 0, Len(from))
  BY DEF Nearest
<1>2. n \in Nat /\ Len(T) = n /\ Len(from) \in Nat
  BY TreeLen
<1>3. \A k \in Nat : \A c \in 0..n :
        take[<<k, c>>] = IF from[k] = 0 \/ T[from[k]] = 0 THEN c
                         ELSE IF c = 0 THEN from[k] ELSE meet(T, c, from[k])
  BY <1>2
<1> HIDE DEF take
<1> DEFINE at(k) == Loop(take, 0, k)
           S == {k \in Nat : k <= Len(from) => MeetOf(T, n, Met(T, n, from, k), at(k))}
<1>4. at(0) = 0 /\ \A k \in Nat : at(k + 1) = take[<<k + 1, at(k)>>]
  BY LoopIs
<1> HIDE DEF at
<1>5. 0 \in S
  <2>1. Met(T, n, from, 0) = {}
    BY DEF Met
  <2> QED
    BY <1>2, <1>4, <2>1 DEF MeetOf
<1>6. ASSUME NEW k \in Nat, k \in S PROVE k + 1 \in S
  <2> SUFFICES ASSUME k + 1 <= Len(from)
               PROVE  MeetOf(T, n, Met(T, n, from, k + 1), at(k + 1))
    OBVIOUS
  <2> DEFINE P == Met(T, n, from, k)
             a == from[k + 1]
  <2>1. MeetOf(T, n, P, at(k)) /\ k + 1 \in 1..Len(from) /\ k + 1 \in Nat
    BY <1>2, <1>6
  <2>2. a \in 0..n
    BY <1>0, <2>1
  <2>3. at(k) \in 0..n
    BY <2>1 DEF MeetOf
  <2>4. at(k + 1) = IF a = 0 \/ T[a] = 0 THEN at(k)
                    ELSE IF at(k) = 0 THEN a ELSE meet(T, at(k), a)
    BY <1>3, <1>4, <2>1, <2>3
  <2>5. P \subseteq 1..n /\ \A x \in P : T[x] # 0
    BY DEF Met
  <2>6. \A i : i \in 1..(k + 1) <=> i \in 1..k \/ i = k + 1
    OBVIOUS
  <2>7. CASE a = 0 \/ T[a] = 0
    <3>1. Met(T, n, from, k + 1) = P
      BY <2>6, <2>7 DEF Met
    <3> QED
      BY <2>1, <2>4, <2>7, <3>1
  <2>8. CASE ~(a = 0 \/ T[a] = 0)
    <3>1. a \in 1..n /\ T[a] # 0
      BY <2>2, <2>8
    <3>2. Met(T, n, from, k + 1) = P \cup {a}
      BY <2>6, <3>1 DEF Met
    <3>3. MeetOf(T, n, P \cup {a}, IF at(k) = 0 THEN a ELSE meet(T, at(k), a))
      <4> HIDE DEF P, a
      <4> QED
        BY <2>1, <2>5, <3>1, MeetAdds
    <3> QED
      BY <2>4, <2>8, <3>2, <3>3
  <2> QED
    BY <2>7, <2>8
<1> HIDE DEF S
<1>7. \A k \in Nat : k \in S
  BY <1>5, <1>6, NatSet
<1>8. MeetOf(T, n, Met(T, n, from, Len(from)), at(Len(from)))
  BY <1>2, <1>7 DEF S
<1> QED
  BY <1>1, <1>8 DEF at

-----------------------------------------------------------------------------
(* Paths. *)

Graph(preds, n) ==
  /\ n \in Nat \ {0} /\ Len(preds) = n
  /\ \A b \in 1..n : preds[b] \in Seq(0..n)

\* b is reached from d through blocks no earlier than d.
Reaches(preds, n, d, b) ==
  \A S \in SUBSET (1..n) :
    d \in S /\ (\A a \in S : \A c \in 1..n : Leads(preds, a, c) /\ d <= c => c \in S) => b \in S

\* An edge carries it on.
LEMMA ReachesEdge ==
  ASSUME NEW preds, NEW n, NEW d \in 1..n, NEW a \in 1..n, NEW b \in 1..n,
         Reaches(preds, n, d, a), Leads(preds, a, b), d <= b
  PROVE  Reaches(preds, n, d, b)
BY DEF Reaches

\* So does a block reached further on.
LEMMA ReachesTrans ==
  ASSUME NEW preds, NEW n \in Nat, NEW d \in 1..n, NEW e \in 1..n, NEW b \in 1..n,
         Reaches(preds, n, d, e), Reaches(preds, n, e, b), d <= e
  PROVE  Reaches(preds, n, d, b)
<1> SUFFICES ASSUME NEW S \in SUBSET (1..n), d \in S,
                    \A a \in S : \A c \in 1..n : Leads(preds, a, c) /\ d <= c => c \in S
             PROVE  b \in S
  BY DEF Reaches
<1>1. e \in S
  BY DEF Reaches
<1>2. \A c \in 1..n : e <= c => d <= c
  OBVIOUS
<1>3. \A a \in S : \A c \in 1..n : Leads(preds, a, c) /\ e <= c => c \in S
  BY <1>2
<1> QED
  BY <1>1, <1>3 DEF Reaches

\* A path to b, which d is not on.
Misses(preds, n, d, b, p) ==
  /\ p \in Seq(1..n) /\ Path(preds, p) /\ p[Len(p)] = b
  /\ \A i \in DOMAIN p : p[i] # d

\* A block that dominates is one no path misses.
LEMMA MissesIs ==
  ASSUME NEW preds, NEW n, Graph(preds, n), NEW d, NEW b
  PROVE  Dominates(preds, d, b) <=> ~\E p : Misses(preds, n, d, b, p)
BY DEF Dominates, Misses, Graph

\* A path is carried on by an edge to any block but the one it misses.
LEMMA MissesOn ==
  ASSUME NEW preds, NEW n, NEW d, NEW a \in 1..n, NEW b \in 1..n, NEW p,
         Misses(preds, n, d, a, p), Leads(preds, a, b), b # d
  PROVE  Misses(preds, n, d, b, Append(p, b))
<1> DEFINE q == Append(p, b)
<1>1. p \in Seq(1..n) /\ Path(preds, p) /\ p[Len(p)] = a /\ p # <<>>
  BY DEF Misses, Path
<1>2. /\ q \in Seq(1..n) /\ Len(q) = Len(p) + 1 /\ Len(p) \in Nat /\ Len(p) >= 1
      /\ q[Len(p) + 1] = b
      /\ \A i \in 1..Len(p) : q[i] = p[i]
  BY <1>1, AppendProperties, EmptySeq
<1>3. DOMAIN p = 1..Len(p) /\ DOMAIN q = 1..(Len(p) + 1)
  BY <1>1, <1>2
<1> HIDE DEF q
<1>4. p[1] = 1 /\ \A i \in 1..(Len(p) - 1) : Leads(preds, p[i], p[i + 1])
  BY <1>1 DEF Path
<1>5. q[1] = 1 /\ q # <<>>
  BY <1>2, <1>4
<1>6. ASSUME NEW i \in 1..(Len(q) - 1) PROVE Leads(preds, q[i], q[i + 1])
  <2>1. CASE i = Len(p)
    <3>1. q[i] = a /\ q[i + 1] = b
      BY <1>1, <1>2, <2>1
    <3> QED
      BY <3>1
  <2>2. CASE i # Len(p)
    <3>1. i \in 1..(Len(p) - 1) /\ i \in 1..Len(p) /\ i + 1 \in 1..Len(p)
      BY <1>2, <2>2
    <3>2. q[i] = p[i] /\ q[i + 1] = p[i + 1]
      BY <1>2, <3>1
    <3> QED
      BY <1>4, <3>1, <3>2
  <2> QED
    BY <2>1, <2>2
<1>7. Path(preds, q)
  BY <1>5, <1>6 DEF Path
<1>8. \A i \in DOMAIN p : p[i] # d
  BY DEF Misses
<1>9. ASSUME NEW i \in DOMAIN q PROVE q[i] # d
  <2>1. i \in 1..Len(p) \/ i = Len(p) + 1
    BY <1>2, <1>3
  <2> QED
    BY <1>2, <1>3, <1>8, <2>1
<1>10. q[Len(q)] = b
  BY <1>2
<1> QED
  BY <1>2, <1>7, <1>9, <1>10 DEF Misses, q

\* What dominates a block dominates each block it is reached from, unless it is
\* the block.
LEMMA DominatesBefore ==
  ASSUME NEW preds, NEW n, Graph(preds, n), NEW d, NEW a \in 1..n, NEW b \in 1..n,
         Leads(preds, a, b), Dominates(preds, d, b), b # d
  PROVE  Dominates(preds, d, a)
<1>1. ASSUME NEW p, Misses(preds, n, d, a, p) PROVE FALSE
  <2>1. Misses(preds, n, d, b, Append(p, b))
    BY <1>1, MissesOn
  <2> QED
    BY <2>1, MissesIs
<1> QED
  BY <1>1, MissesIs

\* What dominates a block reached from e through blocks no earlier than e, and
\* is itself earlier, dominates e.
LEMMA DominatesAbove ==
  ASSUME NEW preds, NEW n, Graph(preds, n), NEW d \in 1..n, NEW e \in 1..n, NEW b \in 1..n,
         Reaches(preds, n, e, b), Dominates(preds, d, b), d < e
  PROVE  Dominates(preds, d, e)
<1> SUFFICES ASSUME ~Dominates(preds, d, e) PROVE FALSE
  OBVIOUS
<1> DEFINE S == {x \in 1..n : \E p : Misses(preds, n, d, x, p)}
<1>1. e \in S
  BY MissesIs
<1>2. ASSUME NEW a \in S, NEW c \in 1..n, Leads(preds, a, c), e <= c PROVE c \in S
  <2>1. PICK p : Misses(preds, n, d, a, p)
    OBVIOUS
  <2>2. c # d
    BY <1>2
  <2>3. Misses(preds, n, d, c, Append(p, c))
    BY <1>2, <2>1, <2>2, MissesOn
  <2> QED
    BY <2>3
<1>3. S \in SUBSET (1..n)
  OBVIOUS
<1> HIDE DEF S
<1>4. b \in S
  BY <1>1, <1>2, <1>3 DEF Reaches
<1> QED
  BY <1>4, MissesIs DEF S

-----------------------------------------------------------------------------
(* What a tree under construction says of its graph. *)

\* The placed blocks with an edge to b.
In(preds, T, n, b) == {a \in 1..n : T[a] # 0 /\ Leads(preds, a, b)}

\* Before the turn of block i either all blocks are placed, or, in the first
\* round, those before it.
SoFar(T, n, i) ==
  (\A b \in 1..n : T[b] # 0) \/ (\A b \in 1..n : T[b] # 0 <=> b < i)

\* A block is reached from its immediate dominator through later blocks.
Below(preds, T, n) == \A b \in 2..n : T[b] # 0 => Reaches(preds, n, T[b], b)

\* No dominator is missing from the ancestors.
Kept(preds, T, n) ==
  \A b, d \in 1..n : T[b] # 0 /\ Dominates(preds, d, b) => d \in Anc(T, n, b)

\* What the predecessors have in common lies above the immediate dominator, so
\* the next meet does too.
Rising(preds, T, n) ==
  \A b \in 2..n : T[b] # 0 =>
    \A y \in 1..n : (\A a \in In(preds, T, n, b) : y \in Anc(T, n, a)) => y \in Anc(T, n, T[b])

\* An earlier predecessor's ancestors include the immediate dominator of a
\* block that has had its turn this round, and those of that dominator's
\* ancestors which have yet to have theirs otherwise.
Fresh(preds, T, n, i) ==
  \A b \in 2..n : T[b] # 0 =>
    \A a \in 1..n : a < b /\ Leads(preds, a, b) =>
      /\ b < i => T[b] \in Anc(T, n, a)
      /\ ~(b < i) => \A c \in Anc(T, n, T[b]) : i <= c => c \in Anc(T, n, a)

Stands(preds, T, n, i) ==
  /\ Tree(T, n) /\ SoFar(T, n, i)
  /\ Below(preds, T, n) /\ Kept(preds, T, n) /\ Rising(preds, T, n) /\ Fresh(preds, T, n, i)

\* A block is reached from each of its ancestors through blocks no earlier.
LEMMA ReachesFromAncestor ==
  ASSUME NEW preds, NEW T, NEW n, Tree(T, n), Below(preds, T, n),
         NEW b \in 1..n, T[b] # 0, NEW e \in Anc(T, n, b)
  PROVE  Reaches(preds, n, e, b)
<1> DEFINE S == {x \in Anc(T, n, b) : Reaches(preds, n, x, b)}
<1>1. /\ Anc(T, n, b) \subseteq 1..n /\ Closed(T, Anc(T, n, b)) /\ b \in Anc(T, n, b)
      /\ n \in Nat
  BY AncIs DEF Tree
<1>2. b \in S
  BY <1>1 DEF Reaches
<1>3. ASSUME NEW x \in S, T[x] # 0 PROVE T[x] \in S
  <2>1. T[x] \in Anc(T, n, b) /\ x \in 1..n
    BY <1>1, <1>3 DEF Closed
  <2>2. CASE x = 1
    BY <2>2 DEF Tree
  <2>3. CASE x # 1
    <3>1. x \in 2..n
      BY <2>1, <2>3
    <3>2. T[x] \in 1..n /\ T[x] < x /\ T[x] <= x /\ Reaches(preds, n, T[x], x)
      BY <1>3, <3>1 DEF Below, Tree
    <3>3. Reaches(preds, n, x, b)
      OBVIOUS
    <3>4. Reaches(preds, n, T[x], b)
      BY <1>1, <2>1, <3>2, <3>3, ReachesTrans
    <3> QED
      BY <2>1, <3>4
  <2> QED
    BY <2>2, <2>3
<1>4. S \in SUBSET (1..n) /\ Closed(T, S)
  BY <1>1, <1>3 DEF Closed
<1> HIDE DEF S
<1>5. Anc(T, n, b) \subseteq S
  BY <1>2, <1>4, AncIs
<1> QED
  BY <1>5 DEF S

\* The turn of block i: it takes m, the meet of its placed predecessors.
Turn(preds, T, n, i, m, U) ==
  /\ Graph(preds, n) /\ Ordered(preds) /\ Stands(preds, T, n, i)
  /\ i \in 2..n /\ m \in 1..n /\ m < i /\ T[m] # 0
  /\ Anc(T, n, m) = {y \in 1..n : \A a \in In(preds, T, n, i) : y \in Anc(T, n, a)}
  /\ \E a \in In(preds, T, n, i) : a < i
  /\ Moved(T, U, i, m)

\* The ancestors before a turn and after it.
Shift(T, n, i, m, U) ==
  /\ Tree(U, n)
  /\ \A x \in 1..n : U[x] = IF x = i THEN m ELSE T[x]
  /\ Anc(U, n, i) = {i} \cup Anc(T, n, m)
  /\ Anc(U, n, m) = Anc(T, n, m)
  /\ \A x \in 1..n : T[x] # 0 =>
       /\ i \notin Anc(T, n, x) => Anc(U, n, x) = Anc(T, n, x)
       /\ i \in Anc(T, n, x) =>
            /\ i \in Anc(U, n, x)
            /\ \A y \in 1..n : y < i => (y \in Anc(U, n, x) <=> y \in Anc(T, n, m))
       /\ \A y \in 1..n : i <= y => (y \in Anc(U, n, x) <=> y \in Anc(T, n, x))

\* A turn shifts the ancestors so.
LEMMA TurnShifts ==
  ASSUME NEW preds, NEW T, NEW n, NEW i, NEW m, NEW U, Turn(preds, T, n, i, m, U)
  PROVE  Shift(T, n, i, m, U)
<1>1. /\ Tree(T, n) /\ n \in Nat /\ i \in 2..n /\ i \in 1..n
      /\ m \in 1..n /\ m < i /\ T[m] # 0 /\ Moved(T, U, i, m)
  BY DEF Turn, Stands, Graph
<1>2. \A y \in Anc(T, n, m) : y \in 1..n /\ y <= m /\ T[y] # 0
  BY <1>1, AncBelow
<1>3. i \notin Anc(T, n, m)
  BY <1>1, <1>2
<1>4. Tree(U, n) /\ Anc(U, n, m) = Anc(T, n, m)
  BY <1>1, <1>3, PlaceAside
<1>5. \A x \in 1..n : U[x] = IF x = i THEN m ELSE T[x]
  BY <1>1 DEF Tree, Moved
<1>6. Anc(U, n, i) = {i} \cup Anc(T, n, m)
  <2>1. U[i] = m /\ U[i] # 0
    BY <1>1, <1>5
  <2> QED
    BY <1>1, <1>4, <2>1, AncStep
<1>7. ASSUME NEW x \in 1..n, T[x] # 0, i \in Anc(T, n, x)
      PROVE  /\ i \in Anc(U, n, x)
             /\ Anc(U, n, x) = {y \in Anc(T, n, x) : y >= i} \cup Anc(T, n, m)
  BY <1>1, <1>7, PlaceThrough
<1>8. ASSUME NEW x \in 1..n, T[x] # 0, i \notin Anc(T, n, x)
      PROVE  Anc(U, n, x) = Anc(T, n, x)
  BY <1>1, <1>8, PlaceAside
<1>9. ASSUME NEW x \in 1..n, T[x] # 0, i \in Anc(T, n, x), NEW y \in 1..n
      PROVE  /\ y < i => (y \in Anc(U, n, x) <=> y \in Anc(T, n, m))
             /\ i <= y => (y \in Anc(U, n, x) <=> y \in Anc(T, n, x))
  <2>1. Anc(U, n, x) = {z \in Anc(T, n, x) : z >= i} \cup Anc(T, n, m)
    BY <1>7, <1>9
  <2>2. CASE y < i
    <3>1. ~(y >= i) /\ ~(i <= y)
      BY <1>1, <2>2
    <3> QED
      BY <2>1, <2>2, <3>1
  <2>3. CASE i <= y
    <3>1. y >= i /\ ~(y < i) /\ y \notin Anc(T, n, m)
      BY <1>1, <1>2, <2>3
    <3> QED
      BY <2>1, <2>3, <3>1
  <2>4. y < i \/ i <= y
    BY <1>1
  <2> QED
    BY <2>2, <2>3, <2>4
<1>10. ASSUME NEW x \in 1..n, T[x] # 0
       PROVE  \A y \in 1..n : i <= y => (y \in Anc(U, n, x) <=> y \in Anc(T, n, x))
  BY <1>8, <1>9, <1>10
<1> QED
  BY <1>4, <1>5, <1>6, <1>7, <1>8, <1>9, <1>10 DEF Shift

\* What a turn finds, gathered for the steps below.
LEMMA TurnFinds ==
  ASSUME NEW preds, NEW T, NEW n, NEW i, NEW m, NEW U, Turn(preds, T, n, i, m, U)
  PROVE  /\ n \in Nat /\ i \in 1..n /\ m \in 1..n /\ m < i /\ T[m] # 0
         /\ Tree(T, n) /\ Below(preds, T, n) /\ Kept(preds, T, n)
         /\ Rising(preds, T, n) /\ Fresh(preds, T, n, i) /\ Graph(preds, n)
         /\ m \in Anc(T, n, m) /\ Anc(T, n, m) \subseteq 1..n
         /\ \A y \in 1..n : y \in Anc(T, n, m) <=> \A a \in In(preds, T, n, i) : y \in Anc(T, n, a)
         /\ \A x \in 1..n : U[x] # 0 <=> T[x] # 0 \/ x = i
         /\ T[i] # 0 => Anc(T, n, m) \subseteq Anc(T, n, T[i])
                        /\ Anc(T, n, T[i]) \subseteq Anc(T, n, i) /\ m <= T[i]
         /\ \A x \in 2..n : \E a \in 1..n : a < x /\ Leads(preds, a, x)
         /\ \A x \in 1..n : T[x] # 0 /\ i < x => \A a \in 1..n : T[a] # 0
         /\ \A x \in 1..n : x < i => T[x] # 0
<1>1. /\ n \in Nat /\ i \in 1..n /\ i \in 2..n /\ m \in 1..n /\ m < i /\ T[m] # 0
      /\ Tree(T, n) /\ Below(preds, T, n) /\ Kept(preds, T, n)
      /\ Rising(preds, T, n) /\ Fresh(preds, T, n, i) /\ Graph(preds, n)
  BY DEF Turn, Stands, Graph
<1>2. m \in Anc(T, n, m) /\ Anc(T, n, m) \subseteq 1..n
  BY <1>1, AncIs
<1>3. Anc(T, n, m) = {y \in 1..n : \A a \in In(preds, T, n, i) : y \in Anc(T, n, a)}
  BY DEF Turn
<1>4. \A y \in 1..n : y \in Anc(T, n, m) <=> \A a \in In(preds, T, n, i) : y \in Anc(T, n, a)
  BY <1>3
<1>5. \A x \in 1..n : U[x] # 0 <=> T[x] # 0 \/ x = i
  <2>1. \A x \in 1..n : U[x] = IF x = i THEN m ELSE T[x]
    BY TurnShifts DEF Shift
  <2>2. m # 0
    BY <1>1
  <2> QED
    BY <2>1, <2>2
<1>6. ASSUME T[i] # 0
      PROVE  Anc(T, n, m) \subseteq Anc(T, n, T[i]) /\ Anc(T, n, T[i]) \subseteq Anc(T, n, i) /\ m <= T[i]
  <2>1. \A y \in 1..n : (\A a \in In(preds, T, n, i) : y \in Anc(T, n, a)) => y \in Anc(T, n, T[i])
    BY <1>1, <1>6 DEF Rising
  <2>2. Anc(T, n, m) \subseteq Anc(T, n, T[i])
    BY <1>2, <1>4, <2>1
  <2>3. /\ T[i] \in 1..n /\ T[T[i]] # 0
        /\ Anc(T, n, i) = {i} \cup Anc(T, n, T[i])
    BY <1>1, <1>6, AncStep
  <2>4. m <= T[i]
    BY <1>1, <1>2, <2>2, <2>3, AncBelow
  <2> QED
    BY <2>2, <2>3, <2>4
<1>7. ASSUME NEW x \in 2..n PROVE \E a \in 1..n : a < x /\ Leads(preds, a, x)
  <2>1. Len(preds) = n /\ Ordered(preds)
    BY DEF Turn, Graph
  <2>2. PICK a \in 1..(x - 1) : Leads(preds, a, x)
    BY <2>1 DEF Ordered
  <2> QED
    BY <1>1, <2>2
<1>8. SoFar(T, n, i)
  BY DEF Turn, Stands
<1>9. \A x \in 1..n : T[x] # 0 /\ i < x => \A a \in 1..n : T[a] # 0
  BY <1>1, <1>8 DEF SoFar
<1>10. \A x \in 1..n : x < i => T[x] # 0
  BY <1>8 DEF SoFar
<1> QED
  BY <1>1, <1>2, <1>4, <1>5, <1>6, <1>7, <1>9, <1>10

\* The block of the turn is now placed too.
LEMMA TurnSoFar ==
  ASSUME NEW preds, NEW T, NEW n, NEW i, NEW m, NEW U, Turn(preds, T, n, i, m, U)
  PROVE  SoFar(U, n, i + 1)
<1>1. SoFar(T, n, i) /\ i \in 2..n /\ n \in Nat
  BY DEF Turn, Stands, Graph
<1>2. \A x \in 1..n : U[x] # 0 <=> T[x] # 0 \/ x = i
  BY TurnFinds
<1>3. \A x \in 1..n : x < i + 1 <=> x < i \/ x = i
  BY <1>1
<1>4. CASE \A b \in 1..n : T[b] # 0
  BY <1>2, <1>4 DEF SoFar
<1>5. CASE \A b \in 1..n : T[b] # 0 <=> b < i
  BY <1>2, <1>3, <1>5 DEF SoFar
<1> QED
  BY <1>1, <1>4, <1>5 DEF SoFar

\* It is reached from its new place: an earlier predecessor is.
LEMMA TurnBelow ==
  ASSUME NEW preds, NEW T, NEW n, NEW i, NEW m, NEW U, Turn(preds, T, n, i, m, U)
  PROVE  Below(preds, U, n)
<1> SUFFICES ASSUME NEW b \in 2..n, U[b] # 0 PROVE Reaches(preds, n, U[b], b)
  BY DEF Below
<1>0. b \in 1..n
  BY TurnFinds
<1>1. U[b] = IF b = i THEN m ELSE T[b]
  BY <1>0, TurnShifts DEF Shift
<1>2. CASE b # i
  BY <1>0, <1>1, <1>2, TurnFinds DEF Below
<1>3. CASE b = i
  <2>1. PICK a \in In(preds, T, n, i) : a < i
    BY DEF Turn
  <2>2. a \in 1..n /\ T[a] # 0 /\ Leads(preds, a, i)
    BY <2>1 DEF In
  <2>3. m \in Anc(T, n, a)
    BY <2>1, TurnFinds
  <2>4. Tree(T, n) /\ Below(preds, T, n) /\ m \in 1..n /\ m <= i /\ i \in 1..n
    BY TurnFinds
  <2>5. Reaches(preds, n, m, a)
    BY <2>2, <2>3, <2>4, ReachesFromAncestor
  <2>6. Reaches(preds, n, m, i)
    BY <2>2, <2>4, <2>5, ReachesEdge
  <2> QED
    BY <1>1, <1>3, <2>6
<1> QED
  BY <1>2, <1>3

\* What dominates the block dominates its predecessors, so the meet has it.
LEMMA TurnKept ==
  ASSUME NEW preds, NEW T, NEW n, NEW i, NEW m, NEW U, Turn(preds, T, n, i, m, U)
  PROVE  Kept(preds, U, n)
<1> SUFFICES ASSUME NEW b \in 1..n, NEW d \in 1..n, U[b] # 0, Dominates(preds, d, b)
             PROVE  d \in Anc(U, n, b)
  BY DEF Kept
<1>0. /\ Tree(T, n) /\ Below(preds, T, n) /\ Kept(preds, T, n) /\ Graph(preds, n) /\ i \in 1..n
      /\ \A y \in 1..n : y \in Anc(T, n, m) <=> \A a \in In(preds, T, n, i) : y \in Anc(T, n, a)
      /\ U[b] # 0 <=> T[b] # 0 \/ b = i
      /\ n \in Nat
  BY TurnFinds
<1>s. Shift(T, n, i, m, U)
  BY TurnShifts
<1>1. ASSUME NEW e \in 1..n, e # i, Dominates(preds, e, i) PROVE e \in Anc(T, n, m)
  <2>1. ASSUME NEW a \in In(preds, T, n, i) PROVE e \in Anc(T, n, a)
    <3>1. a \in 1..n /\ T[a] # 0 /\ Leads(preds, a, i)
      BY DEF In
    <3>2. Dominates(preds, e, a)
      BY <1>0, <1>1, <3>1, DominatesBefore
    <3> QED
      BY <1>0, <3>1, <3>2 DEF Kept
  <2> QED
    BY <1>0, <2>1
<1>2. CASE b = i
  BY <1>1, <1>2, <1>s DEF Shift
<1>3. CASE b # i
  <2>1. T[b] # 0 /\ d \in Anc(T, n, b)
    BY <1>0, <1>3 DEF Kept
  <2>2. CASE i \notin Anc(T, n, b)
    BY <1>s, <2>1, <2>2 DEF Shift
  <2>3. CASE i \in Anc(T, n, b) /\ i <= d
    BY <1>s, <2>1, <2>3 DEF Shift
  <2>4. CASE i \in Anc(T, n, b) /\ d < i
    <3>1. Reaches(preds, n, i, b)
      BY <1>0, <2>1, <2>4, ReachesFromAncestor
    <3>2. Dominates(preds, d, i)
      BY <1>0, <2>4, <3>1, DominatesAbove
    <3>3. d \in Anc(T, n, m)
      BY <1>0, <1>1, <2>4, <3>2
    <3> QED
      BY <1>s, <2>1, <2>4, <3>3 DEF Shift
  <2>5. i <= d \/ d < i
    BY <1>0
  <2> QED
    BY <2>2, <2>3, <2>4, <2>5
<1> QED
  BY <1>2, <1>3

\* What predecessors have in common after the turn they had before it, or owe
\* to the meet the block has taken.
LEMMA TurnRising ==
  ASSUME NEW preds, NEW T, NEW n, NEW i, NEW m, NEW U, Turn(preds, T, n, i, m, U)
  PROVE  Rising(preds, U, n)
<1> SUFFICES ASSUME NEW b \in 2..n, U[b] # 0, NEW y \in 1..n,
                    \A a \in In(preds, U, n, b) : y \in Anc(U, n, a)
             PROVE  y \in Anc(U, n, U[b])
  BY DEF Rising
<1>0. /\ n \in Nat /\ i \in 1..n /\ b \in 1..n /\ m \in 1..n /\ Tree(T, n)
      /\ \A z \in 1..n : z \in Anc(T, n, m) <=> \A a \in In(preds, T, n, i) : z \in Anc(T, n, a)
      /\ \A x \in 1..n : U[x] # 0 <=> T[x] # 0 \/ x = i
      /\ Rising(preds, T, n) /\ Fresh(preds, T, n, i)
  BY TurnFinds
<1>s. Shift(T, n, i, m, U)
  BY TurnShifts
<1>1. U[b] = IF b = i THEN m ELSE T[b]
  BY <1>0, <1>s DEF Shift
<1>2. \A a \in In(preds, T, n, b) : a \in 1..n /\ T[a] # 0 /\ Leads(preds, a, b) /\ y \in Anc(U, n, a)
  BY <1>0 DEF In
<1>3. y < i \/ i <= y
  BY <1>0
<1>4. ASSUME NEW x \in 1..n, T[x] # 0, i \in Anc(T, n, x), y \in Anc(U, n, x), y < i
      PROVE  y \in Anc(T, n, m)
  BY <1>s, <1>4 DEF Shift
<1>5. ASSUME NEW x \in 1..n, T[x] # 0, i \in Anc(T, n, x) PROVE T[i] # 0 /\ Anc(T, n, m) \subseteq Anc(T, n, x)
  <2>1. T[i] # 0
    BY <1>0, <1>5, AncBelow
  <2>2. Anc(T, n, m) \subseteq Anc(T, n, i)
    BY <2>1, TurnFinds
  <2>3. Anc(T, n, i) \subseteq Anc(T, n, x)
    BY <1>0, <1>5, AncTrans
  <2> QED
    BY <2>1, <2>2, <2>3
<1>6. ASSUME NEW a \in In(preds, T, n, b) PROVE y \in Anc(T, n, a)
  <2>1. CASE i \notin Anc(T, n, a) \/ i <= y
    BY <1>2, <1>s, <2>1 DEF Shift
  <2>2. CASE i \in Anc(T, n, a) /\ y < i
    BY <1>2, <1>4, <1>5, <2>2
  <2> QED
    BY <1>3, <2>1, <2>2
<1>7. CASE b = i
  <2>1. y \in Anc(T, n, m)
    BY <1>0, <1>6, <1>7
  <2> QED
    BY <1>1, <1>7, <1>s, <2>1 DEF Shift
<1>8. CASE b # i
  <2>1. T[b] # 0 /\ U[b] = T[b] /\ T[b] \in 1..n /\ T[T[b]] # 0 /\ T[b] < b
    BY <1>0, <1>1, <1>8, AncStep
  <2>2. y \in Anc(T, n, T[b])
    BY <1>0, <1>6, <2>1 DEF Rising
  <2>3. CASE i \notin Anc(T, n, T[b]) \/ i <= y
    BY <1>s, <2>1, <2>2, <2>3 DEF Shift
  <2>4. CASE i \in Anc(T, n, T[b]) /\ y < i
    <3>1. i <= T[b]
      BY <1>0, <2>1, <2>4, AncBelow
    <3>2. i < b /\ ~(b < i)
      BY <1>0, <2>1, <3>1
    <3>3. PICK a \in 1..n : a < b /\ Leads(preds, a, b)
      BY TurnFinds
    <3>4. T[a] # 0
      BY <1>0, <2>1, <3>2, TurnFinds
    <3>5. i \in Anc(T, n, a)
      <4>1. \A c \in Anc(T, n, T[b]) : i <= c => c \in Anc(T, n, a)
        BY <1>0, <2>1, <3>2, <3>3 DEF Fresh
      <4>2. i <= i
        BY <1>0
      <4> QED
        BY <2>4, <4>1, <4>2
    <3>6. y \in Anc(U, n, a)
      BY <1>2, <3>3, <3>4 DEF In
    <3>7. y \in Anc(T, n, m)
      BY <1>4, <2>4, <3>4, <3>5, <3>6
    <3> QED
      BY <1>s, <2>1, <2>4, <3>7 DEF Shift
  <2> QED
    BY <1>3, <2>3, <2>4
<1> QED
  BY <1>7, <1>8

\* The block's turn is done: its place is among each earlier predecessor's ancestors.
LEMMA TurnFresh ==
  ASSUME NEW preds, NEW T, NEW n, NEW i, NEW m, NEW U, Turn(preds, T, n, i, m, U)
  PROVE  Fresh(preds, U, n, i + 1)
<1> SUFFICES ASSUME NEW b \in 2..n, U[b] # 0, NEW a \in 1..n, a < b, Leads(preds, a, b)
             PROVE  /\ b < i + 1 => U[b] \in Anc(U, n, a)
                    /\ ~(b < i + 1) => \A c \in Anc(U, n, U[b]) : i + 1 <= c => c \in Anc(U, n, a)
  BY DEF Fresh
<1>0. /\ n \in Nat /\ i \in 1..n /\ b \in 1..n /\ m \in 1..n /\ Tree(T, n)
      /\ \A x \in 1..n : U[x] # 0 <=> T[x] # 0 \/ x = i
      /\ Fresh(preds, T, n, i)
      /\ \A x \in 1..n : x < i => T[x] # 0
  BY TurnFinds
<1>s. Shift(T, n, i, m, U)
  BY TurnShifts
<1>1. U[b] = IF b = i THEN m ELSE T[b]
  BY <1>0, <1>s DEF Shift
<1>2. ASSUME a < i PROVE T[a] # 0 /\ Anc(U, n, a) = Anc(T, n, a)
  <2>1. T[a] # 0
    BY <1>0, <1>2
  <2>2. i \notin Anc(T, n, a)
    BY <1>0, <1>2, <2>1, AncBelow
  <2> QED
    BY <1>s, <2>1, <2>2 DEF Shift
<1>3. CASE b < i
  <2>1. a < i /\ b # i /\ b < i + 1 /\ T[b] # 0
    BY <1>0, <1>3
  <2>2. T[b] \in Anc(T, n, a)
    BY <1>0, <1>3, <2>1 DEF Fresh
  <2> QED
    BY <1>1, <1>2, <2>1, <2>2
<1>4. CASE b = i
  <2>1. a < i /\ b < i + 1
    BY <1>0, <1>4
  <2>2. a \in In(preds, T, n, i)
    BY <1>2, <1>4, <2>1 DEF In
  <2>3. m \in Anc(T, n, a)
    BY <2>2, TurnFinds
  <2> QED
    BY <1>1, <1>2, <1>4, <2>1, <2>3
<1>5. CASE i < b
  <2>1. b # i /\ ~(b < i) /\ ~(b < i + 1) /\ U[b] = T[b] /\ T[b] # 0
    BY <1>0, <1>1, <1>5
  <2>2. T[a] # 0
    BY <1>0, <1>5, <2>1, TurnFinds
  <2>3. T[b] \in 1..n /\ T[T[b]] # 0
    BY <1>0, <2>1, AncStep
  <2>4. ASSUME NEW c \in Anc(U, n, U[b]), i + 1 <= c PROVE c \in Anc(U, n, a)
    <3>1. c \in 1..n
      BY <2>1, <2>3 DEF Anc
    <3>2. i <= c
      BY <1>0, <2>4, <3>1
    <3>3. c \in Anc(T, n, T[b])
      BY <1>s, <2>1, <2>3, <2>4, <3>1, <3>2 DEF Shift
    <3>4. c \in Anc(T, n, a)
      BY <1>0, <2>1, <3>2, <3>3 DEF Fresh
    <3> QED
      BY <1>s, <2>2, <3>1, <3>2, <3>4 DEF Shift
  <2> QED
    BY <2>1, <2>4
<1>6. b < i \/ b = i \/ i < b
  BY <1>0
<1> QED
  BY <1>3, <1>4, <1>5, <1>6

\* A turn keeps what stands, and lifts no block but to an earlier place.
LEMMA TurnStands ==
  ASSUME NEW preds, NEW T, NEW n, NEW i, NEW m, NEW U, Turn(preds, T, n, i, m, U)
  PROVE  Stands(preds, U, n, i + 1)
BY TurnShifts, TurnSoFar, TurnBelow, TurnKept, TurnRising, TurnFresh DEF Shift, Stands

-----------------------------------------------------------------------------
(* A round. *)

\* The turn the code takes is such a turn: an earlier predecessor is placed, so
\* the meet is.
LEMMA NearestTurns ==
  ASSUME NEW preds, NEW T, NEW n, NEW i \in 2..n,
         Graph(preds, n), Ordered(preds), Stands(preds, T, n, i)
  PROVE  LET m == Nearest(T, preds[i])
         IN  m # 0 /\ Turn(preds, T, n, i, m, Place(T, i, m))
<1> DEFINE m == Nearest(T, preds[i])
           P == Met(T, n, preds[i], Len(preds[i]))
<1>1. n \in Nat /\ i \in 1..n /\ preds[i] \in Seq(0..n) /\ Tree(T, n) /\ SoFar(T, n, i) /\ Len(preds) = n
  BY DEF Graph, Stands
<1>2. MeetOf(T, n, P, m)
  BY <1>1, NearestIs
<1>3. P = In(preds, T, n, i)
  <2>1. DOMAIN preds[i] = 1..Len(preds[i])
    BY <1>1
  <2> QED
    BY <2>1 DEF Met, In, Leads
<1>4. PICK a \in 1..(i - 1) : Leads(preds, a, i)
  BY <1>1 DEF Ordered
<1>5. a \in 1..n /\ a < i
  BY <1>1
<1>6. T[a] # 0
  BY <1>1, <1>5 DEF SoFar
<1>7. a \in P /\ a \in In(preds, T, n, i)
  BY <1>3, <1>4, <1>5, <1>6 DEF In
<1> HIDE DEF m, P
<1>8. /\ m # 0 /\ m \in 1..n /\ T[m] # 0
      /\ Anc(T, n, m) = {y \in 1..n : \A x \in P : y \in Anc(T, n, x)}
  <2>1. P # {}
    BY <1>7
  <2>2. /\ m \in 0..n /\ m # 0 /\ T[m] # 0
        /\ Anc(T, n, m) = {y \in 1..n : \A x \in P : y \in Anc(T, n, x)}
    BY <1>2, <2>1 DEF MeetOf
  <2> QED
    BY <1>1, <2>2
<1>9. m < i
  <2>1. m \in Anc(T, n, m)
    BY <1>1, <1>8, AncIs
  <2>2. m \in Anc(T, n, a)
    BY <1>7, <1>8, <2>1
  <2>3. m <= a
    BY <1>1, <1>5, <1>6, <2>2, AncBelow
  <2> QED
    BY <1>1, <1>5, <1>8, <2>3
<1>10. Moved(T, Place(T, i, m), i, m)
  BY <1>8 DEF Moved, Place
<1>11. Turn(preds, T, n, i, m, Place(T, i, m))
  BY <1>3, <1>5, <1>7, <1>8, <1>9, <1>10 DEF Turn
<1> QED
  BY <1>8, <1>11 DEF m

\* A tree whose blocks each have the meet of their predecessors.
Fixed(preds, T, n) == \A b \in 2..n : Nearest(T, preds[b]) = T[b]

\* Where t turns of a round have come from T to: the blocks to come are as they
\* were, no block has moved later, and a round that has changed nothing has
\* found each block in its place.
Going(preds, T, n, t, U) ==
  /\ Stands(preds, U, n, t + 2)
  /\ \A b \in 1..n : (t + 2 <= b => U[b] = T[b]) /\ (T[b] # 0 => U[b] <= T[b])
  /\ U = T => \A b \in 2..(t + 1) : Nearest(T, preds[b]) = T[b]

\* A turn keeps the round going.
LEMMA TurnGoes ==
  ASSUME NEW preds, NEW n, Graph(preds, n), Ordered(preds), NEW T, Tree(T, n), NEW t \in Nat, t + 2 <= n,
         NEW U, Going(preds, T, n, t, U)
  PROVE  LET i == t + 2
         IN  Going(preds, T, n, t + 1, Place(U, i, Nearest(U, preds[i])))
<1> DEFINE i == t + 2
           m == Nearest(U, preds[i])
           V == Place(U, i, m)
<1>1. n \in Nat /\ i \in 2..n /\ i \in 1..n /\ Stands(preds, U, n, i) /\ (t + 1) + 2 = i + 1 /\ i \in Nat
  BY DEF Going, Graph
<1>2. /\ \A b \in 1..n : (i <= b => U[b] = T[b]) /\ (T[b] # 0 => U[b] <= T[b])
      /\ U = T => \A b \in 2..(i - 1) : Nearest(T, preds[b]) = T[b]
  <2>1. t + 1 = i - 1
    OBVIOUS
  <2> QED
    BY <2>1 DEF Going
<1>3. m # 0 /\ Turn(preds, U, n, i, m, V)
  <2> HIDE DEF i
  <2> QED
    BY <1>1, NearestTurns
<1> HIDE DEF i, m
<1>4. V = [U EXCEPT ![i] = m]
  BY <1>3 DEF Place
<1> HIDE DEF V
<1>5. Stands(preds, V, n, i + 1)
  BY <1>3, TurnStands
<1>6. \A b \in 1..n : V[b] = IF b = i THEN m ELSE U[b]
  BY <1>3, TurnShifts DEF Shift
<1>7. (U[i] # 0 => m <= U[i]) /\ U[i] = T[i]
  <2>1. i <= i
    BY <1>1
  <2> QED
    BY <1>1, <1>2, <1>3, <2>1, TurnFinds
<1>8. ASSUME NEW b \in 1..n PROVE (i + 1 <= b => V[b] = T[b]) /\ (T[b] # 0 => V[b] <= T[b])
  <2>1. i + 1 <= b => i <= b /\ b # i
    BY <1>1
  <2> QED
    BY <1>2, <1>6, <1>7, <2>1
<1>9. ASSUME V = T PROVE \A b \in 2..i : Nearest(T, preds[b]) = T[b]
  <2>1. V = U
    <3>1. V[i] = m /\ m = U[i]
      BY <1>1, <1>6, <1>7, <1>9
    <3>2. U \in [1..n -> 0..n]
      BY <1>1 DEF Stands, Tree
    <3> QED
      BY <1>4, <3>1, <3>2
  <2>2. m = T[i] /\ m = Nearest(T, preds[i])
    BY <1>1, <1>6, <1>9, <2>1 DEF m
  <2>3. \A b \in 2..i : b \in 2..(i - 1) \/ b = i
    BY <1>1
  <2> QED
    BY <1>2, <1>9, <2>1, <2>2, <2>3
<1>10. Going(preds, T, n, t + 1, V)
  <2>1. (t + 1) + 1 = i /\ (t + 1) + 2 = i + 1
    BY DEF i
  <2> QED
    BY <1>5, <1>8, <1>9, <2>1 DEF Going
<1> QED
  BY <1>10 DEF V, m, i

\* A round keeps what stands; it places every block and moves none later, and
\* one that changes nothing finds each block in its place.
LEMMA RoundGoes ==
  ASSUME NEW preds, NEW n, Graph(preds, n), Ordered(preds), NEW T, Stands(preds, T, n, 2)
  PROVE  Going(preds, T, n, n - 1, Round(preds, T))
<1> DEFINE turn == [s \in Nat \X [1..Len(T) -> 0..Len(T)] |->
                      Place(s[2], s[1] + 1, Nearest(s[2], preds[s[1] + 1]))]
<1>1. Round(preds, T) = Loop(turn, T, Len(T) - 1)
  BY DEF Round
<1>2. n \in Nat \ {0} /\ Len(T) = n /\ Tree(T, n) /\ n - 1 \in Nat
  <2>1. Tree(T, n) /\ n \in Nat \ {0}
    BY DEF Stands, Graph
  <2> QED
    BY <2>1, TreeLen
<1>3. \A k \in Nat : \A U \in [1..n -> 0..n] :
        turn[<<k, U>>] = Place(U, k + 1, Nearest(U, preds[k + 1]))
  BY <1>2
<1> HIDE DEF turn
<1> DEFINE at(t) == Loop(turn, T, t)
           S == {t \in Nat : t <= n - 1 => Going(preds, T, n, t, at(t))}
<1>4. at(0) = T /\ \A t \in Nat : at(t + 1) = turn[<<t + 1, at(t)>>]
  BY LoopIs
<1> HIDE DEF at
<1>5. 0 \in S
  <2>1. \A b \in 1..n : T[b] <= T[b]
    BY <1>2 DEF Tree
  <2>2. 0 + 2 = 2 /\ 2..(0 + 1) = {}
    OBVIOUS
  <2>3. Going(preds, T, n, 0, T)
    BY <2>1, <2>2 DEF Going
  <2> QED
    BY <1>4, <2>3
<1>6. ASSUME NEW t \in Nat, t \in S PROVE t + 1 \in S
  <2> SUFFICES ASSUME t + 1 <= n - 1 PROVE Going(preds, T, n, t + 1, at(t + 1))
    OBVIOUS
  <2>1. Going(preds, T, n, t, at(t)) /\ t + 2 <= n /\ (t + 1) + 1 = t + 2 /\ t + 1 \in Nat
    BY <1>2, <1>6
  <2>2. at(t) \in [1..n -> 0..n]
    BY <2>1 DEF Going, Stands, Tree
  <2>3. at(t + 1) = Place(at(t), t + 2, Nearest(at(t), preds[t + 2]))
    BY <1>3, <1>4, <2>1, <2>2
  <2>4. Going(preds, T, n, t + 1, Place(at(t), t + 2, Nearest(at(t), preds[t + 2])))
    BY <1>2, <2>1, TurnGoes
  <2> QED
    BY <2>3, <2>4
<1> HIDE DEF S
<1>7. \A t \in Nat : t \in S
  BY <1>5, <1>6, NatSet
<1>8. Going(preds, T, n, n - 1, at(n - 1))
  BY <1>2, <1>7 DEF S
<1> QED
  BY <1>1, <1>2, <1>8 DEF at

\* After a round all blocks are placed, and what stands is what the next one
\* starts from.
LEMMA RoundStands ==
  ASSUME NEW preds, NEW n, Graph(preds, n), Ordered(preds), NEW T, Stands(preds, T, n, 2)
  PROVE  LET U == Round(preds, T)
         IN  /\ Stands(preds, U, n, 2) /\ \A b \in 1..n : U[b] # 0
             /\ \A b \in 1..n : T[b] # 0 => U[b] <= T[b]
             /\ U = T => Fixed(preds, T, n)
<1> DEFINE U == Round(preds, T)
<1>1. Going(preds, T, n, n - 1, U)
  BY RoundGoes
<1> HIDE DEF U
<1>2. n \in Nat \ {0} /\ (n - 1) + 2 = n + 1 /\ (n - 1) + 1 = n
  BY DEF Graph
<1>3. Stands(preds, U, n, n + 1)
  BY <1>1, <1>2 DEF Going
<1>4. /\ Tree(U, n) /\ SoFar(U, n, n + 1) /\ Below(preds, U, n) /\ Kept(preds, U, n)
      /\ Rising(preds, U, n) /\ Fresh(preds, U, n, n + 1)
  BY <1>3 DEF Stands
<1>5. \A b \in 1..n : U[b] # 0
  BY <1>2, <1>4 DEF SoFar
<1>6. Fresh(preds, U, n, 2)
  <2> SUFFICES ASSUME NEW b \in 2..n, U[b] # 0, NEW a \in 1..n, a < b, Leads(preds, a, b)
               PROVE  Anc(U, n, U[b]) \subseteq Anc(U, n, a)
    BY DEF Fresh
  <2>1. U[b] \in Anc(U, n, a)
    BY <1>2, <1>4 DEF Fresh
  <2> QED
    BY <1>4, <2>1, AncTrans
<1>7. Stands(preds, U, n, 2)
  BY <1>4, <1>5, <1>6 DEF Stands, SoFar
<1>8. \A b \in 1..n : T[b] # 0 => U[b] <= T[b]
  BY <1>1 DEF Going
<1>9. U = T => Fixed(preds, T, n)
  BY <1>1, <1>2 DEF Going, Fixed
<1> QED
  BY <1>5, <1>7, <1>8, <1>9 DEF U

-----------------------------------------------------------------------------
(* All the rounds. *)

\* Before the first round only the first block is placed.
LEMMA UnplacedStands ==
  ASSUME NEW preds, NEW n, Graph(preds, n)
  PROVE  Stands(preds, Unplaced(n), n, 2)
<1> DEFINE T == Unplaced(n)
<1>1. n \in Nat \ {0} /\ 1 \in 1..n
  BY DEF Graph
<1>2. \A b \in 1..n : T[b] = IF b = 1 THEN 1 ELSE 0
  BY DEF Unplaced
<1>3. T \in [1..n -> 0..n]
  BY <1>1 DEF Unplaced
<1> HIDE DEF T
<1>4. \A b \in 2..n : b \in 1..n /\ b # 1 /\ T[b] = 0 /\ T[b] < b
  BY <1>1, <1>2
<1>5. T[1] = 1 /\ \A b \in 1..n : T[b] # 0 <=> b = 1
  BY <1>1, <1>2
<1>6. Tree(T, n)
  BY <1>1, <1>3, <1>4, <1>5 DEF Tree
<1>7. SoFar(T, n, 2)
  <2>1. \A b \in 1..n : b < 2 <=> b = 1
    BY <1>1
  <2> QED
    BY <1>5, <2>1 DEF SoFar
<1>8. Below(preds, T, n) /\ Rising(preds, T, n) /\ Fresh(preds, T, n, 2)
  BY <1>4 DEF Below, Rising, Fresh
<1>9. ASSUME NEW d \in 1..n, Dominates(preds, d, 1) PROVE d = 1
  <2> DEFINE p == <<1>>
  <2>1. p \in Seq(1..n) /\ p # <<>> /\ Len(p) = 1 /\ p[1] = 1 /\ DOMAIN p = 1..1
    BY <1>1
  <2> HIDE DEF p
  <2>2. Path(preds, p) /\ p[Len(p)] = 1
    <3>1. 1..(Len(p) - 1) = {}
      BY <2>1
    <3> QED
      BY <2>1, <3>1 DEF Path
  <2>3. PICK i \in DOMAIN p : p[i] = d
    <3>1. Len(preds) = n
      BY DEF Graph
    <3> QED
      BY <1>9, <2>1, <2>2, <3>1 DEF Dominates
  <2>4. i = 1
    BY <2>1, <2>3
  <2> QED
    BY <2>1, <2>3, <2>4
<1>10. Kept(preds, T, n)
  <2>1. 1 \in Anc(T, n, 1)
    BY <1>1, <1>6, AncIs
  <2> QED
    BY <1>5, <1>9, <2>1 DEF Kept
<1>11. Stands(preds, T, n, 2)
  BY <1>6, <1>7, <1>8, <1>10 DEF Stands
<1> QED
  BY <1>11 DEF T

\* Every round starts from what stands.
LEMMA RoundsStand ==
  ASSUME NEW preds, NEW n, Graph(preds, n), Ordered(preds)
  PROVE  \A k \in Nat : /\ Stands(preds, AfterRounds(preds, k), n, 2)
                        /\ AfterRounds(preds, k + 1) = Round(preds, AfterRounds(preds, k))
<1> DEFINE round == [s \in Nat \X [1..Len(preds) -> 0..Len(preds)] |-> Round(preds, s[2])]
           at(k) == AfterRounds(preds, k)
           S == {k \in Nat : Stands(preds, at(k), n, 2)}
<1>1. \A k : at(k) = Loop(round, Unplaced(n), k)
  BY DEF AfterRounds, Graph
<1>2. \A k \in Nat : \A T \in [1..n -> 0..n] : round[<<k, T>>] = Round(preds, T)
  BY DEF Graph
<1> HIDE DEF round, at
<1>3. at(0) = Unplaced(n) /\ \A k \in Nat : at(k + 1) = round[<<k + 1, at(k)>>]
  <2>1. /\ Loop(round, Unplaced(n), 0) = Unplaced(n)
        /\ \A k \in Nat : Loop(round, Unplaced(n), k + 1) = round[<<k + 1, Loop(round, Unplaced(n), k)>>]
    BY LoopIs
  <2> QED
    BY <1>1, <2>1
<1>4. ASSUME NEW k \in Nat, k \in S PROVE at(k + 1) = Round(preds, at(k))
  <2>1. at(k) \in [1..n -> 0..n] /\ k + 1 \in Nat
    BY <1>4 DEF Stands, Tree
  <2> QED
    BY <1>2, <1>3, <2>1
<1>5. 0 \in S
  BY <1>3, UnplacedStands
<1>6. ASSUME NEW k \in Nat, k \in S PROVE k + 1 \in S
  <2>1. Stands(preds, at(k), n, 2)
    BY <1>6
  <2>2. Stands(preds, Round(preds, at(k)), n, 2)
    BY <2>1, RoundStands
  <2> QED
    BY <1>4, <1>6, <2>2
<1> HIDE DEF S
<1>7. \A k \in Nat : k \in S
  BY <1>5, <1>6, NatSet
<1>8. \A k \in Nat : Stands(preds, at(k), n, 2) /\ at(k + 1) = Round(preds, at(k))
  BY <1>4, <1>7 DEF S
<1> QED
  BY <1>8 DEF at

\* The places blocks may still move to.
Room(T, n) == {p \in (1..n) \X (1..n) : T[p[1]] = 0 \/ p[2] <= T[p[1]]}

\* A round that changes something leaves less room.
LEMMA RoomShrinks ==
  ASSUME NEW preds, NEW n, Graph(preds, n), Ordered(preds), NEW T, Stands(preds, T, n, 2),
         Round(preds, T) # T
  PROVE  /\ IsFiniteSet(Room(T, n))
         /\ Cardinality(Room(Round(preds, T), n)) < Cardinality(Room(T, n))
<1> DEFINE U == Round(preds, T)
<1>1. /\ Stands(preds, U, n, 2) /\ \A b \in 1..n : U[b] # 0
      /\ \A b \in 1..n : T[b] # 0 => U[b] <= T[b]
  BY RoundStands
<1> HIDE DEF U
<1>2. n \in Nat \ {0} /\ Tree(T, n) /\ Tree(U, n) /\ T \in [1..n -> 0..n] /\ U \in [1..n -> 0..n]
  BY <1>1 DEF Stands, Tree
<1>3. Room(U, n) \subseteq Room(T, n)
  <2> SUFFICES ASSUME NEW b \in 1..n, NEW k \in 1..n, k <= U[b] PROVE T[b] = 0 \/ k <= T[b]
    BY <1>1 DEF Room
  <2>1. U[b] \in 0..n /\ T[b] \in 0..n
    BY <1>2
  <2> QED
    BY <1>1, <2>1
<1>4. PICK b \in 1..n : U[b] # T[b]
  BY <1>2 DEF U
<1>5. U[b] \in 1..n /\ T[b] \in 0..n
  BY <1>1, <1>2
<1> DEFINE k == IF T[b] = 0 THEN n ELSE T[b]
<1>6. k \in 1..n /\ U[b] < k /\ (T[b] = 0 \/ k <= T[b])
  <2>1. CASE T[b] = 0
    <3>1. b # 1
      BY <1>2, <2>1 DEF Tree
    <3>2. U[b] < b
      BY <1>2, <3>1 DEF Tree
    <3> QED
      BY <1>2, <1>5, <2>1, <3>2
  <2>2. CASE T[b] # 0
    BY <1>1, <1>4, <1>5, <2>2
  <2> QED
    BY <2>1, <2>2
<1> HIDE DEF k
<1>7. <<b, k>> \in Room(T, n) /\ <<b, k>> \notin Room(U, n)
  BY <1>5, <1>6 DEF Room
<1>8. IsFiniteSet((1..n) \X (1..n))
  <2>1. IsFiniteSet(1..n)
    BY <1>2, FS_Interval
  <2> QED
    BY <2>1, FS_Product
<1>9. IsFiniteSet(Room(T, n))
  <2>1. Room(T, n) \subseteq (1..n) \X (1..n)
    BY DEF Room
  <2> QED
    BY <1>8, <2>1, FS_Subset
<1>10. Cardinality(Room(U, n)) < Cardinality(Room(T, n))
  <2>1. /\ Cardinality(Room(U, n)) <= Cardinality(Room(T, n))
        /\ Cardinality(Room(U, n)) = Cardinality(Room(T, n)) => Room(U, n) = Room(T, n)
        /\ IsFiniteSet(Room(U, n))
    BY <1>3, <1>9, FS_Subset
  <2>2. Cardinality(Room(U, n)) \in Nat /\ Cardinality(Room(T, n)) \in Nat
    BY <1>9, <2>1, FS_CardinalityType
  <2> QED
    BY <1>7, <2>1, <2>2
<1> QED
  BY <1>9, <1>10 DEF U

\* Within as many rounds as there are pairs of blocks, one changes nothing.
LEMMA RoundsEnd ==
  ASSUME NEW preds, NEW n, Graph(preds, n), Ordered(preds)
  PROVE  \E k \in 0..(n * n) : AfterRounds(preds, k + 1) = AfterRounds(preds, k)
<1> DEFINE at(k) == AfterRounds(preds, k)
           room(k) == Cardinality(Room(at(k), n))
           N == n * n
<1>1. n \in Nat /\ N \in Nat
  BY DEF Graph
<1>2. \A k \in Nat : Stands(preds, at(k), n, 2) /\ at(k + 1) = Round(preds, at(k))
  BY RoundsStand
<1>3. IsFiniteSet((1..n) \X (1..n)) /\ Cardinality((1..n) \X (1..n)) = N
  <2>1. IsFiniteSet(1..n) /\ Cardinality(1..n) = n
    BY <1>1, FS_Interval
  <2> QED
    BY <2>1, FS_Product
<1> HIDE DEF N, at
<1>4. \A k : Room(at(k), n) \subseteq (1..n) \X (1..n)
  BY DEF Room
<1>5. \A k : IsFiniteSet(Room(at(k), n)) /\ room(k) <= N /\ room(k) \in Nat
  BY <1>3, <1>4, FS_Subset, FS_CardinalityType
<1> SUFFICES ASSUME \A k \in 0..N : at(k + 1) # at(k) PROVE FALSE
  BY DEF at, N
<1>6. \A k \in 0..N : room(k + 1) < room(k)
  <2> TAKE k \in 0..N
  <2>1. Stands(preds, at(k), n, 2) /\ at(k + 1) = Round(preds, at(k)) /\ at(k + 1) # at(k)
    BY <1>1, <1>2
  <2> QED
    BY <2>1, RoomShrinks
<1> HIDE DEF room
<1> DEFINE S == {k \in Nat : k <= N + 1 => room(k) + k <= N}
<1>7. 0 \in S
  BY <1>1, <1>5
<1>8. ASSUME NEW k \in Nat, k \in S PROVE k + 1 \in S
  <2> SUFFICES ASSUME k + 1 <= N + 1 PROVE room(k + 1) + (k + 1) <= N
    OBVIOUS
  <2>1. k \in 0..N /\ room(k) + k <= N
    BY <1>1, <1>8
  <2>2. room(k + 1) < room(k) /\ room(k) \in Nat /\ room(k + 1) \in Nat
    BY <1>5, <1>6, <2>1
  <2> QED
    BY <1>1, <2>1, <2>2
<1> HIDE DEF S
<1>9. \A k \in Nat : k \in S
  BY <1>7, <1>8, NatSet
<1>10. room(N + 1) + (N + 1) <= N /\ room(N + 1) \in Nat
  BY <1>1, <1>5, <1>9 DEF S
<1> QED
  BY <1>1, <1>10

-----------------------------------------------------------------------------
(* The tree the rounds end with. *)

\* The tree of a graph: it stands, has every block in it, and each is where its
\* predecessors meet.
TreeOf(preds, T, n) ==
  /\ Tree(T, n) /\ \A b \in 1..n : T[b] # 0
  /\ Kept(preds, T, n) /\ Fixed(preds, T, n)

\* The rounds settle, so the tree is one no further round changes.
THEOREM RoundsSettle ==
  ASSUME NEW preds, NEW n, Graph(preds, n), Ordered(preds)
  PROVE  /\ TreeOf(preds, immediateDominators(preds), n)
         /\ Round(preds, immediateDominators(preds)) = immediateDominators(preds)
<1> DEFINE T == immediateDominators(preds)
<1>1. PICK k \in 0..(n * n) : AfterRounds(preds, k + 1) = AfterRounds(preds, k) /\ T = AfterRounds(preds, k)
  BY RoundsEnd DEF immediateDominators, Graph
<1> HIDE DEF T
<1>2. k \in Nat
  BY DEF Graph
<1>3. Stands(preds, T, n, 2) /\ Round(preds, T) = T
  BY <1>1, <1>2, RoundsStand
<1>4. (\A b \in 1..n : T[b] # 0) /\ Fixed(preds, T, n)
  BY <1>3, RoundStands
<1>5. Tree(T, n) /\ Kept(preds, T, n)
  BY <1>3 DEF Stands
<1> QED
  BY <1>3, <1>4, <1>5 DEF TreeOf, T

\* Across an edge the ancestors gain no more than the block it goes to.
LEMMA AncAcross ==
  ASSUME NEW preds, NEW T, NEW n, Graph(preds, n), TreeOf(preds, T, n),
         NEW a \in 1..n, NEW b \in 1..n, Leads(preds, a, b)
  PROVE  Anc(T, n, b) \subseteq {b} \cup Anc(T, n, a)
<1>1. Tree(T, n) /\ n \in Nat /\ T[a] # 0 /\ T[b] # 0
  BY DEF TreeOf, Graph
<1>2. CASE b = 1
  BY <1>1, <1>2, AncRoot
<1>3. CASE b # 1
  <2>1. b \in 2..n /\ preds[b] \in Seq(0..n)
    BY <1>3 DEF Graph
  <2>2. Nearest(T, preds[b]) = T[b]
    BY <2>1 DEF TreeOf, Fixed
  <2>3. T[b] \in 1..n /\ Anc(T, n, b) = {b} \cup Anc(T, n, T[b])
    BY <1>1, <2>1, AncStep
  <2>4. MeetOf(T, n, Met(T, n, preds[b], Len(preds[b])), T[b])
    BY <1>1, <2>1, <2>2, NearestIs
  <2>5. a \in Met(T, n, preds[b], Len(preds[b]))
    <3>1. DOMAIN preds[b] = 1..Len(preds[b])
      BY <2>1
    <3> QED
      BY <1>1, <3>1 DEF Met, Leads
  <2>6. Anc(T, n, T[b]) \subseteq Anc(T, n, a)
    BY <1>1, <2>4, <2>5 DEF MeetOf
  <2> QED
    BY <2>3, <2>6
<1> QED
  BY <1>2, <1>3

\* So a path to a block passes all its ancestors.
LEMMA PathPasses ==
  ASSUME NEW preds, NEW T, NEW n, Graph(preds, n), TreeOf(preds, T, n),
         NEW p \in Seq(1..n), Path(preds, p), NEW d \in Anc(T, n, p[Len(p)])
  PROVE  \E i \in DOMAIN p : p[i] = d
<1> DEFINE Passed(i) == {p[j] : j \in 1..i}
           S == {i \in Nat : i + 1 <= Len(p) => Anc(T, n, p[i + 1]) \subseteq Passed(i + 1)}
<1>1. /\ Tree(T, n) /\ n \in Nat /\ DOMAIN p = 1..Len(p) /\ Len(p) \in Nat \ {0}
      /\ \A i \in 1..Len(p) : p[i] \in 1..n
  <2>1. Len(p) \in Nat /\ Len(p) # 0
    BY EmptySeq DEF Path
  <2> QED
    BY <2>1, ElementOfSeq DEF TreeOf, Graph
<1>2. p[1] = 1 /\ \A i \in 1..(Len(p) - 1) : Leads(preds, p[i], p[i + 1])
  BY DEF Path
<1>3. 0 \in S
  <2>1. Anc(T, n, 1) = {1} /\ 1 \in 1..1 /\ 0 + 1 = 1
    BY <1>1, AncRoot
  <2> QED
    BY <1>2, <2>1
<1>4. ASSUME NEW i \in Nat, i \in S PROVE i + 1 \in S
  <2> SUFFICES ASSUME (i + 1) + 1 <= Len(p)
               PROVE  Anc(T, n, p[(i + 1) + 1]) \subseteq Passed((i + 1) + 1)
    OBVIOUS
  <2>1. /\ i + 1 <= Len(p) /\ i + 1 \in 1..(Len(p) - 1)
        /\ i + 1 \in 1..Len(p) /\ (i + 1) + 1 \in 1..Len(p)
    BY <1>1
  <2>2. Anc(T, n, p[i + 1]) \subseteq Passed(i + 1)
    BY <1>4, <2>1
  <2>3. Leads(preds, p[i + 1], p[(i + 1) + 1]) /\ p[i + 1] \in 1..n /\ p[(i + 1) + 1] \in 1..n
    BY <1>1, <1>2, <2>1
  <2>4. Anc(T, n, p[(i + 1) + 1]) \subseteq {p[(i + 1) + 1]} \cup Anc(T, n, p[i + 1])
    BY <2>3, AncAcross
  <2>5. Passed(i + 1) \subseteq Passed((i + 1) + 1) /\ p[(i + 1) + 1] \in Passed((i + 1) + 1)
    OBVIOUS
  <2> QED
    BY <2>2, <2>4, <2>5
<1> HIDE DEF S
<1>5. \A i \in Nat : i \in S
  BY <1>3, <1>4, NatSet
<1>6. Len(p) - 1 \in Nat /\ (Len(p) - 1) + 1 = Len(p)
  BY <1>1
<1>7. Anc(T, n, p[Len(p)]) \subseteq Passed(Len(p))
  <2> DEFINE i == Len(p) - 1
  <2>1. i \in Nat /\ i + 1 = Len(p) /\ i + 1 <= Len(p)
    BY <1>1, <1>6
  <2>2. i \in S
    BY <1>5, <2>1
  <2> HIDE DEF i
  <2>3. Anc(T, n, p[i + 1]) \subseteq Passed(i + 1)
    BY <2>1, <2>2 DEF S
  <2> QED
    BY <2>1, <2>3
<1> QED
  BY <1>1, <1>7

\* Where s steps up from b, on the way to d, have come to.
Risen(T, n, b, d, s, x) ==
  /\ x \in 1..n /\ T[x] # 0
  /\ d \in Anc(T, n, b) <=> d \in Anc(T, n, x)
  /\ x = 1 \/ x = d \/ x + s <= b

\* dominates: climbing from a block arrives at each of its ancestors and at no
\* other block.
LEMMA ClimbsIs ==
  ASSUME NEW T, NEW n, Tree(T, n), NEW b \in 1..n, T[b] # 0, NEW d \in 1..n
  PROVE  Climbs(T, b, d) <=> d \in Anc(T, n, b)
<1> DEFINE up == [s \in Nat \X (1..Len(T)) |-> IF s[2] = d THEN d ELSE T[s[2]]]
           at(s) == Loop(up, b, s)
           S == {s \in Nat : Risen(T, n, b, d, s, at(s))}
<1>1. Climbs(T, b, d) <=> at(b) = d
  BY DEF Climbs
<1>2. n \in Nat /\ Len(T) = n
  BY TreeLen
<1>3. \A s \in Nat : \A x \in 1..n : up[<<s, x>>] = IF x = d THEN d ELSE T[x]
  BY <1>2
<1> HIDE DEF up
<1>4. at(0) = b /\ \A s \in Nat : at(s + 1) = up[<<s + 1, at(s)>>]
  BY LoopIs
<1> HIDE DEF at
<1>5. 0 \in S
  BY <1>4 DEF Risen
<1>6. ASSUME NEW s \in Nat, s \in S PROVE s + 1 \in S
  <2> DEFINE x == at(s)
  <2>1. /\ x \in 1..n /\ T[x] # 0
        /\ d \in Anc(T, n, b) <=> d \in Anc(T, n, x)
        /\ x = 1 \/ x = d \/ x + s <= b
    BY <1>6 DEF Risen
  <2>2. at(s + 1) = IF x = d THEN d ELSE T[x]
    <3>1. at(s + 1) = up[<<s + 1, x>>] /\ s + 1 \in Nat
      BY <1>4
    <3> HIDE DEF x
    <3> QED
      BY <1>3, <2>1, <3>1
  <2> HIDE DEF x
  <2>3. CASE x = d
    BY <2>1, <2>2, <2>3 DEF Risen
  <2>4. CASE x # d /\ x = 1
    <3>1. at(s + 1) = x
      BY <2>2, <2>4 DEF Tree
    <3> QED
      BY <2>1, <2>4, <3>1 DEF Risen
  <2>5. CASE x # d /\ x # 1
    <3>1. x \in 2..n
      BY <1>2, <2>1, <2>5
    <3>2. /\ T[x] \in 1..n /\ T[x] < x /\ T[T[x]] # 0
          /\ Anc(T, n, x) = {x} \cup Anc(T, n, T[x])
      BY <2>1, <3>1, AncStep
    <3>3. d \in Anc(T, n, b) <=> d \in Anc(T, n, T[x])
      BY <2>1, <2>5, <3>2
    <3>4. T[x] + (s + 1) <= b
      BY <1>2, <2>1, <2>5, <3>1, <3>2
    <3>5. at(s + 1) = T[x]
      BY <2>2, <2>5
    <3> QED
      BY <3>2, <3>3, <3>4, <3>5 DEF Risen
  <2> QED
    BY <2>3, <2>4, <2>5
<1> HIDE DEF S
<1>7. \A s \in Nat : s \in S
  BY <1>5, <1>6, NatSet
<1>8. Risen(T, n, b, d, b, at(b))
  <2>1. b \in Nat
    BY <1>2
  <2> QED
    BY <1>7, <2>1 DEF S
<1>9. at(b) = d \/ at(b) = 1
  BY <1>2, <1>8 DEF Risen
<1>10. CASE at(b) = d
  <2>1. d \in Anc(T, n, d)
    BY AncIs
  <2> QED
    BY <1>1, <1>8, <1>10, <2>1 DEF Risen
<1>11. CASE at(b) # d /\ at(b) = 1
  <2>1. d \notin Anc(T, n, 1)
    BY <1>11, AncRoot
  <2> QED
    BY <1>1, <1>8, <1>11, <2>1 DEF Risen
<1> QED
  BY <1>9, <1>10, <1>11

\* The dominator tree is exact (buildDominatorTree, dominates): on every graph
\* in which each block but the first has an edge from an earlier one, climbing
\* from a block arrives at just the blocks that are on every path to it.
THEOREM DominatorTreeExact ==
  ASSUME NEW preds, NEW n, Graph(preds, n), Ordered(preds),
         NEW d \in 1..n, NEW b \in 1..n
  PROVE  Climbs(immediateDominators(preds), b, d) <=> Dominates(preds, d, b)
<1> DEFINE T == immediateDominators(preds)
<1>1. TreeOf(preds, T, n)
  BY RoundsSettle
<1> HIDE DEF T
<1>2. Tree(T, n) /\ T[b] # 0 /\ Kept(preds, T, n) /\ Len(preds) = n
  BY <1>1 DEF TreeOf, Graph
<1>3. Climbs(T, b, d) <=> d \in Anc(T, n, b)
  BY <1>2, ClimbsIs
<1>4. Dominates(preds, d, b) => d \in Anc(T, n, b)
  BY <1>2 DEF Kept
<1>5. ASSUME d \in Anc(T, n, b) PROVE Dominates(preds, d, b)
  <2> SUFFICES ASSUME NEW p \in Seq(1..n), Path(preds, p), p[Len(p)] = b
               PROVE  \E i \in DOMAIN p : p[i] = d
    BY <1>2 DEF Dominates
  <2>1. d \in Anc(T, n, p[Len(p)])
    BY <1>5
  <2> QED
    BY <1>1, <2>1, PathPasses
<1> QED
  BY <1>3, <1>4, <1>5 DEF T

-----------------------------------------------------------------------------
(* Sequences without repetition. *)

Holds(z, x) == \E i \in 1..Len(z) : z[i] = x

Once(z) == \A i, j \in 1..Len(z) : z[i] = z[j] => i = j

\* One element more at the end.
Pushed(S, z, e, y) ==
  /\ y \in Seq(S) /\ Len(y) = Len(z) + 1 /\ Len(z) \in Nat
  /\ (\A i \in 1..Len(z) : y[i] = z[i]) /\ y[Len(z) + 1] = e
  /\ \A x : Holds(y, x) <=> Holds(z, x) \/ x = e
  /\ Once(z) /\ ~Holds(z, e) => Once(y)

\* Appending does so.
LEMMA PushIs ==
  ASSUME NEW S, NEW z \in Seq(S), NEW e \in S, NEW y, y = Append(z, e)
  PROVE  Pushed(S, z, e, y)
<1>1. /\ y \in Seq(S) /\ Len(y) = Len(z) + 1 /\ Len(z) \in Nat
      /\ \A i \in 1..Len(z) : y[i] = z[i]
      /\ y[Len(z) + 1] = e
  BY AppendProperties, LenProperties
<1>2. \A i : i \in 1..Len(y) <=> i \in 1..Len(z) \/ i = Len(z) + 1
  BY <1>1
<1>3. \A x : Holds(y, x) <=> Holds(z, x) \/ x = e
  BY <1>1, <1>2 DEF Holds
<1>4. ASSUME Once(z), ~Holds(z, e) PROVE Once(y)
  BY <1>1, <1>2, <1>4 DEF Holds, Once
<1> QED
  BY <1>1, <1>3, <1>4 DEF Pushed

\* One fewer.
Popped(S, z, y) ==
  /\ Len(z) \in Nat /\ Len(z) >= 1 /\ z[Len(z)] \in S
  /\ y \in Seq(S) /\ Len(y) = Len(z) - 1
  /\ \A i \in 1..Len(y) : i \in 1..Len(z) /\ y[i] = z[i]
  /\ \A x : Holds(z, x) <=> Holds(y, x) \/ x = z[Len(z)]
  /\ Once(z) => Once(y) /\ ~Holds(y, z[Len(z)])

\* Leaving out the last does so.
LEMMA PopIs ==
  ASSUME NEW S, NEW z \in Seq(S), z # <<>>, NEW y, y = SubSeq(z, 1, Len(z) - 1)
  PROVE  Popped(S, z, y)
<1>1. Len(z) \in Nat /\ Len(z) >= 1
  BY EmptySeq
<1>2. \A i \in 1..Len(z) : z[i] \in S
  BY ElementOfSeq
<1>3. Len(z) \in 1..Len(z) /\ Len(z) - 1 \in Int
  BY <1>1
<1>4. /\ y \in Seq(S)
      /\ Len(y) = IF 1 <= Len(z) - 1 THEN (Len(z) - 1) - 1 + 1 ELSE 0
      /\ \A i \in 1..((Len(z) - 1) - 1 + 1) : y[i] = z[1 + i - 1]
  <2>1. \A i \in 1..(Len(z) - 1) : z[i] \in S
    BY <1>1, <1>2
  <2> QED
    BY <1>3, <2>1, SubSeqProperties
<1>5. Len(y) = Len(z) - 1
  <2>1. \A k \in Nat : k >= 1 =>
          (IF 1 <= k - 1 THEN (k - 1) - 1 + 1 ELSE 0) = k - 1
    OBVIOUS
  <2>2. Len(y) = IF 1 <= Len(z) - 1 THEN (Len(z) - 1) - 1 + 1 ELSE 0
    BY <1>4
  <2> QED
    BY <1>1, <2>1, <2>2
<1>6. \A i \in 1..Len(y) : i \in 1..Len(z) /\ y[i] = z[i]
  BY <1>1, <1>4, <1>5
<1>7. \A i : i \in 1..Len(z) <=> i \in 1..Len(y) \/ i = Len(z)
  BY <1>1, <1>5
<1>8. \A x : Holds(z, x) <=> Holds(y, x) \/ x = z[Len(z)]
  BY <1>6, <1>7 DEF Holds
<1>9. ASSUME Once(z) PROVE Once(y) /\ ~Holds(y, z[Len(z)])
  <2>1. Once(y)
    BY <1>6, <1>9 DEF Once
  <2>2. \A i \in 1..Len(y) : i # Len(z)
    BY <1>1, <1>5
  <2>3. ~Holds(y, z[Len(z)])
    BY <1>3, <1>6, <1>9, <2>2 DEF Once, Holds
  <2> QED
    BY <2>1, <2>3
<1> QED
  BY <1>1, <1>2, <1>3, <1>4, <1>5, <1>6, <1>8, <1>9 DEF Popped

\* One more in front.
PutFirst(S, z, e, y) ==
  /\ y \in Seq(S) /\ Len(y) = Len(z) + 1 /\ Len(z) \in Nat /\ y # <<>>
  /\ (\A i \in 1..Len(z) : y[i + 1] = z[i]) /\ y[1] = e
  /\ \A i \in 1..Len(y) : i # 1 => i - 1 \in 1..Len(z) /\ y[i] = z[i - 1]
  /\ \A x : Holds(y, x) <=> Holds(z, x) \/ x = e
  /\ Once(z) /\ ~Holds(z, e) => Once(y)

\* Putting it in front does so.
LEMMA PutIs ==
  ASSUME NEW S, NEW z \in Seq(S), NEW e \in S, NEW y, y = <<e>> \o z
  PROVE  PutFirst(S, z, e, y)
<1>1. <<e>> \in Seq(S) /\ Len(<<e>>) = 1 /\ <<e>>[1] = e /\ Len(z) \in Nat
  BY LenProperties
<1>2. /\ y \in Seq(S) /\ Len(y) = 1 + Len(z)
      /\ \A i \in 1..(1 + Len(z)) : y[i] = IF i <= 1 THEN <<e>>[i] ELSE z[i - 1]
  BY <1>1, ConcatProperties
<1>3. y[1] = e /\ y # <<>>
  <2>1. 1 \in 1..(1 + Len(z)) /\ 1 <= 1
    BY <1>1
  <2> QED
    BY <1>1, <1>2, <2>1, EmptySeq
<1>4. \A i \in 1..Len(y) : i # 1 => i - 1 \in 1..Len(z) /\ y[i] = z[i - 1]
  BY <1>1, <1>2
<1>5. \A i \in 1..Len(z) : i + 1 \in 1..Len(y) /\ i + 1 # 1 /\ (i + 1) - 1 = i
  BY <1>1, <1>2
<1>6. \A i \in 1..Len(z) : y[i + 1] = z[i]
  BY <1>4, <1>5
<1>7. 1 \in 1..Len(y)
  BY <1>1, <1>2
<1>8. \A x : Holds(y, x) <=> Holds(z, x) \/ x = e
  BY <1>3, <1>4, <1>5, <1>6, <1>7 DEF Holds
<1>9. ASSUME Once(z), ~Holds(z, e) PROVE Once(y)
  <2> SUFFICES ASSUME NEW i \in 1..Len(y), NEW j \in 1..Len(y), y[i] = y[j] PROVE i = j
    BY DEF Once
  <2>1. i = 1 <=> j = 1
    BY <1>3, <1>4, <1>9 DEF Holds
  <2>2. CASE i # 1
    <3>1. i - 1 = j - 1
      BY <1>4, <1>9, <2>1, <2>2 DEF Once
    <3> QED
      BY <1>1, <1>2, <3>1
  <2> QED
    BY <2>1, <2>2
<1> QED
  BY <1>1, <1>2, <1>3, <1>4, <1>6, <1>8, <1>9 DEF PutFirst

-----------------------------------------------------------------------------
(* Reverse postorder. *)

Flow(succs, n) ==
  n \in Nat \ {0} /\ Len(succs) = n /\ DOMAIN succs = 1..n /\ \A b \in 1..n : succs[b] \in Seq(1..n)

Goes(succs, a, b) == \E k \in DOMAIN succs[a] : succs[a][k] = b

\* What is open and what is done are the visited blocks, each once.
Listed(n, o, V, z) ==
  /\ o \in Seq(1..n) /\ V \in SUBSET (1..n) /\ z \in Seq(1..n)
  /\ 1 \in V
  /\ \A x : x \in V <=> Holds(o, x) \/ Holds(z, x)
  /\ Once(o) /\ Once(z) /\ \A x : ~(Holds(o, x) /\ Holds(z, x))

\* The open blocks lead from the entry, each to the next; with none open the
\* entry is done, and was the last.
Chained(succs, o, z) ==
  /\ o # <<>> => o[1] = 1
  /\ \A i \in 1..Len(o) : i # 1 => Goes(succs, o[i - 1], o[i])
  /\ o = <<>> => z # <<>> /\ z[1] = 1

\* A done block other than the entry has an edge from one open or done later.
Followed(succs, o, z) ==
  \A i \in 1..Len(z) :
    \/ z[i] = 1
    \/ \E a : /\ Goes(succs, a, z[i])
              /\ Holds(o, a) \/ \E j \in 1..Len(z) : j < i /\ z[j] = a

\* Where a done block goes has been visited.
Explored(succs, V, z) ==
  \A x, c : Holds(z, x) /\ Goes(succs, x, c) => c \in V

\* Every turn opens a block or is done with one.
Paced(o, V, z, t) ==
  /\ Cardinality(V) = Len(o) + Len(z)
  /\ o = <<>> \/ Len(o) + 2 * Len(z) = t + 1

Visiting(succs, n, t, o, V, z) ==
  /\ Listed(n, o, V, z) /\ Chained(succs, o, z) /\ Followed(succs, o, z) /\ Explored(succs, V, z) /\ Paced(o, V, z, t)

\* The two ways a turn goes: the block opened last is done, or opens a target.
Finishes(succs, o, V, z, p, W, y) ==
  /\ p = SubSeq(o, 1, Len(o) - 1) /\ W = V /\ y = <<o[Len(o)]>> \o z
  /\ \A c : Goes(succs, o[Len(o)], c) => c \in V

Opens(succs, o, V, z, p, W, y, to) ==
  /\ p = Append(o, to) /\ W = V \cup {to} /\ y = z
  /\ Goes(succs, o[Len(o)], to) /\ to \notin V

\* A set of numbers that is not empty has a least.
LEMMA Least ==
  ASSUME NEW T, T \subseteq Nat, T # {} PROVE \E k \in T : \A j \in T : k <= j
<1> DEFINE R == OpToRel(<, Nat)
<1>1. IsWellFoundedOn(R, Nat)
  BY NatLessThanWellFounded
<1>2. \A x, y \in Nat : x < y => <<x, y>> \in R
  BY DEF OpToRel
<1> HIDE DEF R
<1>3. PICK k \in T : \A j \in T : <<j, k>> \notin R
  BY <1>1, WFMin
<1>4. \A j \in T : ~(j < k) /\ j \in Nat /\ k \in Nat
  BY <1>2, <1>3
<1> QED
  BY <1>4

Seen(o, V, z) == [open |-> o, visited |-> V, order |-> z]

\* A turn of Visit is one of the two.
LEMMA VisitIs ==
  ASSUME NEW succs, NEW n, Flow(succs, n), NEW o, NEW V, NEW z, Listed(n, o, V, z), o # <<>>
  PROVE  \E p, W, y :
           /\ Visit(succs, Seen(o, V, z)) = Seen(p, W, y)
           /\ \/ Finishes(succs, o, V, z, p, W, y)
              \/ \E to \in 1..n : Opens(succs, o, V, z, p, W, y, to)
<1> DEFINE b == o[Len(o)]
           fresh == {k \in DOMAIN succs[b] : succs[b][k] \notin V}
           to == succs[b][CHOOSE k \in fresh : \A j \in fresh : k <= j]
<1>0. Visit(succs, Seen(o, V, z)) =
        IF fresh = {} THEN Seen(SubSeq(o, 1, Len(o) - 1), V, <<b>> \o z)
        ELSE Seen(Append(o, to), V \cup {to}, z)
  BY DEF Visit, Seen
<1>1. b \in 1..n
  <2>1. o \in Seq(1..n)
    BY DEF Listed
  <2>2. Len(o) \in 1..Len(o)
    BY <2>1, EmptySeq
  <2> QED
    BY <2>1, <2>2, ElementOfSeq
<1> HIDE DEF b
<1>2. /\ DOMAIN succs[b] = 1..Len(succs[b]) /\ Len(succs[b]) \in Nat
      /\ \A k \in 1..Len(succs[b]) : succs[b][k] \in 1..n
  <2>1. succs[b] \in Seq(1..n)
    BY <1>1 DEF Flow
  <2> QED
    BY <2>1, ElementOfSeq, LenProperties
<1>3. CASE fresh = {}
  <2>1. \A c : Goes(succs, b, c) => c \in V
    BY <1>3 DEF Goes
  <2>2. Finishes(succs, o, V, z, SubSeq(o, 1, Len(o) - 1), V, <<b>> \o z)
    BY <2>1 DEF Finishes, b
  <2> QED
    BY <1>0, <1>3, <2>2
<1>4. CASE fresh # {}
  <2>1. fresh \subseteq Nat
    BY <1>2
  <2> HIDE DEF fresh
  <2>2. (CHOOSE k \in fresh : \A j \in fresh : k <= j) \in fresh
    BY <1>4, <2>1, Least
  <2>3. Goes(succs, b, to) /\ to \in 1..n /\ to \notin V
    BY <1>2, <2>2 DEF fresh, Goes
  <2> HIDE DEF to
  <2>4. Opens(succs, o, V, z, Append(o, to), V \cup {to}, z, to)
    BY <2>3 DEF Opens, b
  <2> QED
    BY <1>0, <1>4, <2>3, <2>4
<1> QED
  BY <1>3, <1>4

\* What a finishing turn does to the sequences.
LEMMA FinishShifts ==
  ASSUME NEW succs, NEW n, NEW o, NEW V, NEW z, NEW p, NEW W, NEW y,
         Listed(n, o, V, z), o # <<>>, Finishes(succs, o, V, z, p, W, y)
  PROVE  LET b == o[Len(o)] IN
         /\ b \in 1..n /\ Holds(o, b) /\ ~Holds(z, b)
         /\ p \in Seq(1..n) /\ W \in SUBSET (1..n) /\ y \in Seq(1..n)
         /\ W = V /\ y # <<>>
         /\ Len(o) \in Nat /\ Len(o) >= 1 /\ Len(z) \in Nat
         /\ Len(p) = Len(o) - 1 /\ Len(y) = Len(z) + 1
         /\ \A i \in 1..Len(p) : i \in 1..Len(o) /\ p[i] = o[i]
         /\ y[1] = b
         /\ \A i \in 1..Len(z) : y[i + 1] = z[i]
         /\ \A i \in 1..Len(y) : i # 1 => i - 1 \in 1..Len(z) /\ y[i] = z[i - 1]
         /\ \A x : Holds(o, x) <=> Holds(p, x) \/ x = b
         /\ \A x : Holds(y, x) <=> Holds(z, x) \/ x = b
         /\ ~Holds(p, b) /\ Once(p) /\ Once(y)
<1> DEFINE b == o[Len(o)]
<1>1. /\ o \in Seq(1..n) /\ V \in SUBSET (1..n) /\ z \in Seq(1..n)
      /\ Once(o) /\ Once(z) /\ \A x : ~(Holds(o, x) /\ Holds(z, x))
  BY DEF Listed
<1>2. p = SubSeq(o, 1, Len(o) - 1) /\ W = V /\ y = <<b>> \o z
  BY DEF Finishes
<1>4. /\ Len(o) \in Nat /\ Len(o) >= 1 /\ b \in 1..n
      /\ p \in Seq(1..n) /\ Len(p) = Len(o) - 1
      /\ \A i \in 1..Len(p) : i \in 1..Len(o) /\ p[i] = o[i]
      /\ \A x : Holds(o, x) <=> Holds(p, x) \/ x = b
      /\ Once(o) => Once(p) /\ ~Holds(p, b)
  <2>1. Popped(1..n, o, p)
    BY <1>1, <1>2, PopIs
  <2> QED
    BY <2>1 DEF Popped
<1>5. Holds(o, b) /\ ~Holds(z, b)
  BY <1>1, <1>4
<1> HIDE DEF b
<1>6. /\ y \in Seq(1..n) /\ Len(y) = Len(z) + 1 /\ Len(z) \in Nat /\ y # <<>>
      /\ (\A i \in 1..Len(z) : y[i + 1] = z[i]) /\ y[1] = b
      /\ \A i \in 1..Len(y) : i # 1 => i - 1 \in 1..Len(z) /\ y[i] = z[i - 1]
      /\ \A x : Holds(y, x) <=> Holds(z, x) \/ x = b
      /\ Once(z) /\ ~Holds(z, b) => Once(y)
  <2>1. PutFirst(1..n, z, b, y)
    BY <1>1, <1>2, <1>4, PutIs
  <2> QED
    BY <2>1 DEF PutFirst
<1>7. p \in Seq(1..n) /\ W \in SUBSET (1..n) /\ y \in Seq(1..n)
  BY <1>1, <1>2, <1>4, <1>6
<1> QED
  BY <1>1, <1>2, <1>4, <1>5, <1>6, <1>7 DEF b

\* A block that is done stands before those done already, and its parent is
\* still open.
LEMMA FinishKeeps ==
  ASSUME NEW succs, NEW n \in Nat, NEW t \in Nat,
         NEW o, NEW V, NEW z, NEW p, NEW W, NEW y, Visiting(succs, n, t, o, V, z), o # <<>>,
         Finishes(succs, o, V, z, p, W, y)
  PROVE  Visiting(succs, n, t + 1, p, W, y)
<1> DEFINE b == o[Len(o)]
<1>1. /\ Listed(n, o, V, z) /\ Chained(succs, o, z) /\ Followed(succs, o, z) /\ Explored(succs, V, z) /\ Paced(o, V, z, t)
  BY DEF Visiting
<1>2. /\ b \in 1..n /\ Holds(o, b) /\ ~Holds(z, b)
      /\ p \in Seq(1..n) /\ W \in SUBSET (1..n) /\ y \in Seq(1..n)
      /\ W = V /\ y # <<>>
      /\ Len(o) \in Nat /\ Len(o) >= 1 /\ Len(z) \in Nat
      /\ Len(p) = Len(o) - 1 /\ Len(y) = Len(z) + 1
      /\ \A i \in 1..Len(p) : i \in 1..Len(o) /\ p[i] = o[i]
      /\ y[1] = b
      /\ \A i \in 1..Len(z) : y[i + 1] = z[i]
      /\ \A i \in 1..Len(y) : i # 1 => i - 1 \in 1..Len(z) /\ y[i] = z[i - 1]
      /\ \A x : Holds(o, x) <=> Holds(p, x) \/ x = b
      /\ \A x : Holds(y, x) <=> Holds(z, x) \/ x = b
      /\ ~Holds(p, b) /\ Once(p) /\ Once(y)
  BY <1>1, FinishShifts
<1>3. \A c : Goes(succs, b, c) => c \in V
  BY DEF Finishes
<1>4. b = 1 \/ \E a : Goes(succs, a, b) /\ Holds(p, a)
  <2>1. CASE Len(o) = 1
    BY <1>1, <2>1 DEF Chained
  <2>2. CASE Len(o) # 1
    <3>0. Len(o) \in Nat /\ Len(o) >= 1 /\ Len(p) = Len(o) - 1
      BY <1>2
    <3>1. Len(o) \in 1..Len(o) /\ Len(o) - 1 \in 1..Len(p)
      BY <2>2, <3>0
    <3>2. Goes(succs, o[Len(o) - 1], b)
      BY <1>1, <2>2, <3>1 DEF Chained
    <3>3. p[Len(o) - 1] = o[Len(o) - 1]
      BY <1>2, <3>1
    <3> QED
      BY <3>1, <3>2, <3>3 DEF Holds
  <2> QED
    BY <2>1, <2>2
<1>5. o[1] = 1
  BY <1>1 DEF Chained
<1>6. Len(o) = 1 => b = 1
  BY <1>5
<1> HIDE DEF b
<1>7. Listed(n, p, W, y)
  <2>1. 1 \in V /\ \A x : x \in V <=> Holds(o, x) \/ Holds(z, x)
    BY <1>1 DEF Listed
  <2>2. \A x : ~(Holds(o, x) /\ Holds(z, x))
    BY <1>1 DEF Listed
  <2>3. \A x : W = V /\ (x \in W <=> Holds(p, x) \/ Holds(y, x))
    BY <1>2, <2>1
  <2>4. \A x : ~(Holds(p, x) /\ Holds(y, x))
    BY <1>2, <2>2
  <2> QED
    BY <1>2, <2>1, <2>3, <2>4 DEF Listed
<1>8. Chained(succs, p, y)
  <2>0. Len(p) \in Nat /\ p \in Seq(1..n)
    BY <1>2
  <2>1. p # <<>> => 1 \in 1..Len(p)
    BY <2>0, EmptySeq
  <2>2. p # <<>> => p[1] = 1
    BY <1>2, <1>5, <2>1
  <2>3. ASSUME NEW i \in 1..Len(p), i # 1 PROVE Goes(succs, p[i - 1], p[i])
    <3>1. i - 1 \in 1..Len(p)
      BY <2>0, <2>3
    <3>2. p[i] = o[i] /\ p[i - 1] = o[i - 1] /\ i \in 1..Len(o)
      BY <1>2, <3>1
    <3> QED
      BY <1>1, <2>3, <3>2 DEF Chained
  <2>4. p = <<>> => Len(o) = 1
    <3>1. Len(<<>>) = 0
      BY EmptySeq
    <3>2. p = <<>> => Len(o) - 1 = 0
      BY <1>2, <3>1
    <3> QED
      BY <1>2, <3>2
  <2> QED
    BY <1>2, <1>6, <2>2, <2>3, <2>4 DEF Chained
<1>9. Followed(succs, p, y)
  <2> SUFFICES ASSUME NEW i \in 1..Len(y), y[i] # 1
               PROVE  \E a : /\ Goes(succs, a, y[i])
                             /\ Holds(p, a) \/ \E j \in 1..Len(y) : j < i /\ y[j] = a
    BY DEF Followed
  <2>1. CASE i = 1
    BY <1>2, <1>4, <2>1
  <2>2. CASE i # 1
    <3>1. i - 1 \in 1..Len(z) /\ y[i] = z[i - 1]
      BY <1>2, <2>2
    <3>2. PICK a : /\ Goes(succs, a, y[i])
                   /\ Holds(o, a) \/ \E j \in 1..Len(z) : j < i - 1 /\ z[j] = a
      BY <1>1, <3>1 DEF Followed
    <3>3. CASE Holds(p, a)
      BY <3>2, <3>3
    <3>4. CASE a = b
      <4>1. 1 \in 1..Len(y) /\ 1 < i
        BY <1>2, <2>2
      <4> QED
        BY <1>2, <3>2, <3>4, <4>1
    <3>5. CASE \E j \in 1..Len(z) : j < i - 1 /\ z[j] = a
      <4>1. PICK j \in 1..Len(z) : j < i - 1 /\ z[j] = a
        BY <3>5
      <4>2. Len(z) \in Nat /\ Len(y) = Len(z) + 1 /\ y[j + 1] = z[j]
        BY <1>2
      <4>3. j + 1 \in 1..Len(y) /\ j + 1 < i /\ y[j + 1] = a
        BY <4>1, <4>2
      <4> QED
        BY <3>2, <4>3
    <3> QED
      BY <1>2, <3>2, <3>3, <3>4, <3>5
  <2> QED
    BY <2>1, <2>2
<1>10. Explored(succs, W, y)
  BY <1>1, <1>2, <1>3 DEF Explored
<1>11. Paced(p, W, y, t + 1)
  <2>1. Len(o) + 2 * Len(z) = t + 1
    BY <1>1 DEF Paced
  <2>2. Len(p) + 2 * Len(y) = (t + 1) + 1
    BY <1>2, <2>1
  <2>3. Cardinality(W) = Len(p) + Len(y)
    <3>1. Cardinality(V) = Len(o) + Len(z)
      BY <1>1 DEF Paced
    <3>2. Len(o) + Len(z) = Len(p) + Len(y)
      BY <1>2
    <3> QED
      BY <1>2, <3>1, <3>2
  <2> QED
    BY <2>2, <2>3 DEF Paced
<1> QED
  BY <1>7, <1>8, <1>9, <1>10, <1>11 DEF Visiting

\* A block that is opened is led to by the one opened before.
LEMMA OpenKeeps ==
  ASSUME NEW succs, NEW n \in Nat, NEW t \in Nat,
         NEW o, NEW V, NEW z, NEW p, NEW W, NEW y, Visiting(succs, n, t, o, V, z), o # <<>>,
         NEW to \in 1..n, Opens(succs, o, V, z, p, W, y, to)
  PROVE  Visiting(succs, n, t + 1, p, W, y)
<1>1. /\ Listed(n, o, V, z) /\ Chained(succs, o, z) /\ Followed(succs, o, z) /\ Explored(succs, V, z) /\ Paced(o, V, z, t)
  BY DEF Visiting
<1>2. /\ o \in Seq(1..n) /\ V \in SUBSET (1..n) /\ z \in Seq(1..n) /\ 1 \in V
      /\ Once(o) /\ Once(z) /\ \A x : ~(Holds(o, x) /\ Holds(z, x))
      /\ \A x : x \in V <=> Holds(o, x) \/ Holds(z, x)
  BY <1>1 DEF Listed
<1>3. /\ p = Append(o, to) /\ W = V \cup {to} /\ y = z
      /\ Goes(succs, o[Len(o)], to) /\ to \notin V
  BY DEF Opens
<1>4. /\ p \in Seq(1..n) /\ Len(p) = Len(o) + 1 /\ Len(o) \in Nat
      /\ (\A i \in 1..Len(o) : p[i] = o[i]) /\ p[Len(o) + 1] = to
      /\ \A x : Holds(p, x) <=> Holds(o, x) \/ x = to
      /\ Once(o) /\ ~Holds(o, to) => Once(p)
  <2>1. Pushed(1..n, o, to, p)
    BY <1>2, <1>3, PushIs
  <2> QED
    BY <2>1 DEF Pushed
<1>5. Len(o) >= 1
  BY <1>2, EmptySeq
<1>6. ~Holds(o, to) /\ ~Holds(z, to)
  BY <1>2, <1>3
<1>7. Listed(n, p, W, y)
  <2>1. p \in Seq(1..n) /\ W \in SUBSET (1..n) /\ y \in Seq(1..n)
    BY <1>2, <1>3, <1>4
  <2>2. \A x : x \in W <=> Holds(p, x) \/ Holds(y, x)
    BY <1>2, <1>3, <1>4
  <2>3. \A x : ~(Holds(p, x) /\ Holds(y, x))
    BY <1>2, <1>3, <1>4, <1>6
  <2> QED
    BY <1>2, <1>3, <1>4, <1>6, <2>1, <2>2, <2>3 DEF Listed
<1>8. Chained(succs, p, y)
  <2>1. p[1] = 1
    <3>1. o[1] = 1 /\ 1 \in 1..Len(o)
      BY <1>1, <1>4, <1>5 DEF Chained
    <3> QED
      BY <1>4, <3>1
  <2>2. ASSUME NEW i \in 1..Len(p), i # 1 PROVE Goes(succs, p[i - 1], p[i])
    <3>1. CASE i = Len(o) + 1
      <4>1. i - 1 = Len(o) /\ Len(o) \in 1..Len(o)
        BY <1>4, <1>5, <3>1
      <4> QED
        BY <1>3, <1>4, <3>1, <4>1
    <3>2. CASE i # Len(o) + 1
      <4>1. i \in 1..Len(o) /\ i - 1 \in 1..Len(o)
        BY <1>4, <2>2, <3>2
      <4> QED
        BY <1>1, <1>4, <2>2, <4>1 DEF Chained
    <3> QED
      BY <3>1, <3>2
  <2>3. p # <<>>
    <3>1. Len(<<>>) = 0
      BY EmptySeq
    <3> QED
      BY <1>4, <3>1
  <2> QED
    BY <2>1, <2>2, <2>3 DEF Chained
<1>9. Followed(succs, p, y)
  BY <1>1, <1>3, <1>4 DEF Followed
<1>10. Explored(succs, W, y)
  BY <1>1, <1>3 DEF Explored
<1>11. Paced(p, W, y, t + 1)
  <2>1. Len(o) + 2 * Len(z) = t + 1 /\ Cardinality(V) = Len(o) + Len(z)
    BY <1>1 DEF Paced
  <2>2. Len(z) \in Nat
    BY <1>2, LenProperties
  <2>3. Len(p) + 2 * Len(y) = (t + 1) + 1
    BY <1>3, <1>4, <2>1, <2>2
  <2>4. Cardinality(W) = Cardinality(V) + 1
    <3>1. IsFiniteSet(1..n)
      BY FS_Interval
    <3>2. IsFiniteSet(V)
      BY <1>2, <3>1, FS_Subset
    <3> QED
      BY <1>3, <3>2, FS_AddElement
  <2>5. (Len(o) + Len(z)) + 1 = (Len(o) + 1) + Len(z)
    BY <1>4, <2>2
  <2> QED
    BY <1>3, <1>4, <2>1, <2>3, <2>4, <2>5 DEF Paced
<1> QED
  BY <1>7, <1>8, <1>9, <1>10, <1>11 DEF Visiting

\* With none open a turn changes nothing, but for the count.
LEMMA SearchGoes ==
  ASSUME NEW succs, NEW n, Flow(succs, n), NEW t \in Nat, NEW o, NEW V, NEW z,
         Visiting(succs, n, t, o, V, z)
  PROVE  \E p, W, y : /\ Visit(succs, Seen(o, V, z)) = Seen(p, W, y)
                      /\ Visiting(succs, n, t + 1, p, W, y)
<1>1. n \in Nat /\ Listed(n, o, V, z)
  BY DEF Flow, Visiting
<1>2. CASE o = <<>>
  <2>1. Visit(succs, Seen(o, V, z)) = Seen(o, V, z)
    BY <1>2 DEF Visit, Seen
  <2>2. Visiting(succs, n, t + 1, o, V, z)
    BY <1>2 DEF Visiting, Paced
  <2> QED
    BY <2>1, <2>2
<1>3. CASE o # <<>>
  <2>1. PICK p, W, y : /\ Visit(succs, Seen(o, V, z)) = Seen(p, W, y)
                       /\ \/ Finishes(succs, o, V, z, p, W, y)
                          \/ \E to \in 1..n : Opens(succs, o, V, z, p, W, y, to)
    BY <1>1, <1>3, VisitIs
  <2>2. CASE Finishes(succs, o, V, z, p, W, y)
    <3>1. Visiting(succs, n, t + 1, p, W, y)
      BY <1>1, <1>3, <2>2, FinishKeeps
    <3> QED
      BY <2>1, <3>1
  <2>3. CASE \E to \in 1..n : Opens(succs, o, V, z, p, W, y, to)
    <3>1. Visiting(succs, n, t + 1, p, W, y)
      BY <1>1, <1>3, <2>3, OpenKeeps
    <3> QED
      BY <2>1, <3>1
  <2> QED
    BY <2>1, <2>2, <2>3
<1> QED
  BY <1>2, <1>3

\* What holds when the search begins: the entry is open, and nothing is done.
LEMMA SearchBegins ==
  ASSUME NEW succs, NEW n, Flow(succs, n)
  PROVE  Visiting(succs, n, 0, <<1>>, {1}, <<>>)
<1> DEFINE o == <<1>>
           z == <<>>
<1>1. n \in Nat \ {0} /\ 1 \in 1..n
  BY DEF Flow
<1>2. o \in Seq(1..n) /\ Len(o) = 1 /\ o[1] = 1 /\ o # <<>>
  BY <1>1
<1>3. z \in Seq(1..n) /\ Len(z) = 0 /\ 1..Len(z) = {}
  BY EmptySeq
<1> HIDE DEF o, z
<1>4. (\A x : Holds(o, x) <=> x = 1) /\ (\A x : ~Holds(z, x))
  <2>1. \A i : i \in 1..Len(o) <=> i = 1
    BY <1>2
  <2> QED
    BY <1>2, <1>3, <2>1 DEF Holds
<1>5. Once(o) /\ Once(z)
  <2>1. \A i : i \in 1..Len(o) <=> i = 1
    BY <1>2
  <2> QED
    BY <1>3, <2>1 DEF Once
<1>6. Listed(n, o, {1}, z)
  BY <1>1, <1>2, <1>3, <1>4, <1>5 DEF Listed
<1>7. Chained(succs, o, z)
  <2>1. \A i \in 1..Len(o) : i = 1
    BY <1>2
  <2> QED
    BY <1>2, <2>1 DEF Chained
<1>8. Followed(succs, o, z) /\ Explored(succs, {1}, z)
  BY <1>3, <1>4 DEF Followed, Explored
<1>9. Paced(o, {1}, z, 0)
  <2>1. Cardinality({1}) = 1
    BY FS_Singleton
  <2>2. Len(o) + Len(z) = 1 /\ Len(o) + 2 * Len(z) = 0 + 1
    BY <1>2, <1>3
  <2> QED
    BY <2>1, <2>2 DEF Paced
<1>10. Visiting(succs, n, 0, o, {1}, z)
  BY <1>6, <1>7, <1>8, <1>9 DEF Visiting
<1> QED
  BY <1>10 DEF o, z

\* After two turns a block none is open.
LEMMA SearchEnds ==
  ASSUME NEW succs, NEW n, Flow(succs, n)
  PROVE  \E V, z : postorderReversed(succs) = z /\ Visiting(succs, n, 2 * n, <<>>, V, z)
<1> DEFINE States == [open : Seq(1..n), visited : SUBSET (1..n), order : Seq(1..n)]
           visit == [s \in Nat \X States |-> Visit(succs, s[2])]
           start == [open |-> <<1>>, visited |-> {1}, order |-> <<>>]
           at(t) == Loop(visit, start, t)
           S == {t \in Nat : \E o, V, z : at(t) = Seen(o, V, z) /\ Visiting(succs, n, t, o, V, z)}
<1>1. n \in Nat /\ Len(succs) = n /\ DOMAIN succs = 1..n
  BY DEF Flow
<1>2. postorderReversed(succs) = at(2 * n).order
  BY <1>1 DEF postorderReversed, Postorder
<1>3. \A t \in Nat : \A s \in States : visit[<<t, s>>] = Visit(succs, s)
  OBVIOUS
<1>4. \A o, V, z : Listed(n, o, V, z) => Seen(o, V, z) \in States
  BY DEF Listed, Seen
<1> HIDE DEF visit, States
<1>5. at(0) = start /\ \A t \in Nat : at(t + 1) = visit[<<t + 1, at(t)>>]
  BY LoopIs
<1>6. start = Seen(<<1>>, {1}, <<>>)
  BY DEF Seen
<1> HIDE DEF at, start
<1>7. 0 \in S
  BY <1>5, <1>6, SearchBegins
<1>8. ASSUME NEW t \in Nat, t \in S PROVE t + 1 \in S
  <2>1. PICK o, V, z : at(t) = Seen(o, V, z) /\ Visiting(succs, n, t, o, V, z)
    BY <1>8
  <2>2. Seen(o, V, z) \in States /\ t + 1 \in Nat
    BY <1>4, <2>1 DEF Visiting
  <2>3. at(t + 1) = Visit(succs, Seen(o, V, z))
    BY <1>3, <1>5, <2>1, <2>2
  <2>4. PICK p, W, y : Visit(succs, Seen(o, V, z)) = Seen(p, W, y) /\ Visiting(succs, n, t + 1, p, W, y)
    BY <2>1, SearchGoes
  <2> QED
    BY <2>2, <2>3, <2>4
<1> HIDE DEF S
<1>9. \A t \in Nat : t \in S
  BY <1>7, <1>8, NatSet
<1>10. PICK o, V, z : at(2 * n) = Seen(o, V, z) /\ Visiting(succs, n, 2 * n, o, V, z)
  <2>1. 2 * n \in Nat
    BY <1>1
  <2> QED
    BY <1>9, <2>1 DEF S
<1>11. o = <<>>
  <2> SUFFICES ASSUME o # <<>> PROVE FALSE
    OBVIOUS
  <2>1. o \in Seq(1..n) /\ z \in Seq(1..n) /\ V \in SUBSET (1..n)
    BY <1>10 DEF Visiting, Listed
  <2>2. Len(o) + 2 * Len(z) = 2 * n + 1 /\ Cardinality(V) = Len(o) + Len(z)
    BY <1>10 DEF Visiting, Paced
  <2>3. Cardinality(V) <= n
    <3>1. IsFiniteSet(1..n) /\ Cardinality(1..n) = n
      BY <1>1, FS_Interval
    <3> QED
      BY <2>1, <3>1, FS_Subset
  <2>4. Len(o) \in Nat /\ Len(o) >= 1 /\ Len(z) \in Nat
    BY <2>1, EmptySeq, LenProperties
  <2> QED
    BY <1>1, <2>2, <2>3, <2>4
<1>12. postorderReversed(succs) = z
  BY <1>2, <1>10 DEF Seen
<1> QED
  BY <1>10, <1>11, <1>12

\* An order of a graph: each block the entry reaches once, the entry first, and
\* each other block after one that goes to it.
OrderOf(succs, n, z) ==
  /\ z \in Seq(1..n) /\ z # <<>> /\ z[1] = 1 /\ Once(z)
  /\ \A i \in 1..Len(z) : i # 1 => \E j \in 1..Len(z) : j < i /\ Goes(succs, z[j], z[i])
  /\ \A x, c : Holds(z, x) /\ Goes(succs, x, c) => Holds(z, c)

\* Reverse postorder is such an order (reversePostorder, postorderReversed), on
\* every graph.
THEOREM ReversePostorder ==
  ASSUME NEW succs, NEW n, Flow(succs, n)
  PROVE  OrderOf(succs, n, postorderReversed(succs))
<1> DEFINE z == postorderReversed(succs)
<1>1. PICK V : Visiting(succs, n, 2 * n, <<>>, V, z)
  BY SearchEnds
<1> HIDE DEF z
<1>2. /\ Listed(n, <<>>, V, z) /\ Chained(succs, <<>>, z) /\ Followed(succs, <<>>, z)
      /\ Explored(succs, V, z)
  BY <1>1 DEF Visiting
<1>3. \A x : ~Holds(<<>>, x)
  <2>1. Len(<<>>) = 0
    BY EmptySeq
  <2> QED
    BY <2>1 DEF Holds
<1>4. z \in Seq(1..n) /\ Once(z) /\ z # <<>> /\ z[1] = 1
  BY <1>2 DEF Listed, Chained
<1>5. ASSUME NEW i \in 1..Len(z), i # 1
      PROVE  \E j \in 1..Len(z) : j < i /\ Goes(succs, z[j], z[i])
  <2>1. z[i] # 1
    <3>1. 1 \in 1..Len(z)
      BY <1>4, EmptySeq
    <3> QED
      BY <1>4, <1>5, <3>1 DEF Once
  <2> QED
    BY <1>2, <1>3, <2>1 DEF Followed
<1>6. \A x, c : Holds(z, x) /\ Goes(succs, x, c) => Holds(z, c)
  BY <1>2, <1>3 DEF Explored, Listed
<1> QED
  BY <1>4, <1>5, <1>6 DEF OrderOf, z

-----------------------------------------------------------------------------
(* The dominator tree of a graph of blocks. *)

\* preds has the edges of succs, the other way round (blockPredecessors).
Mirrors(succs, preds, n) ==
  /\ Graph(preds, n)
  /\ \A b \in 1..n : preds[b] \in Seq(1..n)
  /\ \A a, b \in 1..n : Leads(preds, a, b) <=> Goes(succs, a, b)

\* The place of a block: 0 when it has none.
IsPlace(z, b, i) == \A j \in 1..Len(z) : z[j] = b <=> j = i

\* The edges among places are those among the blocks there.
Carries(preds, n, z, from) ==
  /\ z \in Seq(1..n) /\ z # <<>> /\ z[1] = 1 /\ Once(z)
  /\ Graph(from, Len(z))
  /\ \A i, j \in 1..Len(z) : Leads(from, i, j) <=> Leads(preds, z[i], z[j])
  /\ \A x, c \in 1..n : Holds(z, x) /\ Leads(preds, x, c) => Holds(z, c)

\* What the tree of a graph is made of.
LEMMA TreeParts ==
  ASSUME NEW succs, NEW preds, NEW n, Flow(succs, n), Mirrors(succs, preds, n)
  PROVE  LET tree == DominatorTree(succs, preds) IN
         /\ tree.idom = immediateDominators(tree.from)
         /\ Carries(preds, n, tree.order, tree.from) /\ Ordered(tree.from)
         /\ \A b \in 1..n : /\ tree.place[b] \in 0..Len(tree.order)
                            /\ tree.place[b] # 0 <=> Holds(tree.order, b)
                            /\ IsPlace(tree.order, b, tree.place[b])
<1> DEFINE z == postorderReversed(succs)
           place == [b \in DOMAIN succs |->
                       IF \E i \in DOMAIN z : z[i] = b
                       THEN CHOOSE i \in DOMAIN z : z[i] = b ELSE 0]
           from == [i \in DOMAIN z |-> [k \in DOMAIN preds[z[i]] |-> place[preds[z[i]][k]]]]
           tree == DominatorTree(succs, preds)
<1>1. /\ tree.order = z /\ tree.place = place /\ tree.from = from
      /\ tree.idom = immediateDominators(from)
  BY DEF DominatorTree, Held
<1>2. /\ z \in Seq(1..n) /\ z # <<>> /\ z[1] = 1 /\ Once(z)
      /\ \A i \in 1..Len(z) : i # 1 => \E j \in 1..Len(z) : j < i /\ Goes(succs, z[j], z[i])
      /\ \A x, c : Holds(z, x) /\ Goes(succs, x, c) => Holds(z, c)
  BY ReversePostorder DEF OrderOf
<1>3. /\ DOMAIN succs = 1..n /\ n \in Nat
      /\ \A b \in 1..n : preds[b] \in Seq(1..n)
      /\ \A a, b \in 1..n : Leads(preds, a, b) <=> Goes(succs, a, b)
  BY DEF Flow, Mirrors
<1> HIDE DEF z, tree
<1>4. DOMAIN z = 1..Len(z) /\ Len(z) \in Nat \ {0} /\ \A i \in 1..Len(z) : z[i] \in 1..n
  BY <1>2, EmptySeq, ElementOfSeq, LenProperties
<1>5. ASSUME NEW b \in 1..n
      PROVE  /\ place[b] \in 0..Len(z) /\ (place[b] # 0 <=> Holds(z, b)) /\ IsPlace(z, b, place[b])
  <2>1. CASE Holds(z, b)
    <3>1. place[b] \in 1..Len(z) /\ z[place[b]] = b
      BY <1>3, <1>4, <2>1 DEF Holds
    <3> HIDE DEF place
    <3>2. IsPlace(z, b, place[b])
      BY <1>2, <3>1 DEF IsPlace, Once
    <3> QED
      BY <1>4, <2>1, <3>1, <3>2
  <2>2. CASE ~Holds(z, b)
    <3>1. place[b] = 0
      BY <1>3, <1>4, <2>2 DEF Holds
    <3> HIDE DEF place
    <3>2. IsPlace(z, b, place[b])
      BY <1>4, <2>2, <3>1 DEF IsPlace, Holds
    <3> QED
      BY <1>4, <2>2, <3>1, <3>2
  <2> QED
    BY <2>1, <2>2
<1> HIDE DEF place
<1>6. Len(from) = Len(z) /\ \A i \in 1..Len(z) :
        from[i] = [k \in DOMAIN preds[z[i]] |-> place[preds[z[i]][k]]]
  <2>1. DOMAIN from = 1..Len(z)
    BY <1>4
  <2>2. from \in Seq({from[i] : i \in 1..Len(z)})
    BY <1>4, <2>1
  <2> QED
    BY <1>4, <2>1, <2>2, LenProperties
<1> HIDE DEF from
<1>7. ASSUME NEW i \in 1..Len(z)
      PROVE  /\ from[i] \in Seq(0..Len(z)) /\ DOMAIN from[i] = DOMAIN preds[z[i]]
             /\ \A k \in DOMAIN from[i] : preds[z[i]][k] \in 1..n /\ from[i][k] = place[preds[z[i]][k]]
  <2> DEFINE s == preds[z[i]]
  <2>1. s \in Seq(1..n) /\ DOMAIN s = 1..Len(s) /\ Len(s) \in Nat /\ \A k \in 1..Len(s) : s[k] \in 1..n
    BY <1>3, <1>4, ElementOfSeq, LenProperties
  <2>2. from[i] = [k \in 1..Len(s) |-> place[s[k]]]
    BY <1>6, <2>1
  <2>3. \A k \in 1..Len(s) : place[s[k]] \in 0..Len(z)
    BY <1>5, <2>1
  <2> HIDE DEF s
  <2>4. from[i] \in Seq(0..Len(z))
    BY <2>1, <2>2, <2>3
  <2> QED
    BY <2>1, <2>2, <2>4 DEF s
<1>8. Graph(from, Len(z))
  BY <1>4, <1>6, <1>7 DEF Graph
<1>9. ASSUME NEW i \in 1..Len(z), NEW j \in 1..Len(z)
      PROVE  Leads(from, i, j) <=> Leads(preds, z[i], z[j])
  <2>1. \A b \in 1..n : place[b] = i <=> z[i] = b
    BY <1>4, <1>5 DEF IsPlace
  <2>2. /\ DOMAIN from[j] = DOMAIN preds[z[j]]
        /\ \A k \in DOMAIN from[j] : preds[z[j]][k] \in 1..n /\ from[j][k] = place[preds[z[j]][k]]
    BY <1>7
  <2>3. \A k \in DOMAIN from[j] : from[j][k] = i <=> preds[z[j]][k] = z[i]
    <3> TAKE k \in DOMAIN from[j]
    <3> DEFINE c == preds[z[j]][k]
    <3>1. c \in 1..n /\ from[j][k] = place[c]
      BY <2>2
    <3> HIDE DEF c
    <3>2. from[j][k] = i <=> c = z[i]
      BY <2>1, <3>1
    <3> QED
      BY <3>2 DEF c
  <2> QED
    BY <2>2, <2>3 DEF Leads
<1>10. \A x, c \in 1..n : Holds(z, x) /\ Leads(preds, x, c) => Holds(z, c)
  BY <1>2, <1>3
<1>11. Carries(preds, n, z, from)
  BY <1>2, <1>8, <1>9, <1>10 DEF Carries
<1>12. Ordered(from)
  <2> SUFFICES ASSUME NEW b \in 2..Len(z) PROVE \E a \in 1..(b - 1) : Leads(from, a, b)
    BY <1>6 DEF Ordered
  <2>1. b \in 1..Len(z) /\ b # 1
    BY <1>4
  <2>2. PICK a \in 1..Len(z) : a < b /\ Goes(succs, z[a], z[b])
    BY <1>2, <2>1
  <2>3. Leads(from, a, b)
    BY <1>3, <1>4, <1>9, <2>1, <2>2
  <2>4. a \in 1..(b - 1)
    BY <1>4, <2>1, <2>2
  <2> QED
    BY <2>3, <2>4
<1> QED
  BY <1>1, <1>5, <1>11, <1>12 DEF tree

\* A path among blocks stays among those that have a place.
LEMMA PathHeld ==
  ASSUME NEW preds, NEW n, NEW z, NEW from, Carries(preds, n, z, from), n \in Nat,
         NEW q \in Seq(1..n), Path(preds, q)
  PROVE  \A i \in 1..Len(q) : Holds(z, q[i])
<1> DEFINE S == {i \in Nat : i + 1 <= Len(q) => Holds(z, q[i + 1])}
<1>1. Len(q) \in Nat /\ \A i \in 1..Len(q) : q[i] \in 1..n
  BY ElementOfSeq, LenProperties
<1>2. q[1] = 1 /\ \A i \in 1..(Len(q) - 1) : Leads(preds, q[i], q[i + 1])
  BY DEF Path
<1>3. 0 \in S
  <2>1. z # <<>> /\ z \in Seq(1..n) /\ z[1] = 1
    BY DEF Carries
  <2>2. 1 \in 1..Len(z) /\ 0 + 1 = 1
    BY <2>1, EmptySeq
  <2> QED
    BY <1>2, <2>1, <2>2 DEF Holds
<1>4. ASSUME NEW i \in Nat, i \in S PROVE i + 1 \in S
  <2> SUFFICES ASSUME (i + 1) + 1 <= Len(q) PROVE Holds(z, q[(i + 1) + 1])
    OBVIOUS
  <2>1. /\ i + 1 <= Len(q) /\ i + 1 \in 1..(Len(q) - 1)
        /\ i + 1 \in 1..Len(q) /\ (i + 1) + 1 \in 1..Len(q)
    BY <1>1
  <2>2. Holds(z, q[i + 1]) /\ Leads(preds, q[i + 1], q[(i + 1) + 1])
    BY <1>2, <1>4, <2>1
  <2> QED
    BY <1>1, <2>1, <2>2 DEF Carries
<1> HIDE DEF S
<1>5. \A i \in Nat : i \in S
  BY <1>3, <1>4, NatSet
<1>6. \A i \in 1..Len(q) : i - 1 \in Nat /\ (i - 1) + 1 = i
  BY <1>1
<1>7. ASSUME NEW i \in 1..Len(q) PROVE Holds(z, q[i])
  <2> DEFINE k == i - 1
  <2>1. k \in Nat /\ k + 1 = i /\ k + 1 <= Len(q)
    BY <1>1, <1>6
  <2> HIDE DEF k
  <2>2. Holds(z, q[k + 1])
    BY <1>5, <2>1 DEF S
  <2> QED
    BY <2>1, <2>2
<1> QED
  BY <1>7

\* A path misses a block exactly when the path over places misses its place.
LEMMA MissesCarried ==
  ASSUME NEW preds, NEW n, NEW z, NEW from, Carries(preds, n, z, from), Graph(preds, n),
         NEW d \in 1..n, NEW e, IsPlace(z, d, e), NEW i \in 1..Len(z)
  PROVE  (\E p : Misses(from, Len(z), e, i, p)) <=> (\E q : Misses(preds, n, d, z[i], q))
<1>1. /\ z \in Seq(1..n) /\ z[1] = 1 /\ Once(z) /\ n \in Nat
      /\ DOMAIN z = 1..Len(z) /\ \A j \in 1..Len(z) : z[j] \in 1..n
      /\ \A j, k \in 1..Len(z) : Leads(from, j, k) <=> Leads(preds, z[j], z[k])
      /\ Len(z) \in Nat /\ 1 \in 1..Len(z)
  <2>1. /\ z \in Seq(1..n) /\ z # <<>> /\ z[1] = 1 /\ Once(z)
        /\ \A j, k \in 1..Len(z) : Leads(from, j, k) <=> Leads(preds, z[j], z[k])
    BY DEF Carries
  <2>2. n \in Nat
    BY DEF Graph
  <2>3. DOMAIN z = 1..Len(z) /\ Len(z) \in Nat /\ 1 \in 1..Len(z) /\ \A j \in 1..Len(z) : z[j] \in 1..n
    <3>1. DOMAIN z = 1..Len(z) /\ Len(z) \in Nat
      BY <2>1, LenProperties
    <3>2. Len(z) # 0
      BY <2>1, EmptySeq
    <3>3. \A j \in 1..Len(z) : z[j] \in 1..n
      BY <2>1, ElementOfSeq
    <3> QED
      BY <3>1, <3>2, <3>3
  <2> QED
    BY <2>1, <2>2, <2>3
<1>2. ASSUME NEW p, Misses(from, Len(z), e, i, p)
      PROVE  \E q : Misses(preds, n, d, z[i], q)
  <2> DEFINE q == [k \in 1..Len(p) |-> z[p[k]]]
  <2>1. /\ p \in Seq(1..Len(z)) /\ p # <<>> /\ p[1] = 1 /\ p[Len(p)] = i
        /\ \A k \in 1..(Len(p) - 1) : Leads(from, p[k], p[k + 1])
        /\ \A k \in DOMAIN p : p[k] # e
    BY <1>2 DEF Misses, Path
  <2>2. Len(p) \in Nat \ {0} /\ DOMAIN p = 1..Len(p) /\ \A k \in 1..Len(p) : p[k] \in 1..Len(z)
    BY <2>1, EmptySeq, ElementOfSeq, LenProperties
  <2>3. \A k \in 1..Len(p) : q[k] = z[p[k]] /\ q[k] \in 1..n
    BY <1>1, <2>2
  <2>4. q \in Seq(1..n) /\ DOMAIN q = 1..Len(p)
    BY <2>2, <2>3
  <2>5. Len(q) = Len(p)
    BY <2>2, <2>4, LenProperties
  <2> HIDE DEF q
  <2>6. q[1] = 1 /\ q # <<>> /\ q[Len(q)] = z[i]
    <3>1. 1 \in 1..Len(p) /\ Len(p) \in 1..Len(p)
      BY <2>2
    <3>2. Len(<<>>) = 0
      BY EmptySeq
    <3> QED
      BY <1>1, <2>1, <2>2, <2>3, <2>5, <3>1, <3>2
  <2>7. \A k \in 1..(Len(q) - 1) : Leads(preds, q[k], q[k + 1])
    <3>1. \A k \in 1..(Len(p) - 1) : k \in 1..Len(p) /\ k + 1 \in 1..Len(p)
      BY <2>2
    <3> QED
      BY <1>1, <2>1, <2>2, <2>3, <2>5, <3>1
  <2>8. \A k \in DOMAIN q : q[k] # d
    BY <2>1, <2>2, <2>3, <2>4 DEF IsPlace
  <2>9. Misses(preds, n, d, z[i], q)
    BY <2>4, <2>6, <2>7, <2>8 DEF Misses, Path
  <2> QED
    BY <2>9
<1>3. ASSUME NEW q, Misses(preds, n, d, z[i], q)
      PROVE  \E p : Misses(from, Len(z), e, i, p)
  <2> DEFINE p == [k \in 1..Len(q) |-> CHOOSE j \in 1..Len(z) : z[j] = q[k]]
  <2>1. /\ q \in Seq(1..n) /\ q # <<>> /\ q[1] = 1 /\ q[Len(q)] = z[i] /\ Path(preds, q)
        /\ \A k \in 1..(Len(q) - 1) : Leads(preds, q[k], q[k + 1])
        /\ \A k \in DOMAIN q : q[k] # d
    BY <1>3 DEF Misses, Path
  <2>2. Len(q) \in Nat \ {0} /\ DOMAIN q = 1..Len(q) /\ \A k \in 1..Len(q) : Holds(z, q[k])
    BY <1>1, <2>1, EmptySeq, LenProperties, PathHeld
  <2>3. \A k \in 1..Len(q) : p[k] \in 1..Len(z) /\ z[p[k]] = q[k]
    BY <2>2 DEF Holds
  <2>4. p \in Seq(1..Len(z)) /\ DOMAIN p = 1..Len(q)
    BY <2>2, <2>3
  <2>5. Len(p) = Len(q)
    BY <2>2, <2>4, LenProperties
  <2> HIDE DEF p
  <2>6. p[1] = 1 /\ p # <<>> /\ p[Len(p)] = i
    <3>1. 1 \in 1..Len(q) /\ Len(q) \in 1..Len(q)
      BY <2>2
    <3>2. Len(<<>>) = 0
      BY EmptySeq
    <3>3. p[1] = 1
      BY <1>1, <2>1, <2>3, <3>1 DEF Once
    <3>4. p[Len(q)] \in 1..Len(z) /\ z[p[Len(q)]] = z[i]
      BY <2>1, <2>3, <3>1
    <3>5. p[Len(q)] = i
      BY <1>1, <3>4 DEF Once
    <3> QED
      BY <2>2, <2>5, <3>2, <3>3, <3>5
  <2>7. \A k \in 1..(Len(p) - 1) : Leads(from, p[k], p[k + 1])
    <3>1. \A k \in 1..(Len(q) - 1) : k \in 1..Len(q) /\ k + 1 \in 1..Len(q)
      BY <2>2
    <3> QED
      BY <1>1, <2>1, <2>3, <2>5, <3>1
  <2>8. \A k \in DOMAIN p : p[k] # e
    BY <2>1, <2>2, <2>3, <2>4 DEF IsPlace
  <2>9. Misses(from, Len(z), e, i, p)
    BY <2>4, <2>6, <2>7, <2>8 DEF Misses, Path
  <2> QED
    BY <2>9
<1> QED
  BY <1>2, <1>3

\* Each place of an order is at the end of a path.
LEMMA PlaceReached ==
  ASSUME NEW preds, NEW n, Graph(preds, n), Ordered(preds)
  PROVE  \A b \in 1..n : \E p : Misses(preds, n, 0, b, p)
<1> DEFINE S == {k \in Nat : \A b \in 1..n : b <= k => \E p : Misses(preds, n, 0, b, p)}
<1>1. n \in Nat \ {0} /\ Len(preds) = n
  BY DEF Graph
<1>2. 0 \in S
  OBVIOUS
<1>3. ASSUME NEW k \in Nat, k \in S PROVE k + 1 \in S
  <2> SUFFICES ASSUME NEW b \in 1..n, b <= k + 1 PROVE \E p : Misses(preds, n, 0, b, p)
    OBVIOUS
  <2>1. CASE b = 1
    <3> DEFINE p == <<1>>
    <3>1. p \in Seq(1..n) /\ p # <<>> /\ Len(p) = 1 /\ p[1] = 1 /\ DOMAIN p = 1..1
      BY <1>1
    <3> HIDE DEF p
    <3>2. 1..(Len(p) - 1) = {} /\ \A i \in DOMAIN p : p[i] # 0
      BY <3>1
    <3>3. Misses(preds, n, 0, 1, p)
      BY <3>1, <3>2 DEF Misses, Path
    <3> QED
      BY <2>1, <3>3
  <2>2. CASE b # 1
    <3>1. b \in 2..n
      BY <1>1, <2>2
    <3>2. PICK a \in 1..(b - 1) : Leads(preds, a, b)
      BY <1>1, <3>1 DEF Ordered
    <3>3. a \in 1..n /\ a <= k /\ b # 0
      BY <1>1, <3>1
    <3>4. PICK p : Misses(preds, n, 0, a, p)
      BY <1>3, <3>3
    <3>5. Misses(preds, n, 0, b, Append(p, b))
      BY <3>2, <3>3, <3>4, MissesOn
    <3> QED
      BY <3>5
  <2> QED
    BY <2>1, <2>2
<1> HIDE DEF S
<1>4. \A k \in Nat : k \in S
  BY <1>2, <1>3, NatSet
<1>5. \A b \in 1..n : b <= n
  BY <1>1
<1> QED
  BY <1>1, <1>4, <1>5 DEF S

\* dominates answers what the paths of the graph say, of every two blocks of
\* every graph: that no path from the entry to the one misses the other
\* (buildDominatorTree, dominates).
THEOREM DominatesExact ==
  ASSUME NEW succs, NEW preds, NEW n, Flow(succs, n), Mirrors(succs, preds, n),
         NEW d \in 1..n, NEW b \in 1..n
  PROVE  dominates(DominatorTree(succs, preds), d, b) <=> Dominates(preds, d, b)
<1> DEFINE tree == DominatorTree(succs, preds)
           z == tree.order
           from == tree.from
           i == tree.place[b]
           e == tree.place[d]
<1>1. /\ tree.idom = immediateDominators(from) /\ Carries(preds, n, z, from) /\ Ordered(from)
      /\ i \in 0..Len(z) /\ (i # 0 <=> Holds(z, b)) /\ IsPlace(z, b, i)
      /\ e \in 0..Len(z) /\ (e # 0 <=> Holds(z, d)) /\ IsPlace(z, d, e)
  BY TreeParts
<1>2. dominates(tree, d, b) <=> i = 0 \/ (e # 0 /\ Climbs(immediateDominators(from), i, e))
  BY <1>1 DEF dominates
<1> HIDE DEF tree, z, from, i, e
<1>3. /\ Graph(from, Len(z)) /\ Graph(preds, n) /\ n \in Nat
  BY <1>1 DEF Carries, Mirrors, Flow
<1>4. CASE i = 0
  <2>1. ASSUME NEW q, Misses(preds, n, d, b, q) PROVE FALSE
    <3>1. q \in Seq(1..n) /\ Path(preds, q) /\ q[Len(q)] = b /\ q # <<>>
      BY <2>1 DEF Misses, Path
    <3>2. Len(q) \in 1..Len(q)
      BY <3>1, EmptySeq
    <3>3. Holds(z, b)
      BY <1>1, <1>3, <3>1, <3>2, PathHeld
    <3> QED
      BY <1>1, <1>4, <3>3
  <2>2. Dominates(preds, d, b)
    BY <1>3, <2>1, MissesIs
  <2> QED
    BY <1>2, <1>4, <2>2 DEF tree
<1>5. CASE i # 0
  <2>1. i \in 1..Len(z) /\ z[i] = b /\ Len(z) \in Nat
    <3>1. Len(z) \in Nat
      BY <1>3 DEF Graph
    <3> QED
      BY <1>1, <1>5, <3>1 DEF IsPlace
  <2>2. (\E p : Misses(from, Len(z), e, i, p)) <=> (\E q : Misses(preds, n, d, b, q))
    <3>1. (\E p : Misses(from, Len(z), e, i, p)) <=> (\E q : Misses(preds, n, d, z[i], q))
      BY <1>1, <1>3, <2>1, MissesCarried
    <3> QED
      BY <2>1, <3>1
  <2>3. Dominates(from, e, i) <=> Dominates(preds, d, b)
    BY <1>3, <2>2, MissesIs
  <2>4. CASE e = 0
    <3>1. ~Dominates(from, e, i)
      BY <1>1, <1>3, <2>1, <2>4, PlaceReached, MissesIs
    <3> QED
      BY <1>2, <1>5, <2>3, <2>4, <3>1 DEF tree
  <2>5. CASE e # 0
    <3>1. e \in 1..Len(z)
      BY <1>1, <2>1, <2>5
    <3>2. Climbs(immediateDominators(from), i, e) <=> Dominates(from, e, i)
      BY <1>1, <1>3, <2>1, <3>1, DominatorTreeExact
    <3> QED
      BY <1>2, <1>5, <2>3, <2>5, <3>2 DEF tree
  <2> QED
    BY <2>4, <2>5
<1> QED
  BY <1>4, <1>5

-----------------------------------------------------------------------------
(* The copies of an edge. *)

\* The copies there can be over some cells and expressions.
CopiesOf(Cells, Exprs) == [dst : Cells, src : Exprs, reads : SUBSET Cells]

\* No spare is a phi.
Apart(copies, spare) == \A d \in Assigned(copies) : spare[d] \notin Assigned(copies)

\* An edge makes one copy for each phi.
OnePerPhi(pending) ==
  \A i, j \in DOMAIN pending : pending[i].dst = pending[j].dst => i = j

\* A source reads one cell at most.
ReadsOne(pending) ==
  \A i \in DOMAIN pending : \A c, d \in pending[i].reads : c = d

\* A copy that reads another phi either reads it as it is, and is of the same
\* rank, or is of a lower one: what is made of a value is part of it.
Plainly(pending, phis, rank) ==
  \A i \in DOMAIN pending : \A c \in pending[i].reads \cap phis :
    \/ pending[i].src = Get(c) /\ rank[pending[i].dst] <= rank[c]
    \/ rank[pending[i].dst] < rank[c]

Waitable(pending, copies, spare, rank) ==
  /\ pending \in Seq(Waits(copies, spare))
  /\ OnePerPhi(pending)
  /\ ReadsOne(pending)
  /\ Plainly(pending, Assigned(copies), rank)

\* A finite set that a function maps into itself, no two to the same member,
\* is all reached.
LEMMA AllReached ==
  ASSUME NEW S, IsFiniteSet(S), NEW f \in [S -> S],
         \A x, y \in S : f[x] = f[y] => x = y
  PROVE  \A y \in S : \E x \in S : f[x] = y
<1>1. f \in Injection(S, S)
  BY DEF Injection, IsInjective
<1>2. f \in Surjection(S, S)
  BY <1>1, FS_Injection
<1> QED
  BY <1>2 DEF Surjection

\* When no copy is ready, those that are read by none but each other each read
\* exactly the phi another of them assigns.
LEMMA CirclesOf ==
  ASSUME NEW T, NEW pending \in Seq(T), OnePerPhi(pending), ReadsOne(pending),
         Ready(pending) = {}, NEW B \in SUBSET DOMAIN pending,
         \A k \in B : \A m \in DOMAIN pending :
            pending[k].dst \in pending[m].reads => m \in B
  PROVE  \A m \in B : \E k \in B \ {m} : pending[m].reads = {pending[k].dst}
<1>1. \A k \in DOMAIN pending : \E m \in DOMAIN pending \ {k} : pending[k].dst \in pending[m].reads
  BY DEF Ready, phiCopyRead
<1> DEFINE f == [k \in B |-> CHOOSE m \in DOMAIN pending \ {k} : pending[k].dst \in pending[m].reads]
<1>2. \A k \in B : f[k] \in B \ {k} /\ pending[k].dst \in pending[f[k]].reads
  BY <1>1
<1>3. IsFiniteSet(B)
  <2>1. DOMAIN pending = 1..Len(pending) /\ Len(pending) \in Nat
    OBVIOUS
  <2>2. IsFiniteSet(DOMAIN pending)
    BY <2>1, FS_Interval
  <2> QED
    BY <2>2, FS_Subset
<1>4. f \in [B -> B]
  BY <1>2
<1> HIDE DEF f
<1>5. ASSUME NEW x \in B, NEW y \in B, f[x] = f[y] PROVE x = y
  <2>1. pending[x].dst \in pending[f[x]].reads /\ pending[y].dst \in pending[f[x]].reads
    BY <1>2, <1>5
  <2>2. f[x] \in DOMAIN pending /\ x \in DOMAIN pending /\ y \in DOMAIN pending
    BY <1>2
  <2>3. pending[x].dst = pending[y].dst
    BY <2>1, <2>2 DEF ReadsOne
  <2> QED
    BY <2>2, <2>3 DEF OnePerPhi
<1>6. \A m \in B : \E k \in B : f[k] = m
  BY <1>3, <1>4, <1>5, AllReached
<1> SUFFICES ASSUME NEW m \in B PROVE \E k \in B \ {m} : pending[m].reads = {pending[k].dst}
  OBVIOUS
<1>7. PICK k \in B : f[k] = m
  BY <1>6
<1>8. m # k /\ pending[k].dst \in pending[m].reads
  BY <1>2, <1>7
<1>9. \A c, d \in pending[m].reads : c = d
  BY DEF ReadsOne
<1>10. pending[m].reads = {pending[k].dst}
  BY <1>8, <1>9
<1> QED
  BY <1>8, <1>10

\* When no copy is ready, each is a plain read of the phi another assigns.
LEMMA CirclesPlain ==
  ASSUME NEW T, NEW pending \in Seq(T), OnePerPhi(pending), ReadsOne(pending),
         Ready(pending) = {}, NEW phis, NEW rank \in [phis -> Nat],
         \A k \in DOMAIN pending : pending[k].dst \in phis, Plainly(pending, phis, rank)
  PROVE  \A m \in DOMAIN pending : \E k \in DOMAIN pending \ {m} :
            pending[m].reads = {pending[k].dst} /\ pending[m].src = Get(pending[k].dst)
<1>1. \A m \in DOMAIN pending : \E k \in DOMAIN pending \ {m} : pending[m].reads = {pending[k].dst}
  BY CirclesOf
<1> SUFFICES ASSUME NEW m \in DOMAIN pending
             PROVE  \E k \in DOMAIN pending \ {m} :
                      pending[m].reads = {pending[k].dst} /\ pending[m].src = Get(pending[k].dst)
  OBVIOUS
<1>2. PICK k \in DOMAIN pending \ {m} : pending[m].reads = {pending[k].dst}
  BY <1>1
<1>3. CASE pending[m].src = Get(pending[k].dst)
  BY <1>2, <1>3
<1>4. CASE pending[m].src # Get(pending[k].dst)
  <2> DEFINE B == {i \in DOMAIN pending : rank[pending[i].dst] < rank[pending[k].dst]}
  <2>1. m \in B
    BY <1>2, <1>4 DEF Plainly
  <2>2. ASSUME NEW i \in B, NEW j \in DOMAIN pending, pending[i].dst \in pending[j].reads
        PROVE  j \in B
    <3>1. pending[i].dst \in pending[j].reads \cap phis
      BY <2>2
    <3>2. rank[pending[j].dst] <= rank[pending[i].dst] \/ rank[pending[j].dst] < rank[pending[i].dst]
      BY <3>1 DEF Plainly
    <3>3. rank[pending[j].dst] \in Nat /\ rank[pending[i].dst] \in Nat /\ rank[pending[k].dst] \in Nat
      OBVIOUS
    <3> QED
      BY <3>2, <3>3
  <2>3. B \in SUBSET DOMAIN pending
    OBVIOUS
  <2> HIDE DEF B
  <2>4. \A x \in B : \E i \in B \ {x} : pending[x].reads = {pending[i].dst}
    BY <2>2, <2>3, CirclesOf
  <2>5. PICK i \in B : pending[m].reads = {pending[i].dst}
    BY <2>1, <2>4
  <2>6. pending[i].dst = pending[k].dst
    BY <1>2, <2>5
  <2>7. rank[pending[i].dst] < rank[pending[k].dst] /\ rank[pending[k].dst] \in Nat
    BY DEF B
  <2> QED
    BY <2>6, <2>7
<1> QED
  BY <1>3, <1>4

\* The first of the copies that are ready is one.
LEMMA FirstIs ==
  ASSUME NEW T, NEW pending \in Seq(T), Ready(pending) # {}
  PROVE  /\ FirstReady(pending) \in DOMAIN pending
         /\ ~phiCopyRead(pending, FirstReady(pending))
<1>1. Ready(pending) \subseteq Nat
  BY DEF Ready
<1>2. \E k \in Ready(pending) : \A j \in Ready(pending) : k <= j
  BY <1>1, Least
<1>3. FirstReady(pending) \in Ready(pending)
  BY <1>2 DEF FirstReady
<1> QED
  BY <1>3 DEF Ready

\* Writing a copy takes it off those that wait.
LEMMA MadeBy ==
  ASSUME NEW T, NEW pending \in Seq(T), NEW spare, Ready(pending) # {}
  PROVE  /\ FirstReady(pending) \in Nat
         /\ 1 <= FirstReady(pending)
         /\ FirstReady(pending) <= Len(pending)
         /\ Len(pending) \in Nat
         /\ DOMAIN pending = 1..Len(pending)
         /\ Waiting(pending, spare) =
              [i \in 1..(Len(pending) - 1) |->
                 IF i < FirstReady(pending) THEN pending[i] ELSE pending[i + 1]]
<1>1. FirstReady(pending) \in DOMAIN pending
  BY FirstIs
<1>2. pending # <<>>
  BY <1>1
<1> QED
  BY <1>1, <1>2 DEF Waiting

\* What still waits waited.
LEMMA MadeIs ==
  ASSUME NEW T, NEW pending \in Seq(T), NEW spare, Ready(pending) # {}
  PROVE  /\ FirstReady(pending) \in Nat
         /\ Waiting(pending, spare) \in Seq(T)
         /\ Len(Waiting(pending, spare)) = Len(pending) - 1
         /\ \A i \in DOMAIN Waiting(pending, spare) :
               \E j \in DOMAIN pending \ {FirstReady(pending)} :
                 /\ Waiting(pending, spare)[i] = pending[j]
                 /\ j = IF i < FirstReady(pending) THEN i ELSE i + 1
<1> DEFINE k == FirstReady(pending)
           w == Waiting(pending, spare)
<1>1. k \in DOMAIN pending /\ k \in Nat /\ 1 <= k /\ k <= Len(pending) /\ Len(pending) \in Nat
  BY MadeBy
<1>2. w = [i \in 1..(Len(pending) - 1) |-> IF i < k THEN pending[i] ELSE pending[i + 1]]
  BY MadeBy
<1> HIDE DEF k, w
<1>3. \A i \in 1..(Len(pending) - 1) :
        /\ i < k => i \in DOMAIN pending \ {k}
        /\ ~(i < k) => i + 1 \in DOMAIN pending \ {k}
  BY <1>1
<1>4. \A i \in 1..(Len(pending) - 1) : w[i] = IF i < k THEN pending[i] ELSE pending[i + 1]
  BY <1>2
<1>5. \A i \in 1..(Len(pending) - 1) : w[i] \in T
  BY <1>3, <1>4
<1>6. w \in Seq(T) /\ Len(w) = Len(pending) - 1 /\ DOMAIN w = 1..(Len(pending) - 1)
  <2>1. Len(pending) - 1 \in Nat
    BY <1>1
  <2>2. w \in [1..(Len(pending) - 1) -> T]
    BY <1>2, <1>5
  <2> QED
    BY <2>1, <2>2
<1>7. \A i \in DOMAIN w : \E j \in DOMAIN pending \ {k} :
        w[i] = pending[j] /\ j = IF i < k THEN i ELSE i + 1
  BY <1>3, <1>4, <1>6
<1> QED
  BY <1>1, <1>6, <1>7 DEF k, w

\* All but the copy made still wait.
LEMMA MadeLeaves ==
  ASSUME NEW T, NEW pending \in Seq(T), NEW spare, Ready(pending) # {},
         NEW j \in DOMAIN pending, j # FirstReady(pending)
  PROVE  \E i \in DOMAIN Waiting(pending, spare) : Waiting(pending, spare)[i] = pending[j]
<1> DEFINE k == FirstReady(pending)
           w == Waiting(pending, spare)
           n == Len(pending)
<1>1. k \in Nat /\ 1 <= k /\ k <= n /\ n \in Nat /\ DOMAIN pending = 1..n
  BY MadeBy
<1>2. w = [i \in 1..(n - 1) |-> IF i < k THEN pending[i] ELSE pending[i + 1]]
  BY MadeBy
<1>3. j \in Nat /\ 1 <= j /\ j <= n /\ j # k
  BY <1>1
<1> HIDE DEF k, w, n
<1>4. CASE j < k
  <2>1. j \in 1..(n - 1)
    BY <1>1, <1>3, <1>4
  <2> QED
    BY <1>2, <1>4, <2>1 DEF w
<1>5. CASE ~(j < k)
  <2>1. j - 1 \in 1..(n - 1) /\ ~(j - 1 < k) /\ (j - 1) + 1 = j
    BY <1>1, <1>3, <1>5
  <2> QED
    BY <1>2, <2>1 DEF w
<1> QED
  BY <1>4, <1>5

\* Parking a value redirects what reads it, and no copy is made.
LEMMA ParkedIs ==
  ASSUME NEW T, NEW pending \in Seq(T), NEW spare, pending # <<>>, Ready(pending) = {}
  PROVE  /\ Waiting(pending, spare) =
              [i \in 1..Len(pending) |->
                 Redirected(pending[i], pending[1].dst, spare[pending[1].dst])]
         /\ DOMAIN pending = 1..Len(pending) /\ Len(pending) \in Nat /\ 1 \in DOMAIN pending
BY DEF Waiting

\* What waits stays what may wait.
LEMMA WaitingKeeps ==
  ASSUME NEW Cells, NEW Exprs, NEW copies \in Seq(CopiesOf(Cells, Exprs)),
         NEW spare, Apart(copies, spare),
         NEW rank, NEW pending, Waitable(pending, copies, spare, rank)
  PROVE  Waitable(Waiting(pending, spare), copies, spare, rank)
<1> DEFINE W == Waits(copies, spare)
           D == Assigned(copies)
           w == Waiting(pending, spare)
<1>1. pending \in Seq(W) /\ OnePerPhi(pending) /\ ReadsOne(pending) /\ Plainly(pending, D, rank)
  BY DEF Waitable
<1>2. CASE pending = <<>>
  <2>1. w = pending
    BY <1>2 DEF Waiting
  <2> QED
    BY <2>1
<1>3. CASE Ready(pending) # {}
  <2> DEFINE k == FirstReady(pending)
  <2>1. /\ w \in Seq(W)
        /\ \A i \in DOMAIN w : \E j \in DOMAIN pending \ {k} :
              w[i] = pending[j] /\ j = IF i < k THEN i ELSE i + 1
        /\ k \in Nat
    BY <1>1, <1>3, MadeIs
  <2> HIDE DEF k, w
  <2>2. OnePerPhi(w)
    <3> SUFFICES ASSUME NEW i \in DOMAIN w, NEW j \in DOMAIN w, w[i].dst = w[j].dst PROVE i = j
      BY DEF OnePerPhi
    <3>1. PICK a \in DOMAIN pending \ {k} : w[i] = pending[a] /\ a = IF i < k THEN i ELSE i + 1
      BY <2>1
    <3>2. PICK b \in DOMAIN pending \ {k} : w[j] = pending[b] /\ b = IF j < k THEN j ELSE j + 1
      BY <2>1
    <3>3. a = b
      BY <1>1, <3>1, <3>2 DEF OnePerPhi
    <3>4. i \in Nat /\ j \in Nat
      BY <2>1
    <3> QED
      BY <2>1, <3>1, <3>2, <3>3, <3>4
  <2>3. ReadsOne(w)
    BY <1>1, <2>1 DEF ReadsOne
  <2>4. Plainly(w, D, rank)
    BY <1>1, <2>1 DEF Plainly
  <2> QED
    BY <2>1, <2>2, <2>3, <2>4 DEF Waitable, w
<1>4. CASE pending # <<>> /\ Ready(pending) = {}
  <2> DEFINE p == pending[1].dst
             to == spare[p]
  <2>1. /\ w = [i \in 1..Len(pending) |-> Redirected(pending[i], p, to)]
        /\ DOMAIN pending = 1..Len(pending) /\ Len(pending) \in Nat /\ 1 \in DOMAIN pending
    BY <1>1, <1>4, ParkedIs
  <2>2. \A i \in DOMAIN pending : pending[i] \in W
    BY <1>1
  <2>3. p \in D
    BY <2>1, <2>2 DEF Waits
  <2>4. to \notin D
    BY <2>3 DEF Apart
  <2>5. DOMAIN w = DOMAIN pending /\ \A i \in DOMAIN w :
          \/ w[i] = pending[i]
          \/ /\ w[i] = [dst |-> pending[i].dst, src |-> Get(to), reads |-> {to}]
    BY <2>1 DEF Redirected
  <2>6. \A i \in DOMAIN w : w[i] \in W
    <3>1. \A i \in DOMAIN pending : [dst |-> pending[i].dst, src |-> Get(to), reads |-> {to}] \in W
      BY <2>2, <2>3 DEF Waits
    <3> QED
      BY <2>2, <2>5, <3>1
  <2>7. w \in Seq(W)
    BY <2>1, <2>5, <2>6
  <2> HIDE DEF w, p, to
  <2>8. \A i \in DOMAIN w : w[i].dst = pending[i].dst
    BY <2>5
  <2>9. OnePerPhi(w)
    BY <1>1, <2>5, <2>8 DEF OnePerPhi
  <2>10. ReadsOne(w)
    BY <1>1, <2>5 DEF ReadsOne
  <2>11. Plainly(w, D, rank)
    <3> SUFFICES ASSUME NEW i \in DOMAIN w, NEW c \in w[i].reads \cap D
                 PROVE  \/ w[i].src = Get(c) /\ rank[w[i].dst] <= rank[c]
                        \/ rank[w[i].dst] < rank[c]
      BY DEF Plainly
    <3>1. w[i] = pending[i]
      BY <2>4, <2>5
    <3> QED
      BY <1>1, <2>5, <3>1 DEF Plainly
  <2> QED
    BY <2>7, <2>9, <2>10, <2>11 DEF Waitable, w
<1> QED
  BY <1>2, <1>3, <1>4

\* How many turns the copies may still take: two for each, or one less when a
\* copy is ready.
Left(pending) == 2 * Len(pending) - (IF Ready(pending) = {} THEN 0 ELSE 1)

\* A turn makes a copy, or parks a value after which a copy is ready.
LEMMA TurnLeft ==
  ASSUME NEW copies, NEW spare, Apart(copies, spare),
         NEW rank \in [Assigned(copies) -> Nat],
         NEW pending, Waitable(pending, copies, spare, rank), pending # <<>>
  PROVE  Left(Waiting(pending, spare)) < Left(pending)
<1> DEFINE W == Waits(copies, spare)
           D == Assigned(copies)
           w == Waiting(pending, spare)
<1>1. pending \in Seq(W) /\ OnePerPhi(pending) /\ ReadsOne(pending) /\ Plainly(pending, D, rank)
  BY DEF Waitable
<1>2. \A i \in DOMAIN pending : pending[i] \in W /\ pending[i].dst \in D
  <2>1. \A i \in DOMAIN pending : pending[i] \in W
    <3> HIDE DEF W
    <3> QED
      BY <1>1
  <2> QED
    BY <2>1 DEF Waits
<1>3. CASE Ready(pending) # {}
  <2>1. Len(w) = Len(pending) - 1 /\ Len(pending) \in Nat
    BY <1>1, <1>3, MadeIs
  <2> HIDE DEF w
  <2>2. Left(w) <= 2 * (Len(pending) - 1) /\ Left(pending) = 2 * Len(pending) - 1
    BY <1>3, <2>1 DEF Left
  <2>3. Left(w) \in Int
    BY <2>1 DEF Left
  <2> QED
    BY <2>1, <2>2, <2>3 DEF w
<1>4. CASE Ready(pending) = {}
  <2> DEFINE p == pending[1].dst
             to == spare[p]
  <2>1. /\ w = [i \in 1..Len(pending) |-> Redirected(pending[i], p, to)]
        /\ DOMAIN pending = 1..Len(pending) /\ Len(pending) \in Nat /\ 1 \in DOMAIN pending
    BY <1>1, <1>4, ParkedIs
  <2>2. p \in D /\ to \notin D
    BY <1>2, <2>1 DEF Apart
  <2>3. \A m \in DOMAIN pending : \E k \in DOMAIN pending \ {m} :
          pending[m].reads = {pending[k].dst} /\ pending[m].src = Get(pending[k].dst)
    BY <1>1, <1>2, <1>4, CirclesPlain
  <2>4. DOMAIN w = DOMAIN pending /\ Len(w) = Len(pending)
    BY <2>1
  <2>5. \A i \in DOMAIN w : w[i] = Redirected(pending[i], p, to)
    BY <2>1
  <2>6. w[1].dst = p
    BY <2>1, <2>5 DEF Redirected
  <2> HIDE DEF w, p, to
  <2>7. ASSUME NEW m \in DOMAIN w PROVE p \notin w[m].reads
    <3>1. PICK k \in DOMAIN pending \ {m} :
            pending[m].reads = {pending[k].dst} /\ pending[m].src = Get(pending[k].dst)
      BY <2>3, <2>4
    <3>2. CASE pending[k].dst = p
      <4>1. w[m].reads = {to}
        BY <2>5, <3>1, <3>2 DEF Redirected
      <4> QED
        BY <2>2, <4>1
    <3>3. CASE pending[k].dst # p
      <4>1. pending[m].src # Get(p)
        BY <3>1, <3>3 DEF Get
      <4>2. w[m].reads = pending[m].reads
        BY <2>5, <4>1 DEF Redirected
      <4> QED
        BY <3>1, <3>3, <4>2
    <3> QED
      BY <3>2, <3>3
  <2>8. 1 \in Ready(w)
    BY <2>1, <2>4, <2>6, <2>7 DEF Ready, phiCopyRead
  <2>9. Left(w) = 2 * Len(pending) - 1 /\ Left(pending) = 2 * Len(pending)
    BY <1>4, <2>1, <2>4, <2>8 DEF Left
  <2> QED
    BY <2>1, <2>9 DEF w
<1> QED
  BY <1>3, <1>4

\* What the edge makes can wait, and its turns are the loop's.
LEMMA PendingIs ==
  ASSUME NEW Cells, NEW Exprs, NEW copies \in Seq(CopiesOf(Cells, Exprs)),
         NEW spare, Apart(copies, spare),
         NEW rank, OnePerPhi(copies), ReadsOne(copies), Plainly(copies, Assigned(copies), rank)
  PROVE  /\ Pending(copies, spare, 0) = copies
         /\ \A t \in Nat : Waitable(Pending(copies, spare, t), copies, spare, rank)
         /\ \A t \in Nat : Pending(copies, spare, t + 1) = Waiting(Pending(copies, spare, t), spare)
<1> DEFINE W == Waits(copies, spare)
           turn == [s \in Nat \X Seq(W) |-> Waiting(s[2], spare)]
           at(t) == Loop(turn, copies, t)
           S == {t \in Nat : Waitable(at(t), copies, spare, rank)}
<1>1. at(0) = copies /\ \A t \in Nat : at(t + 1) = turn[<<t + 1, at(t)>>]
  BY LoopIs
<1>2. \A t \in Nat : Pending(copies, spare, t) = at(t)
  BY DEF Pending
<1>3. Waitable(copies, copies, spare, rank)
  <2>1. \A k \in DOMAIN copies : copies[k] \in W
    <3> SUFFICES ASSUME NEW k \in DOMAIN copies PROVE copies[k] \in W
      OBVIOUS
    <3>1. copies[k] \in [dst : Cells, src : Exprs, reads : SUBSET Cells]
      <4> DEFINE R == CopiesOf(Cells, Exprs)
      <4>1. copies \in Seq(R) /\ k \in DOMAIN copies
        OBVIOUS
      <4> HIDE DEF R
      <4>2. copies[k] \in R
        BY <4>1
      <4> QED
        BY <4>2 DEF R, CopiesOf
    <3>2. copies[k] = [dst |-> copies[k].dst, src |-> copies[k].src, reads |-> copies[k].reads]
      BY <3>1
    <3>3. copies[k].dst \in Assigned(copies)
      BY DEF Assigned
    <3> QED
      BY <3>2, <3>3 DEF Waits
  <2>2. copies \in Seq(W)
    BY <2>1
  <2> QED
    BY <2>2 DEF Waitable
<1>4. ASSUME NEW t \in Nat, Waitable(at(t), copies, spare, rank)
      PROVE  at(t + 1) = Waiting(at(t), spare)
  <2>1. at(t) \in Seq(W)
    BY <1>4 DEF Waitable
  <2>2. <<t + 1, at(t)>> \in Nat \X Seq(W)
    BY <2>1
  <2>3. turn[<<t + 1, at(t)>>] = Waiting(at(t), spare)
    BY <2>2
  <2> QED
    BY <1>1, <2>3
<1> HIDE DEF at, turn
<1>5. 0 \in S
  BY <1>1, <1>3
<1>6. ASSUME NEW t \in Nat, t \in S PROVE t + 1 \in S
  <2>1. Waitable(at(t), copies, spare, rank)
    BY <1>6
  <2>2. Waitable(Waiting(at(t), spare), copies, spare, rank)
    BY <2>1, WaitingKeeps
  <2> QED
    BY <1>4, <2>1, <2>2
<1>7. \A t \in Nat : t \in S
  <2> HIDE DEF S
  <2> QED
    BY <1>5, <1>6, NatSet
<1> QED
  BY <1>1, <1>2, <1>4, <1>7

\* An edge as it can be: cells, expressions and states of the cells; a value
\* for each expression in each state, which depends on what the expression
\* reads, a plain read's being the cell's; and the copies, with their spares.
Edge(Cells, Exprs, Vals, ev, copies, spare, rank) ==
  /\ copies \in Seq(CopiesOf(Cells, Exprs))
  /\ spare \in [Assigned(copies) -> Cells \ Assigned(copies)]
  /\ rank \in [Assigned(copies) -> Nat]
  /\ OnePerPhi(copies) /\ ReadsOne(copies) /\ Plainly(copies, Assigned(copies), rank)
  /\ \A c \in Cells : \A v \in [Cells -> Vals] : ev[<<Get(c), v>>] = v[c]
  /\ \A k \in DOMAIN copies : \A v, w \in [Cells -> Vals] :
        /\ ev[<<copies[k].src, v>>] \in Vals
        /\ (\A c \in copies[k].reads : v[c] = w[c]) =>
              ev[<<copies[k].src, v>>] = ev[<<copies[k].src, w>>]

\* All copies are made within two turns each.
LEMMA CopiesEnd ==
  ASSUME NEW Cells, NEW Exprs, NEW Vals, NEW ev, NEW copies, NEW spare, NEW rank,
         Edge(Cells, Exprs, Vals, ev, copies, spare, rank)
  PROVE  Pending(copies, spare, PhiTurns(copies)) = <<>>
<1> DEFINE at(t) == Pending(copies, spare, t)
           n == PhiTurns(copies)
           S == {t \in Nat : at(t) = <<>> \/ Left(at(t)) <= n - t}
<1>1. /\ at(0) = copies
      /\ \A t \in Nat : Waitable(at(t), copies, spare, rank) /\ at(t + 1) = Waiting(at(t), spare)
  <2>1. /\ copies \in Seq(CopiesOf(Cells, Exprs))
        /\ Apart(copies, spare)
        /\ OnePerPhi(copies) /\ ReadsOne(copies) /\ Plainly(copies, Assigned(copies), rank)
    BY DEF Edge, Apart
  <2>2. /\ Pending(copies, spare, 0) = copies
        /\ \A t \in Nat : Waitable(Pending(copies, spare, t), copies, spare, rank)
        /\ \A t \in Nat : Pending(copies, spare, t + 1) = Waiting(Pending(copies, spare, t), spare)
    BY <2>1, PendingIs
  <2> QED
    BY <2>2
<1>2. Apart(copies, spare)
  BY DEF Edge, Apart
<1>3. rank \in [Assigned(copies) -> Nat]
  BY DEF Edge, Apart
<1>4. Len(copies) \in Nat /\ n \in Nat /\ n = 2 * Len(copies)
  BY DEF Edge, PhiTurns
<1>5. \A t \in Nat : at(t) \in Seq(Waits(copies, spare))
  BY <1>1 DEF Waitable
<1> HIDE DEF at, n
<1>6. \A t \in Nat : Left(at(t)) \in Int /\ Len(at(t)) \in Nat
  BY <1>5 DEF Left
<1>7. 0 \in S
  BY <1>1, <1>4 DEF Left
<1>8. ASSUME NEW t \in Nat, t \in S PROVE t + 1 \in S
  <2>1. CASE at(t) = <<>>
    <3>1. at(t + 1) = <<>>
      BY <1>1, <2>1 DEF Waiting
    <3> QED
      BY <3>1
  <2>2. CASE at(t) # <<>>
    <3>1. Left(at(t + 1)) < Left(at(t))
      BY <1>1, <1>2, <1>3, <2>2, TurnLeft
    <3>2. Left(at(t)) <= n - t
      BY <1>8, <2>2
    <3>3. Left(at(t + 1)) \in Int /\ Left(at(t)) \in Int
      BY <1>6
    <3>4. Left(at(t + 1)) <= n - (t + 1)
      BY <1>4, <3>1, <3>2, <3>3
    <3> QED
      BY <3>4
  <2> QED
    BY <2>1, <2>2
<1>9. n \in S
  <2> HIDE DEF S
  <2> QED
    BY <1>4, <1>7, <1>8, NatSet
<1>10. Len(at(n)) \in Nat /\ Left(at(n)) \in Int /\ at(n) \in Seq(Waits(copies, spare))
  BY <1>4, <1>5, <1>6
<1>11. CASE Left(at(n)) <= 0
  <2>1. Len(at(n)) = 0
    BY <1>10, <1>11 DEF Left
  <2>2. at(n) = <<>>
    BY <1>10, <2>1
  <2> QED
    BY <2>2 DEF at, n
<1>12. at(n) = <<>> \/ Left(at(n)) <= n - n
  BY <1>9
<1>13. n - n = 0
  BY <1>4
<1> QED
  BY <1>11, <1>12, <1>13 DEF at, n

\* A copy that waits is one of the edge's, or reads a parked value.
Stems(pending, copies, spare) ==
  \A i \in DOMAIN pending :
    \/ \E k \in DOMAIN copies : pending[i] = copies[k]
    \/ \E d \in Assigned(copies) : pending[i].src = Get(spare[d]) /\ pending[i].reads = {spare[d]}

\* A turn leaves it so.
LEMMA StemsKeep ==
  ASSUME NEW copies, NEW spare, NEW T, NEW pending \in Seq(T),
         \A i \in DOMAIN pending : pending[i].dst \in Assigned(copies),
         Stems(pending, copies, spare)
  PROVE  Stems(Waiting(pending, spare), copies, spare)
<1> DEFINE w == Waiting(pending, spare)
<1>1. CASE pending = <<>>
  <2>1. w = pending
    BY <1>1 DEF Waiting
  <2> QED
    BY <2>1
<1>2. CASE Ready(pending) # {}
  <2>1. \A i \in DOMAIN w : \E j \in DOMAIN pending : w[i] = pending[j]
    <3>1. \A i \in DOMAIN w : \E j \in DOMAIN pending \ {FirstReady(pending)} :
            w[i] = pending[j] /\ j = IF i < FirstReady(pending) THEN i ELSE i + 1
      BY <1>2, MadeIs
    <3> QED
      BY <3>1
  <2> HIDE DEF w
  <2> QED
    BY <2>1 DEF Stems, w
<1>3. CASE pending # <<>> /\ Ready(pending) = {}
  <2> DEFINE p == pending[1].dst
             to == spare[p]
  <2>1. /\ w = [i \in 1..Len(pending) |-> Redirected(pending[i], p, to)]
        /\ DOMAIN pending = 1..Len(pending) /\ 1 \in DOMAIN pending
    BY <1>3, ParkedIs
  <2>2. p \in Assigned(copies)
    BY <2>1
  <2>3. DOMAIN w = DOMAIN pending
    BY <2>1
  <2>4. \A i \in DOMAIN w : w[i] = pending[i] \/ (w[i].src = Get(to) /\ w[i].reads = {to})
    <3>1. \A i \in DOMAIN w : w[i] = Redirected(pending[i], p, to)
      BY <2>1
    <3> HIDE DEF w, p, to
    <3> QED
      BY <3>1 DEF Redirected
  <2> HIDE DEF w, p
  <2> QED
    BY <2>2, <2>3, <2>4 DEF Stems, w
<1> QED
  BY <1>1, <1>2, <1>3

\* What a copy that waits says depends on what it reads alone.
LEMMA ReadsDecide ==
  ASSUME NEW Cells, NEW Exprs, NEW Vals, NEW ev, NEW copies, NEW spare, NEW rank,
         Edge(Cells, Exprs, Vals, ev, copies, spare, rank),
         NEW pending, Stems(pending, copies, spare), NEW i \in DOMAIN pending,
         NEW v \in [Cells -> Vals], NEW w \in [Cells -> Vals],
         \A c \in pending[i].reads : v[c] = w[c]
  PROVE  /\ ev[<<pending[i].src, v>>] \in Vals
         /\ ev[<<pending[i].src, v>>] = ev[<<pending[i].src, w>>]
<1>1. CASE \E k \in DOMAIN copies : pending[i] = copies[k]
  <2>1. PICK k \in DOMAIN copies : pending[i] = copies[k]
    BY <1>1
  <2>2. \A f, g \in [Cells -> Vals] :
          /\ ev[<<copies[k].src, f>>] \in Vals
          /\ (\A c \in copies[k].reads : f[c] = g[c]) =>
                ev[<<copies[k].src, f>>] = ev[<<copies[k].src, g>>]
    BY DEF Edge
  <2> QED
    BY <2>1, <2>2
<1>2. CASE \E d \in Assigned(copies) : pending[i].src = Get(spare[d]) /\ pending[i].reads = {spare[d]}
  <2>1. PICK d \in Assigned(copies) : pending[i].src = Get(spare[d]) /\ pending[i].reads = {spare[d]}
    BY <1>2
  <2>2. spare[d] \in Cells
    BY DEF Edge
  <2>3. ev[<<Get(spare[d]), v>>] = v[spare[d]] /\ ev[<<Get(spare[d]), w>>] = w[spare[d]]
    BY <2>2 DEF Edge
  <2> QED
    BY <2>1, <2>2, <2>3
<1> QED
  BY <1>1, <1>2 DEF Stems

\* The copies so far: each of the edge's either waits, and says now what it said
\* on the edge, or is made; and nothing else but a spare has changed.
Underway(Cells, Vals, ev, copies, spare, pending, state, v) ==
  /\ v \in [Cells -> Vals]
  /\ Stems(pending, copies, spare)
  /\ \A k \in DOMAIN copies : \A i \in DOMAIN pending :
       pending[i].dst = copies[k].dst => ev[<<pending[i].src, v>>] = ev[<<copies[k].src, state>>]
  /\ \A k \in DOMAIN copies :
       \/ \E i \in DOMAIN pending : pending[i].dst = copies[k].dst
       \/ v[copies[k].dst] = ev[<<copies[k].src, state>>]
  /\ \A c \in Cells \ (Assigned(copies) \cup {spare[d] : d \in Assigned(copies)}) : v[c] = state[c]

\* Making a copy that is ready changes nothing that another reads.
LEMMA MadeKeeps ==
  ASSUME NEW Cells, NEW Exprs, NEW Vals, NEW ev, NEW copies, NEW spare, NEW rank,
         Edge(Cells, Exprs, Vals, ev, copies, spare, rank),
         NEW pending, Waitable(pending, copies, spare, rank), Ready(pending) # {},
         NEW state, NEW v, Underway(Cells, Vals, ev, copies, spare, pending, state, v)
  PROVE  LET move == Move(pending, spare) IN
         Underway(Cells, Vals, ev, copies, spare, Waiting(pending, spare), state,
               [v EXCEPT ![move.dst] = ev[<<move.src, v>>]])
<1> DEFINE k == FirstReady(pending)
           D == Assigned(copies)
           w == Waiting(pending, spare)
           u == [v EXCEPT ![pending[k].dst] = ev[<<pending[k].src, v>>]]
<1>1. /\ pending \in Seq(Waits(copies, spare)) /\ OnePerPhi(pending)
  BY DEF Waitable
<1>2. k \in DOMAIN pending /\ ~phiCopyRead(pending, k)
  BY <1>1, FirstIs
<1>3. \A i \in DOMAIN pending : pending[i].dst \in D
  <2>1. \A i \in DOMAIN pending : pending[i] \in Waits(copies, spare)
    BY <1>1
  <2> QED
    BY <2>1 DEF Waits
<1>4. D \subseteq Cells
  <2>1. \A j \in DOMAIN copies : copies[j] \in CopiesOf(Cells, Exprs)
    <3>1. copies \in Seq(CopiesOf(Cells, Exprs))
      BY DEF Edge
    <3> QED
      BY <3>1
  <2> QED
    BY <2>1 DEF Assigned, CopiesOf
<1>5. /\ \A i \in DOMAIN w : \E j \in DOMAIN pending \ {k} : w[i] = pending[j]
      /\ \A j \in DOMAIN pending \ {k} : \E i \in DOMAIN w : w[i] = pending[j]
  <2>1. \A i \in DOMAIN w : \E j \in DOMAIN pending \ {k} :
          w[i] = pending[j] /\ j = IF i < k THEN i ELSE i + 1
    BY <1>1, MadeIs
  <2>2. \A j \in DOMAIN pending \ {k} : \E i \in DOMAIN w : w[i] = pending[j]
    BY <1>1, MadeLeaves
  <2> QED
    BY <2>1, <2>2
<1>6. Move(pending, spare).dst = pending[k].dst /\ Move(pending, spare).src = pending[k].src
  BY DEF Move
<1>7. /\ v \in [Cells -> Vals] /\ Stems(pending, copies, spare)
      /\ \A m \in DOMAIN copies : \A i \in DOMAIN pending :
           pending[i].dst = copies[m].dst => ev[<<pending[i].src, v>>] = ev[<<copies[m].src, state>>]
      /\ \A m \in DOMAIN copies :
           \/ \E i \in DOMAIN pending : pending[i].dst = copies[m].dst
           \/ v[copies[m].dst] = ev[<<copies[m].src, state>>]
      /\ \A c \in Cells \ (D \cup {spare[d] : d \in D}) : v[c] = state[c]
  BY DEF Underway
<1>8. Stems(w, copies, spare)
  BY <1>1, <1>3, <1>7, StemsKeep
<1>9. ev[<<pending[k].src, v>>] \in Vals
  BY <1>2, <1>7, ReadsDecide
<1> HIDE DEF k, w, D
<1>10. u \in [Cells -> Vals] /\ \A c \in Cells : c # pending[k].dst => u[c] = v[c]
  BY <1>7, <1>9
<1>11. u[pending[k].dst] = ev[<<pending[k].src, v>>]
  BY <1>2, <1>3, <1>4, <1>7
<1> HIDE DEF u
<1>12. \A j \in DOMAIN pending \ {k} : ev[<<pending[j].src, u>>] = ev[<<pending[j].src, v>>]
  <2> SUFFICES ASSUME NEW j \in DOMAIN pending \ {k}
               PROVE  ev[<<pending[j].src, u>>] = ev[<<pending[j].src, v>>]
    OBVIOUS
  <2>1. pending[k].dst \notin pending[j].reads
    BY <1>2 DEF phiCopyRead
  <2>2. pending[j].reads \subseteq Cells
    <3>1. \A d \in Assigned(copies) : spare[d] \in Cells
      BY DEF Edge
    <3>2. \A m \in DOMAIN copies : copies[m].reads \subseteq Cells
      <4>1. copies \in Seq(CopiesOf(Cells, Exprs))
        BY DEF Edge
      <4>2. \A m \in DOMAIN copies : copies[m] \in CopiesOf(Cells, Exprs)
        BY <4>1
      <4> QED
        BY <4>2 DEF CopiesOf
    <3> QED
      BY <1>7, <3>1, <3>2 DEF Stems
  <2>3. \A c \in pending[j].reads : u[c] = v[c]
    BY <1>10, <2>1, <2>2
  <2> QED
    BY <1>7, <1>10, <2>3, ReadsDecide
<1>13. \A m \in DOMAIN copies : \A i \in DOMAIN w :
         w[i].dst = copies[m].dst => ev[<<w[i].src, u>>] = ev[<<copies[m].src, state>>]
  <2> SUFFICES ASSUME NEW m \in DOMAIN copies, NEW i \in DOMAIN w, w[i].dst = copies[m].dst
               PROVE  ev[<<w[i].src, u>>] = ev[<<copies[m].src, state>>]
    OBVIOUS
  <2>1. PICK j \in DOMAIN pending \ {k} : w[i] = pending[j]
    BY <1>5
  <2>2. ev[<<pending[j].src, u>>] = ev[<<pending[j].src, v>>]
    BY <1>12
  <2>3. ev[<<pending[j].src, v>>] = ev[<<copies[m].src, state>>]
    BY <1>7, <2>1
  <2> QED
    BY <2>1, <2>2, <2>3
<1>14. ASSUME NEW m \in DOMAIN copies
       PROVE  \/ \E i \in DOMAIN w : w[i].dst = copies[m].dst
              \/ u[copies[m].dst] = ev[<<copies[m].src, state>>]
  <2>1. CASE pending[k].dst = copies[m].dst
    BY <1>2, <1>7, <1>11, <2>1
  <2>2. CASE pending[k].dst # copies[m].dst /\ \E i \in DOMAIN pending : pending[i].dst = copies[m].dst
    <3>1. PICK i \in DOMAIN pending : pending[i].dst = copies[m].dst
      BY <2>2
    <3>2. i \in DOMAIN pending \ {k}
      BY <2>2, <3>1
    <3> QED
      BY <1>5, <3>1, <3>2
  <2>3. CASE pending[k].dst # copies[m].dst /\ v[copies[m].dst] = ev[<<copies[m].src, state>>]
    <3>1. copies[m].dst \in Cells
      BY <1>4 DEF Assigned, D
    <3> QED
      BY <1>10, <2>3, <3>1
  <2> QED
    BY <1>7, <2>1, <2>2, <2>3
<1>15. \A c \in Cells \ (D \cup {spare[d] : d \in D}) : u[c] = state[c]
  BY <1>2, <1>3, <1>7, <1>10
<1> QED
  BY <1>6, <1>8, <1>10, <1>13, <1>14, <1>15 DEF Underway, D, u, w

\* Parking a value when no copy is ready overwrites nothing that is read.
LEMMA ParkKeeps ==
  ASSUME NEW Cells, NEW Exprs, NEW Vals, NEW ev, NEW copies, NEW spare, NEW rank,
         Edge(Cells, Exprs, Vals, ev, copies, spare, rank),
         NEW pending, Waitable(pending, copies, spare, rank), pending # <<>>, Ready(pending) = {},
         NEW state, NEW v, Underway(Cells, Vals, ev, copies, spare, pending, state, v)
  PROVE  LET move == Move(pending, spare) IN
         Underway(Cells, Vals, ev, copies, spare, Waiting(pending, spare), state,
               [v EXCEPT ![move.dst] = ev[<<move.src, v>>]])
<1> DEFINE D == Assigned(copies)
           w == Waiting(pending, spare)
           p == pending[1].dst
           to == spare[p]
           u == [v EXCEPT ![to] = ev[<<Get(p), v>>]]
<1>1. /\ pending \in Seq(Waits(copies, spare)) /\ OnePerPhi(pending) /\ ReadsOne(pending)
      /\ Plainly(pending, D, rank)
  BY DEF Waitable
<1>2. \A i \in DOMAIN pending : pending[i].dst \in D
  <2>1. \A i \in DOMAIN pending : pending[i] \in Waits(copies, spare)
    BY <1>1
  <2> QED
    BY <2>1 DEF Waits
<1>3. D \subseteq Cells
  <2>1. \A j \in DOMAIN copies : copies[j] \in CopiesOf(Cells, Exprs)
    <3>1. copies \in Seq(CopiesOf(Cells, Exprs))
      BY DEF Edge
    <3> QED
      BY <3>1
  <2> QED
    BY <2>1 DEF Assigned, CopiesOf
<1>4. Move(pending, spare).dst = to /\ Move(pending, spare).src = Get(p)
  BY DEF Move
<1>5. /\ v \in [Cells -> Vals] /\ Stems(pending, copies, spare)
      /\ \A m \in DOMAIN copies : \A i \in DOMAIN pending :
           pending[i].dst = copies[m].dst => ev[<<pending[i].src, v>>] = ev[<<copies[m].src, state>>]
      /\ \A m \in DOMAIN copies :
           \/ \E i \in DOMAIN pending : pending[i].dst = copies[m].dst
           \/ v[copies[m].dst] = ev[<<copies[m].src, state>>]
      /\ \A c \in Cells \ (D \cup {spare[d] : d \in D}) : v[c] = state[c]
  BY DEF Underway
<1>6. Stems(w, copies, spare)
  BY <1>1, <1>2, <1>5, StemsKeep
<1>7. rank \in [D -> Nat]
  BY DEF Edge
<1>8. \A m \in DOMAIN pending : \E k \in DOMAIN pending \ {m} :
        pending[m].reads = {pending[k].dst} /\ pending[m].src = Get(pending[k].dst)
  BY <1>1, <1>2, <1>7, CirclesPlain
<1>9. /\ DOMAIN w = DOMAIN pending /\ 1 \in DOMAIN pending
      /\ \A i \in DOMAIN w : w[i] = Redirected(pending[i], p, to)
  <2>1. /\ w = [i \in 1..Len(pending) |-> Redirected(pending[i], p, to)]
        /\ DOMAIN pending = 1..Len(pending) /\ 1 \in DOMAIN pending
    BY <1>1, ParkedIs
  <2> QED
    BY <2>1
<1>10. p \in D /\ to \in Cells \ D
  BY <1>2, <1>9 DEF Edge
<1>11. ev[<<Get(p), v>>] = v[p]
  BY <1>3, <1>5, <1>10 DEF Edge
<1> HIDE DEF w, D, p, to
<1>12. /\ u \in [Cells -> Vals] /\ u[to] = v[p]
       /\ \A c \in Cells : c # to => u[c] = v[c]
  BY <1>3, <1>5, <1>10, <1>11
<1>13. ev[<<Get(to), u>>] = u[to]
  BY <1>10, <1>12 DEF Edge
<1> HIDE DEF u
<1>14. \A i \in DOMAIN w : w[i].dst = pending[i].dst
  BY <1>9 DEF Redirected
<1>15. \A i \in DOMAIN w : ev[<<w[i].src, u>>] = ev[<<pending[i].src, v>>]
  <2> SUFFICES ASSUME NEW i \in DOMAIN w PROVE ev[<<w[i].src, u>>] = ev[<<pending[i].src, v>>]
    OBVIOUS
  <2>1. w[i] = Redirected(pending[i], p, to)
    BY <1>9
  <2>2. CASE pending[i].src = Get(p)
    <3>1. w[i].src = Get(to)
      BY <2>1, <2>2 DEF Redirected
    <3> QED
      BY <1>11, <1>12, <1>13, <2>2, <3>1
  <2>3. CASE pending[i].src # Get(p)
    <3>1. w[i] = pending[i]
      BY <2>1, <2>3 DEF Redirected
    <3>2. PICK k \in DOMAIN pending \ {i} :
            pending[i].reads = {pending[k].dst} /\ pending[i].src = Get(pending[k].dst)
      BY <1>8, <1>9
    <3>3. pending[k].dst \in Cells /\ pending[k].dst # to
      BY <1>2, <1>3, <1>10
    <3>4. ev[<<Get(pending[k].dst), u>>] = u[pending[k].dst]
      BY <1>12, <3>3 DEF Edge
    <3>5. ev[<<Get(pending[k].dst), v>>] = v[pending[k].dst]
      BY <1>5, <3>3 DEF Edge
    <3> QED
      BY <1>12, <3>1, <3>2, <3>3, <3>4, <3>5
  <2> QED
    BY <2>2, <2>3
<1>16. \A m \in DOMAIN copies : \A i \in DOMAIN w :
         w[i].dst = copies[m].dst => ev[<<w[i].src, u>>] = ev[<<copies[m].src, state>>]
  <2> SUFFICES ASSUME NEW m \in DOMAIN copies, NEW i \in DOMAIN w, w[i].dst = copies[m].dst
               PROVE  ev[<<w[i].src, u>>] = ev[<<copies[m].src, state>>]
    OBVIOUS
  <2>1. i \in DOMAIN pending /\ pending[i].dst = copies[m].dst
    BY <1>9, <1>14
  <2>2. ev[<<pending[i].src, v>>] = ev[<<copies[m].src, state>>]
    BY <1>5, <2>1
  <2>3. ev[<<w[i].src, u>>] = ev[<<pending[i].src, v>>]
    BY <1>15
  <2> QED
    BY <2>2, <2>3
<1>17. ASSUME NEW m \in DOMAIN copies
       PROVE  \/ \E i \in DOMAIN w : w[i].dst = copies[m].dst
              \/ u[copies[m].dst] = ev[<<copies[m].src, state>>]
  <2>1. copies[m].dst \in D
    BY DEF Assigned, D
  <2>2. u[copies[m].dst] = v[copies[m].dst]
    BY <1>3, <1>10, <1>12, <2>1
  <2> QED
    BY <1>5, <1>9, <1>14, <2>2
<1>18. \A c \in Cells \ (D \cup {spare[d] : d \in D}) : u[c] = state[c]
  <2>1. to \in {spare[d] : d \in D}
    BY <1>10 DEF to
  <2> QED
    BY <1>5, <1>12, <2>1
<1>19. Underway(Cells, Vals, ev, copies, spare, w, state, u)
  BY <1>6, <1>12, <1>16, <1>17, <1>18 DEF Underway, D
<1>20. [v EXCEPT ![Move(pending, spare).dst] = ev[<<Move(pending, spare).src, v>>]] = u
  BY <1>4 DEF u
<1> QED
  BY <1>19, <1>20 DEF w

\* On the edge, the copies wait and nothing has changed.
LEMMA UnderwayFirst ==
  ASSUME NEW Cells, NEW Exprs, NEW Vals, NEW ev, NEW copies, NEW spare, NEW rank,
         Edge(Cells, Exprs, Vals, ev, copies, spare, rank), NEW state \in [Cells -> Vals]
  PROVE  Underway(Cells, Vals, ev, copies, spare, copies, state, state)
<1>1. Stems(copies, copies, spare)
  BY DEF Stems
<1>2. \A k \in DOMAIN copies : \A i \in DOMAIN copies : copies[i].dst = copies[k].dst => i = k
  BY DEF Edge, OnePerPhi
<1> QED
  BY <1>1, <1>2 DEF Underway

\* THEOREM: whatever the copies of an edge, the turns writePhiCopies takes for
\* them give every phi the value its expression had when control took the edge,
\* as if all were made at once, and change nothing else but the spares: no copy
\* overwrites what another has still to read, circles of any length are traded
\* through a spare, and no spare is taken while it is read.  The hypothesis on
\* the ranks says that no circle passes through an expression other than a plain
\* read.
THEOREM PhiCopiesAtOnce ==
  ASSUME NEW Cells, NEW Exprs, NEW Vals, NEW ev, NEW copies, NEW spare, NEW rank,
         Edge(Cells, Exprs, Vals, ev, copies, spare, rank), NEW state \in [Cells -> Vals]
  PROVE  LET last == Executed(copies, spare, [Cells -> Vals], ev, state, PhiTurns(copies)) IN
         /\ Pending(copies, spare, PhiTurns(copies)) = <<>>
         /\ \A k \in DOMAIN copies : last[copies[k].dst] = ev[<<copies[k].src, state>>]
         /\ \A c \in Cells \ (Assigned(copies) \cup {spare[d] : d \in Assigned(copies)}) :
              last[c] = state[c]
<1> DEFINE at(t) == Pending(copies, spare, t)
           states == [Cells -> Vals]
           next(s) == LET pending == Pending(copies, spare, s[1] - 1)
                          move == Move(pending, spare)
                      IN  IF pending = <<>> THEN s[2]
                          ELSE [s[2] EXCEPT ![move.dst] = ev[<<move.src, s[2]>>]]
           turn == [s \in Nat \X states |-> next(s)]
           val(t) == Loop(turn, state, t)
           S == {t \in Nat : Underway(Cells, Vals, ev, copies, spare, at(t), state, val(t))}
<1>1. /\ at(0) = copies
      /\ \A t \in Nat : Waitable(at(t), copies, spare, rank)
      /\ \A t \in Nat : at(t + 1) = Waiting(at(t), spare)
  <2>1. /\ copies \in Seq(CopiesOf(Cells, Exprs)) /\ Apart(copies, spare)
        /\ OnePerPhi(copies) /\ ReadsOne(copies) /\ Plainly(copies, Assigned(copies), rank)
    BY DEF Edge, Apart
  <2>2. /\ Pending(copies, spare, 0) = copies
        /\ \A t \in Nat : Waitable(Pending(copies, spare, t), copies, spare, rank)
        /\ \A t \in Nat : Pending(copies, spare, t + 1) = Waiting(Pending(copies, spare, t), spare)
    BY <2>1, PendingIs
  <2> QED
    BY <2>2
<1>2. val(0) = state /\ \A t \in Nat : val(t + 1) = turn[<<t + 1, val(t)>>]
  <2> HIDE DEF turn
  <2> QED
    BY LoopIs
<1>3. \A t \in Nat : val(t) \in states =>
        val(t + 1) = IF at(t) = <<>> THEN val(t)
                     ELSE [val(t) EXCEPT ![Move(at(t), spare).dst] =
                                            ev[<<Move(at(t), spare).src, val(t)>>]]
  <2> SUFFICES ASSUME NEW t \in Nat, val(t) \in states
               PROVE  val(t + 1) = IF at(t) = <<>> THEN val(t)
                        ELSE [val(t) EXCEPT ![Move(at(t), spare).dst] =
                                               ev[<<Move(at(t), spare).src, val(t)>>]]
    OBVIOUS
  <2> HIDE DEF val, states
  <2>1. <<t + 1, val(t)>> \in Nat \X states
    OBVIOUS
  <2>2. turn[<<t + 1, val(t)>>] = next(<<t + 1, val(t)>>)
    BY <2>1
  <2>3. (t + 1) - 1 = t
    OBVIOUS
  <2> QED
    BY <1>2, <2>2, <2>3
<1> HIDE DEF at, val
<1>4. 0 \in S
  BY <1>1, <1>2, UnderwayFirst
<1>5. ASSUME NEW t \in Nat, t \in S PROVE t + 1 \in S
  <2>1. Underway(Cells, Vals, ev, copies, spare, at(t), state, val(t))
    BY <1>5
  <2>2. val(t) \in states
    BY <2>1 DEF Underway
  <2>3. at(t + 1) = Waiting(at(t), spare) /\ Waitable(at(t), copies, spare, rank)
    BY <1>1
  <2>4. CASE at(t) = <<>>
    <3>1. val(t + 1) = val(t)
      BY <1>3, <2>2, <2>4
    <3>2. at(t + 1) = at(t)
      BY <2>3, <2>4 DEF Waiting
    <3> QED
      BY <2>1, <3>1, <3>2
  <2>5. CASE at(t) # <<>>
    <3>1. val(t + 1) = [val(t) EXCEPT ![Move(at(t), spare).dst] =
                                         ev[<<Move(at(t), spare).src, val(t)>>]]
      BY <1>3, <2>2, <2>5
    <3>2. Underway(Cells, Vals, ev, copies, spare, at(t + 1), state, val(t + 1))
      <4>1. CASE Ready(at(t)) # {}
        BY <2>1, <2>3, <3>1, <4>1, MadeKeeps
      <4>2. CASE Ready(at(t)) = {}
        BY <2>1, <2>3, <2>5, <3>1, <4>2, ParkKeeps
      <4> QED
        BY <4>1, <4>2
    <3> QED
      BY <3>2
  <2> QED
    BY <2>4, <2>5
<1>6. PhiTurns(copies) \in Nat
  <2>1. Len(copies) \in Nat
    BY DEF Edge
  <2> QED
    BY <2>1 DEF PhiTurns
<1>7. PhiTurns(copies) \in S
  <2> HIDE DEF S
  <2> QED
    BY <1>4, <1>5, <1>6, NatSet
<1>8. at(PhiTurns(copies)) = <<>>
  BY CopiesEnd DEF at
<1>9. Executed(copies, spare, [Cells -> Vals], ev, state, PhiTurns(copies)) = val(PhiTurns(copies))
  BY DEF Executed, val
<1>10. DOMAIN at(PhiTurns(copies)) = {}
  BY <1>8
<1> QED
  BY <1>7, <1>8, <1>9, <1>10 DEF Underway, at

\* THEOREM: that hypothesis is needed.  Two phis that trade their values through
\* expressions that are no plain reads, as casts between an integer and a float
\* are, wait for ever: none is ready, and parking one redirects nothing, for
\* writePhiCopies redirects only what is the plain read.
THEOREM TradedThroughCasts ==
  ASSUME NEW a, NEW b, a # b, NEW x, NEW y, x # Get(a), y # Get(a), NEW spare, NEW t \in Nat
  PROVE  LET copies == << [dst |-> a, src |-> x, reads |-> {b}],
                          [dst |-> b, src |-> y, reads |-> {a}] >>
         IN  Pending(copies, spare, t) = copies
<1> DEFINE one == [dst |-> a, src |-> x, reads |-> {b}]
           two == [dst |-> b, src |-> y, reads |-> {a}]
           copies == <<one, two>>
           W == Waits(copies, spare)
           turn == [s \in Nat \X Seq(W) |-> Waiting(s[2], spare)]
           at(n) == Loop(turn, copies, n)
           S == {n \in Nat : at(n) = copies}
<1>1. /\ one.dst = a /\ one.src = x /\ one.reads = {b}
      /\ two.dst = b /\ two.src = y /\ two.reads = {a}
  OBVIOUS
<1>2. DOMAIN copies = 1..2 /\ Len(copies) = 2 /\ copies[1] = one /\ copies[2] = two /\ copies # <<>>
  OBVIOUS
<1>3. one \in W /\ two \in W
  <2>1. a \in Assigned(copies) /\ b \in Assigned(copies)
    BY <1>1, <1>2 DEF Assigned
  <2>2. /\ x \in {copies[k].src : k \in DOMAIN copies} /\ y \in {copies[k].src : k \in DOMAIN copies}
        /\ {b} \in {copies[k].reads : k \in DOMAIN copies}
        /\ {a} \in {copies[k].reads : k \in DOMAIN copies}
    BY <1>1, <1>2
  <2> HIDE DEF copies
  <2> QED
    BY <2>1, <2>2 DEF Waits
<1> HIDE DEF W, one, two
<1>4. copies \in Seq(W)
  BY <1>3
<1> HIDE DEF copies
<1>5. Ready(copies) = {}
  <2>1. phiCopyRead(copies, 1)
    BY <1>1, <1>2 DEF phiCopyRead
  <2>2. phiCopyRead(copies, 2)
    BY <1>1, <1>2 DEF phiCopyRead
  <2> QED
    BY <1>2, <2>1, <2>2 DEF Ready
<1>6. Waiting(copies, spare) = copies
  <2>1. Waiting(copies, spare) = [i \in 1..2 |-> Redirected(copies[i], a, spare[a])]
    BY <1>1, <1>2, <1>5 DEF Waiting
  <2>2. Redirected(one, a, spare[a]) = one /\ Redirected(two, a, spare[a]) = two
    BY <1>1 DEF Redirected
  <2>3. \A i \in 1..2 : Redirected(copies[i], a, spare[a]) = copies[i]
    BY <1>2, <2>2
  <2>4. Waiting(copies, spare) = [i \in 1..2 |-> copies[i]]
    BY <2>1, <2>3
  <2> QED
    BY <1>2, <1>4, <2>4
<1>7. at(0) = copies /\ \A n \in Nat : at(n + 1) = turn[<<n + 1, at(n)>>]
  <2> HIDE DEF turn
  <2> QED
    BY LoopIs
<1> HIDE DEF at
<1>8. 0 \in S
  BY <1>7
<1>9. ASSUME NEW n \in Nat, n \in S PROVE n + 1 \in S
  <2>1. at(n) = copies
    BY <1>9
  <2>2. turn[<<n + 1, copies>>] = Waiting(copies, spare)
    BY <1>4
  <2> HIDE DEF turn
  <2>3. at(n + 1) = copies
    BY <1>6, <1>7, <2>1, <2>2
  <2> QED
    BY <2>3
<1>10. t \in S
  <2> HIDE DEF S
  <2> QED
    BY <1>8, <1>9, NatSet
<1>11. at(t) = Pending(copies, spare, t)
  BY DEF at, Pending, W
<1>12. Pending(copies, spare, t) = copies
  BY <1>10, <1>11
<1> QED
  BY <1>12 DEF copies, one, two

=============================================================================
