---------------------------- MODULE WasmHeapProofs ----------------------------
(***************************************************************************)
(* Proofs about the allocators of WasmHeap, for any base, page size and    *)
(* limits.  An allocator's operation is shown to keep the book of the page *)
(* heap, and what it does is told in terms of the blocks in use: which one *)
(* is new or gone, that the others keep their place and their size, and    *)
(* what the data is afterwards.                                            *)
(***************************************************************************)
EXTENDS WasmHeap, FiniteSetTheorems, WellFoundedInduction, TLAPS

-----------------------------------------------------------------------------
(* Numbers and sequences                                                   *)

\* The provers cannot be given the property of an induction theorem, so an
\* induction is an argument about the least number that something fails for.
LEMMA Least ==
  \A T : T \subseteq Nat /\ T # {} => \E x \in T : \A y \in T : x <= y
<1> SUFFICES ASSUME NEW T, T \subseteq Nat, T # {} PROVE \E x \in T : \A y \in T : x <= y
  OBVIOUS
<1> DEFINE R == OpToRel(<, Nat)
<1>1. IsWellFoundedOn(R, Nat)
  BY NatLessThanWellFounded
<1>2. \A x, y \in Nat : x < y => <<x, y>> \in R
  BY DEF OpToRel
<1> HIDE DEF R
<1>3. PICK x \in T : \A y \in T : <<y, x>> \notin R
  BY <1>1, WFMin
<1>4. x \in Nat /\ \A y \in T : y \in Nat /\ ~(y < x)
  BY <1>2, <1>3
<1>5. \A y \in T : x <= y
  BY <1>4
<1> QED
  BY <1>5

\* The minimum of a set of naturals is its least member.
LEMMA MinLeast ==
  \A T : T \subseteq Nat /\ T # {} => Min(T) \in T /\ \A y \in T : Min(T) <= y
  BY Least DEF Min

\* RoundUp answers the next multiple of its unit.
LEMMA RoundsUp ==
  \A n, u \in Nat :
    u > 0 => /\ RoundUp(n, u) \in Nat /\ n <= RoundUp(n, u)
             /\ RoundUp(n, u) \div u \in Nat
             /\ RoundUp(n, u) = (RoundUp(n, u) \div u) * u
<1> SUFFICES ASSUME NEW n \in Nat, NEW u \in Nat, u > 0
             PROVE  /\ RoundUp(n, u) \in Nat /\ n <= RoundUp(n, u)
                    /\ RoundUp(n, u) \div u \in Nat
                    /\ RoundUp(n, u) = (RoundUp(n, u) \div u) * u
  OBVIOUS
<1> DEFINE m == (n + u - 1) \div u
<1>1. m \in Nat /\ m * u >= n
  OBVIOUS
<1>2. RoundUp(n, u) = m * u
  BY DEF RoundUp
<1> HIDE DEF m
<1>3. (m * u) \div u = m /\ m * u \in Nat
  BY <1>1
<1> QED
  BY <1>1, <1>2, <1>3

\* Blocks lie at multiples of eight.
LEMMA RoundsUpToWords == \A n \in Nat : RoundUp(n, 8) % 8 = 0
  BY DEF RoundUp

\* Sums and differences of multiples of eight are multiples of eight.
LEMMA WordSums ==
  \A m, n \in Nat :
    m % 8 = 0 /\ n % 8 = 0 =>
      /\ (m + n) % 8 = 0 /\ (m + 8 + n) % 8 = 0 /\ (m + 8) % 8 = 0
      /\ m >= n + 8 => (m - 8 - n) % 8 = 0 /\ (m - n) % 8 = 0
      /\ m > 0 => m >= 8
  OBVIOUS

\* The two parts page_alloc splits a block into are whole words and end where the block did.
LEMMA SplitSums ==
  \A b, n, c \in Nat :
    b % 8 = 0 /\ n % 8 = 0 /\ c % 8 = 0 /\ n + 16 <= c =>
      /\ b + 8 + n \in Nat /\ b < b + 8 + n /\ (b + 8 + n) % 8 = 0
      /\ c - n - 8 \in Nat /\ c - n - 8 >= 8 /\ (c - n - 8) % 8 = 0
      /\ (b + 8 + n) + 8 + (c - n - 8) = b + 8 + c
  OBVIOUS

\* What a concatenation holds, place by place.
LEMMA ConcatIs ==
  \A S : \A a, b \in Seq(S) :
    /\ a \o b \in Seq(S)
    /\ Len(a \o b) = Len(a) + Len(b)
    /\ \A j \in 1 .. Len(a) + Len(b) :
         (a \o b)[j] = IF j <= Len(a) THEN a[j] ELSE b[j - Len(a)]
  OBVIOUS

\* What RemoveAt leaves, place by place.
LEMMA RemoveAtIs ==
  \A S : \A s \in Seq(S) : \A i \in 1 .. Len(s) :
    /\ RemoveAt(s, i) \in Seq(S)
    /\ Len(RemoveAt(s, i)) = Len(s) - 1
    /\ \A j \in 1 .. Len(s) - 1 : RemoveAt(s, i)[j] = IF j < i THEN s[j] ELSE s[j + 1]
<1> SUFFICES ASSUME NEW S, NEW s \in Seq(S), NEW i \in 1 .. Len(s)
             PROVE  /\ RemoveAt(s, i) \in Seq(S)
                    /\ Len(RemoveAt(s, i)) = Len(s) - 1
                    /\ \A j \in 1 .. Len(s) - 1 :
                         RemoveAt(s, i)[j] = IF j < i THEN s[j] ELSE s[j + 1]
  OBVIOUS
<1> DEFINE a == SubSeq(s, 1, i - 1)
           b == SubSeq(s, i + 1, Len(s))
<1>1. a \in Seq(S) /\ Len(a) = i - 1 /\ \A j \in 1 .. i - 1 : a[j] = s[j]
  OBVIOUS
<1>2. b \in Seq(S) /\ Len(b) = Len(s) - i /\ \A j \in 1 .. Len(s) - i : b[j] = s[i + j]
  OBVIOUS
<1>3. RemoveAt(s, i) = a \o b
  BY DEF RemoveAt
<1> HIDE DEF a, b
<1>4. a \o b \in Seq(S) /\ Len(a \o b) = Len(s) - 1
  <2>1. a \o b \in Seq(S) /\ Len(a \o b) = Len(a) + Len(b)
    BY <1>1, <1>2, ConcatIs
  <2>2. Len(s) \in Nat /\ i \in Nat
    OBVIOUS
  <2> QED
    BY <1>1, <1>2, <2>1, <2>2
<1>5. ASSUME NEW j \in 1 .. Len(s) - 1
      PROVE  (a \o b)[j] = IF j < i THEN s[j] ELSE s[j + 1]
  <2>1. (a \o b)[j] = IF j <= Len(a) THEN a[j] ELSE b[j - Len(a)]
    BY <1>1, <1>2
  <2>2. CASE j < i
    BY <1>1, <2>1, <2>2
  <2>3. CASE ~(j < i)
    <3>1. j - Len(a) \in 1 .. Len(s) - i /\ i + (j - Len(a)) = j + 1
      BY <1>1, <2>3
    <3> QED
      BY <1>1, <1>2, <2>1, <2>3, <3>1
  <2> QED
    BY <2>2, <2>3
<1> QED
  BY <1>3, <1>4, <1>5

\* What InsertAt leaves, place by place.
LEMMA InsertAtIs ==
  \A S : \A s \in Seq(S) : \A i \in 1 .. Len(s) + 1 : \A x \in S :
    /\ InsertAt(s, i, x) \in Seq(S)
    /\ Len(InsertAt(s, i, x)) = Len(s) + 1
    /\ \A j \in 1 .. Len(s) + 1 :
         InsertAt(s, i, x)[j] = IF j < i THEN s[j] ELSE IF j = i THEN x ELSE s[j - 1]
<1> SUFFICES ASSUME NEW S, NEW s \in Seq(S), NEW i \in 1 .. Len(s) + 1, NEW x \in S
             PROVE  /\ InsertAt(s, i, x) \in Seq(S)
                    /\ Len(InsertAt(s, i, x)) = Len(s) + 1
                    /\ \A j \in 1 .. Len(s) + 1 :
                         InsertAt(s, i, x)[j] =
                           IF j < i THEN s[j] ELSE IF j = i THEN x ELSE s[j - 1]
  OBVIOUS
<1> DEFINE a == SubSeq(s, 1, i - 1)
           b == SubSeq(s, i, Len(s))
           c == a \o <<x>>
<1>1. a \in Seq(S) /\ Len(a) = i - 1 /\ \A j \in 1 .. i - 1 : a[j] = s[j]
  OBVIOUS
<1>2. b \in Seq(S) /\ Len(b) = Len(s) - i + 1
      /\ \A j \in 1 .. Len(s) - i + 1 : b[j] = s[i + j - 1]
  OBVIOUS
<1>3. InsertAt(s, i, x) = c \o b
  BY DEF InsertAt
<1> HIDE DEF a, b
<1>4. c \in Seq(S) /\ Len(c) = i /\ \A j \in 1 .. i : c[j] = IF j = i THEN x ELSE s[j]
  BY <1>1
<1> HIDE DEF c
<1>5. c \o b \in Seq(S) /\ Len(c \o b) = Len(s) + 1
  <2>1. c \o b \in Seq(S) /\ Len(c \o b) = Len(c) + Len(b)
    BY <1>2, <1>4, ConcatIs
  <2>2. Len(s) \in Nat /\ i \in Nat
    OBVIOUS
  <2> QED
    BY <1>2, <1>4, <2>1, <2>2
<1>6. ASSUME NEW j \in 1 .. Len(s) + 1
      PROVE  (c \o b)[j] = IF j < i THEN s[j] ELSE IF j = i THEN x ELSE s[j - 1]
  <2>1. (c \o b)[j] = IF j <= Len(c) THEN c[j] ELSE b[j - Len(c)]
    BY <1>2, <1>4
  <2>2. CASE j <= i
    BY <1>4, <2>1, <2>2
  <2>3. CASE ~(j <= i)
    <3>1. j - Len(c) \in 1 .. Len(s) - i + 1 /\ i + (j - Len(c)) - 1 = j - 1
      BY <1>4, <2>3
    <3> QED
      BY <1>2, <1>4, <2>1, <2>3, <3>1
  <2> QED
    BY <2>2, <2>3
<1> QED
  BY <1>3, <1>5, <1>6

-----------------------------------------------------------------------------
(* The book of the page heap                                               *)

IsHeap(h) ==
  /\ h \in [end : Nat, pages : Nat, free : Seq(DOMAIN h.cap), cap : [DOMAIN h.cap -> Nat],
            used : Nat, data : {h.data}]
  /\ IsFiniteSet(DOMAIN h.cap) /\ DOMAIN h.cap \subseteq Nat
  /\ h.data = [x \in DOMAIN h.data |-> h.data[x]]

\* Blocks do not overlap, and each begins where the heap does or another ends.
Blocks(h) ==
  /\ \A b \in DOMAIN h.cap : /\ h.cap[b] >= 8 /\ h.cap[b] % 8 = 0
                             /\ b % 8 = 0 /\ HeapBase <= b
                             /\ BlockEnd(h, b) <= h.end
  /\ \A b, c \in DOMAIN h.cap : b < c => BlockEnd(h, b) <= c
  /\ DOMAIN h.cap \cup {h.end} = {HeapBase} \cup {BlockEnd(h, b) : b \in DOMAIN h.cap}
  /\ h.end % 8 = 0 /\ HeapBase <= h.end

\* Where the heap ends, in memory the host gave.
Ends(h) == h.end <= AddressLimit /\ h.end <= h.pages * PageSize

\* The free list in address order, in which a block may touch the next one
\* only at the positions S.
Loose(h, S) ==
  \A i, j \in 1 .. Len(h.free) :
    i < j => /\ BlockEnd(h, h.free[i]) <= h.free[j]
             /\ BlockEnd(h, h.free[i]) = h.free[j] => j = i + 1 /\ i \in S

Book(h) == IsHeap(h) /\ Blocks(h) /\ Ends(h) /\ Loose(h, {})

\* All but the data, and what a program sees of the page heap in it.
SameBlocks(g, h, B) == \A b \in B : g.cap[b] = h.cap[b]

\* The range of a list, by its places.
LEMMA RangeIs == \A s : Range(s) = {s[i] : i \in DOMAIN s}
  BY DEF Range

\* The heap at the start has a book with no block.
LEMMA EmptyBook == Book(EmptyHeap) /\ InUse(EmptyHeap) = {}
<1> DEFINE h == EmptyHeap
<1> USE HeapAssumption
<1>1. h.end = HeapBase /\ h.free = <<>> /\ h.cap = <<>> /\ h.used = 0 /\ h.data = <<>>
      /\ h.pages = RoundUp(HeapBase, PageSize) \div PageSize
  BY DEF EmptyHeap
<1>2. HeapBase \in Nat /\ PageSize \in Nat /\ PageSize > 0
  OBVIOUS
<1>3. h.pages \in Nat /\ HeapBase <= h.pages * PageSize
  <2> DEFINE up == RoundUp(HeapBase, PageSize)
             n == up \div PageSize
  <2>1. HeapBase <= up /\ n \in Nat /\ up = n * PageSize
    BY <1>2, RoundsUp, Zenon
  <2> HIDE DEF up
  <2>2. h.pages = n
    BY <1>1 DEF up
  <2> HIDE DEF n, h
  <2> QED
    BY <2>1, <2>2, Zenon
<1>4. DOMAIN <<>> = {} /\ Len(<<>>) = 0 /\ <<>> = [x \in {} |-> <<>>[x]]
  OBVIOUS
<1> HIDE DEF h
<1>5. IsHeap(h)
  <2>1. h \in [end : Nat, pages : Nat, free : Seq({}), cap : [{} -> Nat], used : Nat,
               data : {h.data}]
    BY <1>1, <1>2, <1>3, <1>4 DEF h, EmptyHeap
  <2> QED
    BY <1>1, <1>4, <2>1, FS_EmptySet DEF IsHeap
<1>6. Blocks(h) /\ Ends(h) /\ Loose(h, {})
  BY <1>1, <1>2, <1>3, <1>4 DEF Blocks, Ends, Loose
<1>7. InUse(h) = {}
  BY <1>1, <1>4 DEF InUse
<1> QED
  BY <1>5, <1>6, <1>7 DEF Book, h

\* Taking in the next block keeps the blocks in use and leaves fewer places
\* where two free ones touch.
LEMMA CoalesceKeeps ==
  ASSUME NEW h, IsHeap(h), Blocks(h), Ends(h), NEW S, Loose(h, S),
         NEW i \in Nat, \A s \in S : s \in Nat /\ s <= i
  PROVE  LET g == Coalesce(h, i)
         IN  /\ IsHeap(g) /\ Blocks(g) /\ Ends(g) /\ Loose(g, S \ {i})
             /\ InUse(g) = InUse(h) /\ SameBlocks(g, h, InUse(h))
             /\ g.data = h.data /\ g.used = h.used
<1> DEFINE g == Coalesce(h, i)
           Touch == i \in 1 .. (Len(h.free) - 1) /\ Adjacent(h, h.free[i], h.free[i + 1])
<1> USE DEF HeaderSize
<1>0. /\ HeapBase \in Nat /\ Len(h.free) \in Nat /\ h.free \in Seq(DOMAIN h.cap)
      /\ h.cap \in [DOMAIN h.cap -> Nat] /\ DOMAIN h.cap \subseteq Nat
      /\ IsFiniteSet(DOMAIN h.cap)
  BY SMTT(30), HeapAssumption DEF IsHeap
<1>1. CASE ~Touch
  <2>1. g = h
    BY <1>1 DEF Coalesce
  <2>2. Loose(h, S \ {i})
    <3> SUFFICES ASSUME NEW j \in 1 .. Len(h.free), NEW k \in 1 .. Len(h.free), j < k,
                        BlockEnd(h, h.free[j]) = h.free[k]
                 PROVE  j # i
      BY DEF Loose
    <3>1. k = j + 1
      BY DEF Loose
    <3> QED
      BY SMTT(30), <1>0, <1>1, <3>1 DEF Adjacent, BlockEnd
  <2> QED
    BY <2>1, <2>2 DEF SameBlocks
<1>2. CASE Touch
  <2> DEFINE b == h.free[i]
             n == h.free[i + 1]
             total == h.cap[b] + 8 + h.cap[n]
             D == DOMAIN h.cap
  <2>1. h.free \in Seq(D) /\ Len(h.free) \in Nat /\ i \in 1 .. Len(h.free) /\ i + 1 \in 1 .. Len(h.free)
    BY SMTT(30), <1>0, <1>2
  <2>2. b \in D /\ n \in D /\ b \in Nat /\ n \in Nat /\ h.cap[b] \in Nat /\ h.cap[n] \in Nat
        /\ b + 8 + h.cap[b] = n
    BY SMTT(30), <1>0, <1>2, <2>1 DEF Adjacent
  <2>3. b < n
    BY <2>2
  <2> DEFINE f == RemoveAt(h.free, i + 1)
             c == Absorb(h.cap, b, n)
  <2>4. g = [h EXCEPT !.free = f, !.cap = c]
    BY <1>2 DEF Coalesce
  <2> HIDE DEF g, Touch
  <2>5. g.free = RemoveAt(h.free, i + 1) /\ g.end = h.end /\ g.pages = h.pages
        /\ g.used = h.used /\ g.data = h.data
        /\ g.cap = Absorb(h.cap, b, n)
    <3> HIDE DEF f, c, b, n
    <3>1. /\ g.free = f /\ g.cap = c
          /\ g.end = h.end /\ g.pages = h.pages /\ g.used = h.used /\ g.data = h.data
      BY <2>4 DEF IsHeap
    <3> QED
      BY <3>1 DEF f, c
  <2>6. g.cap = [x \in D \ {n} |-> IF x = b THEN total ELSE h.cap[x]]
    BY <1>0, <2>2, <2>5 DEF Absorb, Drop
  <2> HIDE DEF b, n, total, D
  <2>7. DOMAIN g.cap = D \ {n} /\ g.cap[b] = total
        /\ \A x \in D \ {n, b} : g.cap[x] = h.cap[x]
    BY <2>2, <2>3, <2>6
  <2>8. total = h.cap[b] + 8 + h.cap[n] /\ total \in Nat
    BY <2>2 DEF total
  <2>9. BlockEnd(g, b) = BlockEnd(h, n) /\ \A x \in D \ {n, b} : BlockEnd(g, x) = BlockEnd(h, x)
    BY <2>2, <2>7, <2>8 DEF BlockEnd
  <2>10. D \subseteq Nat /\ IsFiniteSet(D) /\ h.cap \in [D -> Nat] /\ D = DOMAIN h.cap
    BY <1>0 DEF D
  <2>11. Len(g.free) = Len(h.free) - 1 /\ g.free \in Seq(D)
         /\ \A j \in 1 .. Len(h.free) - 1 :
              g.free[j] = IF j < i + 1 THEN h.free[j] ELSE h.free[j + 1]
    BY ZenonT(40), <2>1, <2>5, RemoveAtIs
  <2>12. \A j, k \in 1 .. Len(h.free) : j < k => h.free[j] < h.free[k]
    <3> TAKE j, k \in 1 .. Len(h.free)
    <3>1. h.free[j] \in D /\ h.free[k] \in D
      BY <2>1
    <3>2. h.free[j] \in Nat /\ h.free[k] \in Nat /\ h.cap[h.free[j]] \in Nat
      BY <2>10, <3>1
    <3> QED
      BY SMTT(30), <3>2 DEF Loose, BlockEnd
  <2>13. \A j \in 1 .. Len(g.free) : g.free[j] \in D \ {n}
    <3> SUFFICES ASSUME NEW j \in 1 .. Len(g.free) PROVE g.free[j] \in D \ {n}
      OBVIOUS
    <3> DEFINE jj == IF j < i + 1 THEN j ELSE j + 1
    <3>1. jj \in 1 .. Len(h.free) /\ jj # i + 1 /\ g.free[j] = h.free[jj]
      BY <2>1, <2>11
    <3> HIDE DEF jj
    <3>2. h.free[jj] \in D /\ h.free[jj] \in Nat /\ n = h.free[i + 1]
      BY SMTT(30), <2>1, <2>10, <3>1 DEF n
    <3>3. jj < i + 1 \/ i + 1 < jj
      BY <3>1
    <3>4. h.free[jj] # n
      BY <2>1, <2>2, <2>12, <3>1, <3>2, <3>3
    <3> QED
      BY <3>1, <3>2, <3>4
  <2>14. IsHeap(g)
    <3>1. g.free \in Seq(D \ {n})
      BY <2>11, <2>13
    <3>2. IsFiniteSet(D \ {n})
      BY <2>10, FS_Subset
    <3>3. g.cap \in [D \ {n} -> Nat]
      BY <2>6, <2>8, <2>10
    <3> QED
      BY <2>4, <2>5, <2>7, <2>10, <3>1, <3>2, <3>3 DEF IsHeap
  <2>15. BlockEnd(h, b) = n
    BY <2>2 DEF BlockEnd
  <2>16. Blocks(g)
    <3>1. \A x \in DOMAIN g.cap : /\ g.cap[x] >= 8 /\ g.cap[x] % 8 = 0
                                  /\ x % 8 = 0 /\ HeapBase <= x
                                  /\ BlockEnd(g, x) <= g.end
      <4>1. h.cap[b] % 8 = 0 /\ h.cap[n] % 8 = 0 /\ h.cap[b] >= 8
        BY <2>2, <2>10 DEF Blocks
      <4>2. total % 8 = 0 /\ total >= 8
        BY <2>2, <2>8, <4>1
      <4> QED
        BY <2>2, <2>5, <2>7, <2>9, <2>10, <4>2 DEF Blocks
    <3>2. \A x, y \in DOMAIN g.cap : x < y => BlockEnd(g, x) <= y
      <4> SUFFICES ASSUME NEW x \in D \ {n}, NEW y \in D \ {n}, x < y
                   PROVE  BlockEnd(g, x) <= y
        BY <2>7
      <4>1. CASE x = b
        <5>1. BlockEnd(h, b) <= y
          BY <2>2, <2>10, <4>1 DEF Blocks
        <5>2. n < y
          BY <2>2, <2>10, <2>15, <5>1
        <5>3. BlockEnd(h, n) <= y
          BY <2>2, <2>10, <5>2 DEF Blocks
        <5> QED
          BY <2>9, <4>1, <5>3
      <4>2. CASE x # b
        BY <2>9, <2>10, <4>2 DEF Blocks
      <4> QED
        BY <4>1, <4>2
    <3>3. DOMAIN g.cap \cup {g.end} = {HeapBase} \cup {BlockEnd(g, x) : x \in DOMAIN g.cap}
      <4>1. DOMAIN h.cap \cup {h.end} = {HeapBase} \cup {BlockEnd(h, x) : x \in DOMAIN h.cap}
        BY DEF Blocks
      <4>2. \A x \in D : x # b => BlockEnd(h, x) # n
        <5> SUFFICES ASSUME NEW x \in D, x # b, BlockEnd(h, x) = n PROVE FALSE
          OBVIOUS
        <5>1. CASE x < b
          <6>1. BlockEnd(h, x) <= b
            BY <2>2, <2>10, <5>1 DEF Blocks
          <6> QED
            BY <2>2, <2>3, <6>1
        <5>2. CASE b < x
          <6>1. BlockEnd(h, b) <= x /\ BlockEnd(h, x) > x
            BY <2>2, <2>10, <5>2 DEF Blocks, BlockEnd
          <6> QED
            BY <2>2, <2>10, <2>15, <6>1
        <5> QED
          BY <2>2, <2>10, <5>1, <5>2
      <4>3. n # h.end /\ n # HeapBase
        <5>1. BlockEnd(h, n) <= h.end /\ HeapBase <= b
          BY <2>2, <2>10 DEF Blocks
        <5> QED
          BY SMTT(30), <2>2, <2>3, <5>1 DEF BlockEnd, IsHeap
      <4>4. {BlockEnd(g, x) : x \in D \ {n}} = {BlockEnd(h, x) : x \in D} \ {n}
        <5>1. \A x \in D \ {n} : BlockEnd(g, x) \in {BlockEnd(h, y) : y \in D} \ {n}
          <6> TAKE x \in D \ {n}
          <6>1. CASE x = b
            BY <2>2, <2>9, <6>1 DEF BlockEnd
          <6>2. CASE x # b
            BY <2>9, <4>2, <6>2
          <6> QED
            BY <6>1, <6>2
        <5>2. \A y \in D : BlockEnd(h, y) # n => \E x \in D \ {n} : BlockEnd(g, x) = BlockEnd(h, y)
          <6> TAKE y \in D
          <6>1. CASE y = n
            BY <2>2, <2>3, <2>9, <6>1
          <6>2. CASE y = b
            BY <2>15, <6>2
          <6>3. CASE y # n /\ y # b
            BY <2>9, <6>3
          <6> QED
            BY <6>1, <6>2, <6>3
        <5> QED
          BY <5>1, <5>2
      <4> QED
        BY <2>5, <2>7, <2>10, <4>1, <4>3, <4>4
    <3> QED
      BY <2>5, <3>1, <3>2, <3>3 DEF Blocks
  <2>17. Loose(g, S \ {i})
    <3> SUFFICES ASSUME NEW j \in 1 .. Len(g.free), NEW k \in 1 .. Len(g.free), j < k
                 PROVE  /\ BlockEnd(g, g.free[j]) <= g.free[k]
                        /\ BlockEnd(g, g.free[j]) = g.free[k] => k = j + 1 /\ j \in S \ {i}
      BY DEF Loose
    <3> DEFINE jj == IF j < i + 1 THEN j ELSE j + 1
               kk == IF k < i + 1 THEN k ELSE k + 1
    <3>1. jj \in 1 .. Len(h.free) /\ kk \in 1 .. Len(h.free) /\ jj < kk
          /\ g.free[j] = h.free[jj] /\ g.free[k] = h.free[kk]
      BY <2>1, <2>11
    <3>2. h.free[jj] \in D /\ h.free[kk] \in D /\ h.free[jj] # n
      BY <2>1, <2>13, <3>1
    <3>3. CASE j = i
      <4>1. g.free[j] = b /\ kk > i + 1
        BY <2>1, <2>11, <3>1, <3>3 DEF b
      <4>2. BlockEnd(h, n) <= h.free[kk]
            /\ (BlockEnd(h, n) = h.free[kk] => i + 1 \in S)
        BY <2>1, <3>1, <4>1 DEF Loose, n
      <4>3. BlockEnd(g, g.free[j]) = BlockEnd(h, n)
        BY <2>9, <4>1
      <4> QED
        BY <3>1, <4>2, <4>3
    <3>4. CASE j # i
      <4>1. jj # i /\ jj # i + 1
        BY <3>4
      <4>2. h.free[jj] # b
        <5> HIDE DEF jj
        <5>1. jj < i \/ i < jj
          BY <3>1, <4>1
        <5>2. h.free[jj] \in Nat /\ b = h.free[i]
          BY <2>10, <3>2 DEF b
        <5> QED
          BY SMTT(30), <2>1, <2>2, <2>12, <3>1, <5>1, <5>2
      <4>3. BlockEnd(g, g.free[j]) = BlockEnd(h, h.free[jj])
        BY <2>9, <3>1, <3>2, <4>2
      <4>4. BlockEnd(h, h.free[jj]) <= h.free[kk]
            /\ (BlockEnd(h, h.free[jj]) = h.free[kk] => kk = jj + 1 /\ jj \in S)
        BY <3>1 DEF Loose
      <4>5. jj \in S => j < i /\ jj = j
        BY <3>4
      <4> QED
        BY <3>1, <3>4, <4>3, <4>4, <4>5
    <3> QED
      BY <3>3, <3>4
  <2>18. InUse(g) = InUse(h)
    <3>1. Range(g.free) = Range(h.free) \ {n}
      <4>1. ASSUME NEW j \in 1 .. Len(g.free) PROVE g.free[j] \in Range(h.free) \ {n}
        <5>1. \E jj \in 1 .. Len(h.free) : g.free[j] = h.free[jj]
          BY <2>1, <2>11, <4>1
        <5>2. g.free[j] # n
          BY <2>13, <4>1
        <5>3. DOMAIN h.free = 1 .. Len(h.free)
          BY <2>1
        <5> QED
          BY <5>1, <5>2, <5>3 DEF Range
      <4>2. ASSUME NEW j \in 1 .. Len(h.free), h.free[j] # n
            PROVE  \E k \in 1 .. Len(g.free) : g.free[k] = h.free[j]
        <5>0. j # i + 1
          BY <4>2 DEF n
        <5>1. CASE j < i + 1
          BY SMTT(30), <2>1, <2>11, <5>1
        <5>2. CASE j > i + 1
          <6>1. j - 1 \in 1 .. Len(g.free) /\ g.free[j - 1] = h.free[j]
            BY <2>1, <2>11, <5>2
          <6> QED
            BY <6>1
        <5> QED
          BY <2>1, <5>0, <5>1, <5>2
      <4>3. DOMAIN g.free = 1 .. Len(g.free) /\ DOMAIN h.free = 1 .. Len(h.free)
        BY <2>1, <2>11
      <4>4. \A x \in Range(g.free) : x \in Range(h.free) \ {n}
        BY <4>1, <4>3 DEF Range
      <4>5. \A x \in Range(h.free) \ {n} : x \in Range(g.free)
        BY <4>2, <4>3 DEF Range
      <4> QED
        BY <4>4, <4>5
    <3>2. n \in Range(h.free)
      BY <2>1 DEF Range, n
    <3> QED
      BY <2>7, <3>1, <3>2 DEF InUse, D
  <2>19. SameBlocks(g, h, InUse(h))
    <3>1. b \in Range(h.free) /\ n \in Range(h.free)
      BY <2>1 DEF Range, n, b
    <3> QED
      BY <2>7, <3>1 DEF SameBlocks, InUse, D
  <2> QED
    BY <2>5, <2>14, <2>16, <2>17, <2>18, <2>19 DEF Ends, g
<1> QED
  BY <1>1, <1>2

-----------------------------------------------------------------------------
(* The operations of the page allocator                                    *)

\* The words of a heap are numbers, and its free list is of its blocks.
LEMMA BookFacts ==
  ASSUME NEW h, IsHeap(h)
  PROVE  /\ HeapBase \in Nat /\ Len(h.free) \in Nat /\ h.free \in Seq(DOMAIN h.cap)
         /\ h.cap \in [DOMAIN h.cap -> Nat] /\ DOMAIN h.cap \subseteq Nat
         /\ IsFiniteSet(DOMAIN h.cap) /\ h.end \in Nat /\ h.pages \in Nat /\ h.used \in Nat
         /\ h.data = [x \in DOMAIN h.data |-> h.data[x]]
         /\ \A j \in 1 .. Len(h.free) : h.free[j] \in DOMAIN h.cap /\ h.free[j] \in Nat
         /\ DOMAIN h.free = 1 .. Len(h.free)
<1>1. /\ HeapBase \in Nat /\ Len(h.free) \in Nat /\ h.free \in Seq(DOMAIN h.cap)
      /\ h.cap \in [DOMAIN h.cap -> Nat] /\ DOMAIN h.cap \subseteq Nat
      /\ IsFiniteSet(DOMAIN h.cap) /\ h.end \in Nat /\ h.pages \in Nat /\ h.used \in Nat
      /\ h.data = [x \in DOMAIN h.data |-> h.data[x]]
  BY HeapAssumption DEF IsHeap
<1>2. \A j \in 1 .. Len(h.free) : h.free[j] \in DOMAIN h.cap
  BY <1>1
<1> QED
  BY <1>1, <1>2

\* What changes no block changes nothing in the book.
LEMMA BookSame ==
  \A g, h :
    /\ Book(h) /\ IsHeap(g)
    /\ g.end = h.end /\ g.pages = h.pages /\ g.free = h.free /\ g.cap = h.cap
    => Book(g) /\ InUse(g) = InUse(h) /\ SameBlocks(g, h, InUse(h))
  BY DEF Book, Blocks, Ends, Loose, BlockEnd, InUse, SameBlocks

\* Of two blocks on the free list the earlier has the lower address.
LEMMA FreeInOrder ==
  ASSUME NEW h, Book(h), NEW j \in 1 .. Len(h.free), NEW k \in 1 .. Len(h.free), j < k
  PROVE  h.free[j] < h.free[k]
<1>1. h.free[j] \in Nat /\ h.free[k] \in Nat /\ h.cap[h.free[j]] \in Nat
  BY BookFacts DEF Book
<1> QED
  BY SMTT(30), <1>1 DEF Book, Loose, BlockEnd, HeaderSize

PageFreed(g, h, p) ==
  /\ Book(g) /\ InUse(g) = InUse(h) \ {p - HeaderSize} /\ SameBlocks(g, h, InUse(g))
  /\ g.data = Drop(h.data, p) /\ g.used = h.used

\* A block is filed by its address and taken in with the neighbours it touches.
LEMMA PageFree ==
  ASSUME NEW h, Book(h), NEW p \in Nat, p # 0, p - HeaderSize \in InUse(h)
  PROVE  PageFreed(page_free(h, p), h, p)
<1> USE DEF HeaderSize
<1> DEFINE block == p - 8
           i == page_free_position(h, block)
           f == InsertAt(h.free, i, block)
           d == Drop(h.data, p)
           g == [h EXCEPT !.free = f, !.data = d]
           D == DOMAIN h.cap
<1>1. /\ Len(h.free) \in Nat /\ h.free \in Seq(D) /\ h.cap \in [D -> Nat] /\ D \subseteq Nat
      /\ DOMAIN h.free = 1 .. Len(h.free)
      /\ \A j \in 1 .. Len(h.free) : h.free[j] \in D /\ h.free[j] \in Nat
  BY BookFacts DEF Book
<1>2. block \in D /\ block \in Nat /\ \A j \in 1 .. Len(h.free) : h.free[j] # block
  BY <1>1 DEF InUse, Range
<1> HIDE DEF block, D
<1>3. /\ i \in 1 .. Len(h.free) + 1
      /\ \A j \in 1 .. Len(h.free) : (j < i => h.free[j] < block) /\ (j >= i => block < h.free[j])
  <2> DEFINE higher == {j \in DOMAIN h.free : h.free[j] > block}
  <2>1. i = IF higher = {} THEN Len(h.free) + 1 ELSE Min(higher)
    BY DEF page_free_position
  <2>2. CASE higher = {}
    BY <1>1, <1>2, <2>1, <2>2
  <2>3. CASE higher # {}
    <3>1. higher \subseteq Nat
      BY <1>1
    <3> HIDE DEF higher, i
    <3>2. i \in higher /\ \A j \in higher : i <= j
      BY <2>1, <2>3, <3>1, MinLeast
    <3>3. i \in 1 .. Len(h.free) /\ h.free[i] > block
          /\ \A j \in 1 .. Len(h.free) : j < i => ~(h.free[j] > block)
      BY <1>1, <3>2 DEF higher
    <3>4. \A j \in 1 .. Len(h.free) : i < j => h.free[i] < h.free[j]
      BY <3>3, FreeInOrder
    <3> QED
      BY SMTT(30), <1>1, <1>2, <3>3, <3>4
  <2> QED
    BY <2>2, <2>3
<1> HIDE DEF i, f, d, g
<1>4. Len(f) = Len(h.free) + 1 /\ f \in Seq(D) /\ DOMAIN f = 1 .. Len(f)
      /\ \A j \in 1 .. Len(h.free) + 1 :
           f[j] = IF j < i THEN h.free[j] ELSE IF j = i THEN block ELSE h.free[j - 1]
  <2>1. Len(f) = Len(h.free) + 1 /\ f \in Seq(D)
        /\ \A j \in 1 .. Len(h.free) + 1 :
             f[j] = IF j < i THEN h.free[j] ELSE IF j = i THEN block ELSE h.free[j - 1]
    <3> DEFINE s == h.free
    <3>1. s \in Seq(D) /\ i \in 1 .. Len(s) + 1 /\ block \in D
      BY <1>1, <1>2, <1>3
    <3>2. f = InsertAt(s, i, block)
      BY DEF f
    <3> HIDE DEF s
    <3>3. Len(f) = Len(s) + 1 /\ f \in Seq(D)
          /\ \A j \in 1 .. Len(s) + 1 :
               f[j] = IF j < i THEN s[j] ELSE IF j = i THEN block ELSE s[j - 1]
      <4>1. \A q \in Seq(D) : \A m \in 1 .. Len(q) + 1 : \A x \in D :
              /\ InsertAt(q, m, x) \in Seq(D)
              /\ Len(InsertAt(q, m, x)) = Len(q) + 1
              /\ \A j \in 1 .. Len(q) + 1 :
                   InsertAt(q, m, x)[j] = IF j < m THEN q[j] ELSE IF j = m THEN x ELSE q[j - 1]
        BY InsertAtIs
      <4> QED
        BY SMTT(30), <3>1, <3>2, <4>1
    <3> QED
      BY <3>3 DEF s
  <2> QED
    BY <1>1, <2>1
<1>5. d = [x \in DOMAIN h.data \ {p} |-> h.data[x]]
  BY DEF Drop, d
<1>6. g.free = f /\ g.data = d /\ g.end = h.end /\ g.pages = h.pages /\ g.cap = h.cap
      /\ g.used = h.used
  BY DEF Book, IsHeap, g
<1>7. IsHeap(g)
  <2>1. g \in [end : Nat, pages : Nat, free : Seq(D), cap : [D -> Nat], used : Nat, data : {d}]
    BY <1>4 DEF Book, IsHeap, D, g
  <2>2. IsFiniteSet(D) /\ D \subseteq Nat
    BY DEF Book, IsHeap, D
  <2> QED
    BY <1>5, <1>6, <2>1, <2>2 DEF IsHeap, D
<1>8. Blocks(g) /\ Ends(g)
  BY <1>6 DEF Book, Blocks, Ends, BlockEnd
<1>9. /\ \A x, y \in D : x < y => BlockEnd(h, x) <= y
      /\ \A x \in D : x \in Nat /\ BlockEnd(h, x) \in Nat
  <2>1. \A x \in D : x \in Nat /\ BlockEnd(h, x) \in Nat
    <3>1. \A x \in D : x \in Nat /\ h.cap[x] \in Nat
      BY <1>1
    <3> QED
      BY <3>1 DEF BlockEnd
  <2> QED
    BY <2>1 DEF Book, Blocks, D
<1>10. Loose(g, {i, i - 1})
  <2> SUFFICES ASSUME NEW j \in 1 .. Len(f), NEW k \in 1 .. Len(f), j < k
               PROVE  /\ BlockEnd(h, f[j]) <= f[k]
                      /\ BlockEnd(h, f[j]) = f[k] => k = j + 1 /\ j \in {i, i - 1}
    BY <1>6 DEF Loose, BlockEnd
  <2>1. CASE j # i /\ k # i
    <3> DEFINE jj == IF j < i THEN j ELSE j - 1
               kk == IF k < i THEN k ELSE k - 1
    <3>0. j \in Nat /\ k \in Nat /\ i \in Nat
      BY <1>1, <1>3, <1>4
    <3>1. jj \in 1 .. Len(h.free) /\ kk \in 1 .. Len(h.free) /\ jj < kk
          /\ f[j] = h.free[jj] /\ f[k] = h.free[kk]
      <4>1. jj \in 1 .. Len(h.free) /\ f[j] = h.free[jj]
        BY <1>1, <1>3, <1>4, <2>1, <3>0
      <4>2. kk \in 1 .. Len(h.free) /\ f[k] = h.free[kk]
        BY <1>1, <1>3, <1>4, <2>1, <3>0
      <4>3. jj < kk
        BY <2>1, <3>0
      <4> QED
        BY <4>1, <4>2, <4>3
    <3> HIDE DEF jj, kk
    <3>2. BlockEnd(h, h.free[jj]) <= h.free[kk] /\ BlockEnd(h, h.free[jj]) # h.free[kk]
      BY <3>1 DEF Book, Loose
    <3> QED
      BY <3>1, <3>2
  <2>2. CASE j = i
    <3>1. f[j] = block /\ f[k] = h.free[k - 1] /\ k - 1 \in 1 .. Len(h.free) /\ k - 1 >= i
      BY <1>1, <1>3, <1>4, <2>2
    <3>2. block < f[k] /\ f[k] \in D
      BY <1>1, <1>3, <3>1
    <3>3. BlockEnd(h, block) <= f[k]
      BY <1>2, <1>9, <3>2
    <3>4. k = i + 1 \/ BlockEnd(h, block) < f[k]
      <4> SUFFICES ASSUME k # i + 1 PROVE BlockEnd(h, block) < f[k]
        OBVIOUS
      <4>1. i \in 1 .. Len(h.free) /\ i < k - 1 /\ k - 1 \in 1 .. Len(h.free)
        BY SMTT(30), <1>1, <1>3, <2>2, <3>1
      <4>2. h.free[i] < h.free[k - 1] /\ h.free[i] \in D /\ block < h.free[i]
        BY <1>1, <1>3, <4>1, FreeInOrder
      <4>3. BlockEnd(h, block) <= h.free[i]
        BY <1>2, <1>9, <4>2
      <4>4. BlockEnd(h, block) \in Nat /\ h.free[i] \in Nat /\ h.free[k - 1] \in Nat
        BY <1>1, <1>2, <1>9, <4>1, <4>2
      <4> QED
        BY <3>1, <4>2, <4>3, <4>4
    <3>5. BlockEnd(h, block) \in Nat /\ f[k] \in Nat
      BY SMTT(30), <1>1, <1>2, <3>1 DEF BlockEnd
    <3> QED
      BY <2>2, <3>1, <3>3, <3>4, <3>5
  <2>3. CASE k = i
    <3>1. f[k] = block /\ f[j] = h.free[j] /\ j \in 1 .. Len(h.free) /\ j < i
      BY <1>1, <1>3, <1>4, <2>3
    <3>2. f[j] < block /\ f[j] \in D
      BY <1>1, <1>3, <3>1
    <3>3. BlockEnd(h, f[j]) <= block
      BY <1>2, <1>9, <3>2
    <3>4. j = i - 1 \/ BlockEnd(h, f[j]) < block
      <4> SUFFICES ASSUME j # i - 1 PROVE BlockEnd(h, f[j]) < block
        OBVIOUS
      <4>1. i - 1 \in 1 .. Len(h.free) /\ j < i - 1
        BY <1>1, <1>3, <3>1
      <4>2. BlockEnd(h, h.free[j]) <= h.free[i - 1] /\ h.free[i - 1] < block
        BY <1>3, <3>1, <4>1 DEF Book, Loose
      <4>3. BlockEnd(h, f[j]) \in Nat /\ h.free[i - 1] \in Nat
        BY <1>1, <1>9, <3>2, <4>1
      <4> QED
        BY <1>2, <3>1, <4>2, <4>3
    <3>5. BlockEnd(h, f[j]) \in Nat
      BY <1>1, <3>1 DEF BlockEnd
    <3> QED
      BY <1>2, <1>3, <2>3, <3>1, <3>3, <3>4, <3>5
  <2> QED
    BY <2>1, <2>2, <2>3
<1>11. InUse(g) = InUse(h) \ {block}
  <2>1. \A x \in Range(f) : x \in Range(h.free) \cup {block}
    <3> SUFFICES ASSUME NEW j \in 1 .. Len(f) PROVE f[j] \in Range(h.free) \cup {block}
      BY <1>4 DEF Range
    <3>1. f[j] = block \/ \E k \in 1 .. Len(h.free) : f[j] = h.free[k]
      BY <1>1, <1>3, <1>4
    <3> QED
      BY <1>1, <3>1 DEF Range
  <2>2. block \in Range(f)
    <3>1. i \in DOMAIN f /\ f[i] = block
      BY <1>1, <1>3, <1>4
    <3> QED
      BY <3>1 DEF Range
  <2>3. \A x \in Range(h.free) : x \in Range(f)
    <3> SUFFICES ASSUME NEW j \in 1 .. Len(h.free) PROVE h.free[j] \in Range(f)
      BY <1>1 DEF Range
    <3>1. \E k \in 1 .. Len(f) : f[k] = h.free[j]
      <4>1. CASE j < i
        BY SMTT(30), <1>1, <1>3, <1>4, <4>1
      <4>2. CASE ~(j < i)
        <5>1. j + 1 \in 1 .. Len(f) /\ f[j + 1] = h.free[j]
          <6>1. j + 1 \in 1 .. Len(h.free) + 1 /\ ~(j + 1 < i) /\ j + 1 # i /\ (j + 1) - 1 = j
            BY <1>1, <1>3, <4>2
          <6> QED
            BY <1>4, <6>1
        <5> QED
          BY <5>1
      <4> QED
        BY <4>1, <4>2
    <3> QED
      BY <1>4, <3>1 DEF Range
  <2> QED
    BY <1>6, <2>1, <2>2, <2>3 DEF InUse
<1> DEFINE S == {i, i - 1}
           g1 == Coalesce(g, i)
           g2 == Coalesce(g1, i - 1)
<1>12. /\ IsHeap(g1) /\ Blocks(g1) /\ Ends(g1) /\ Loose(g1, S \ {i})
       /\ InUse(g1) = InUse(g) /\ SameBlocks(g1, g, InUse(g))
       /\ g1.data = g.data /\ g1.used = g.used
  <2>1. i \in Nat /\ \A s \in S : s \in Nat /\ s <= i
    BY <1>3
  <2>2. Loose(g, S)
    BY <1>10
  <2> HIDE DEF S, g1
  <2>3. LET g1_ == Coalesce(g, i)
        IN  /\ IsHeap(g1_) /\ Blocks(g1_) /\ Ends(g1_) /\ Loose(g1_, S \ {i})
            /\ InUse(g1_) = InUse(g) /\ SameBlocks(g1_, g, InUse(g))
            /\ g1_.data = g.data /\ g1_.used = g.used
    BY <1>7, <1>8, <2>1, <2>2, CoalesceKeeps
  <2> QED
    BY <2>3 DEF g1
<1> HIDE DEF g1
<1>13. /\ IsHeap(g2) /\ Blocks(g2) /\ Ends(g2) /\ Loose(g2, (S \ {i}) \ {i - 1})
       /\ InUse(g2) = InUse(g1) /\ SameBlocks(g2, g1, InUse(g1))
       /\ g2.data = g1.data /\ g2.used = g1.used
  <2>1. i - 1 \in Nat /\ \A s \in S \ {i} : s \in Nat /\ s <= i - 1
    BY <1>3
  <2> HIDE DEF S, g2
  <2>2. LET g2_ == Coalesce(g1, i - 1)
        IN  /\ IsHeap(g2_) /\ Blocks(g2_) /\ Ends(g2_) /\ Loose(g2_, (S \ {i}) \ {i - 1})
            /\ InUse(g2_) = InUse(g1) /\ SameBlocks(g2_, g1, InUse(g1))
            /\ g2_.data = g1.data /\ g2_.used = g1.used
    BY <1>12, <2>1, CoalesceKeeps
  <2> QED
    BY <2>2 DEF g2
<1>14. page_free(h, p) = g2
  BY DEF page_free, g2, g1, g, f, d, i, block
<1> HIDE DEF g2
<1>15. (S \ {i}) \ {i - 1} = {}
  OBVIOUS
<1>16. SameBlocks(g2, h, InUse(g2))
  BY <1>6, <1>12, <1>13 DEF SameBlocks
<1>17. Book(g2)
  BY <1>13, <1>15 DEF Book
<1> QED
  BY <1>6, <1>11, <1>12, <1>13, <1>14, <1>16, <1>17 DEF PageFreed, block, d

\* The heap g is the heap h with one more block in use, that of the address p.
PageTaken(g, h, p, need) ==
  /\ Book(g) /\ p \in Nat /\ HeapBase + HeaderSize <= p
  /\ p - HeaderSize \notin InUse(h) /\ InUse(g) = InUse(h) \cup {p - HeaderSize}
  /\ SameBlocks(g, h, InUse(h)) /\ need <= g.cap[p - HeaderSize]
  /\ g.used = h.used

PageGot(g, h, p, size) == PageTaken(g, h, p, size) /\ g.data = Put(h.data, p, <<>>)

\* A block taken for an allocation becomes the empty block the caller is given.
LEMMA Filled ==
  ASSUME NEW h, NEW g, NEW p, NEW need, PageTaken(g, h, p, need), g.data = h.data
  PROVE  Allocated(g, p).p = p /\ PageGot(Allocated(g, p).h, h, p, need)
<1> DEFINE d == Put(g.data, p, <<>>)
           a == [g EXCEPT !.data = d]
<1>1. Allocated(g, p).p = p /\ Allocated(g, p).h = a
  BY DEF Allocated
<1>2. d = [x \in DOMAIN d |-> d[x]]
  BY DEF Put
<1>3. d = Put(h.data, p, <<>>)
  OBVIOUS
<1> HIDE DEF d
<1>4. /\ a.data = d /\ a.end = g.end /\ a.pages = g.pages /\ a.free = g.free /\ a.cap = g.cap
      /\ a.used = g.used
      /\ a \in [end : Nat, pages : Nat, free : Seq(DOMAIN g.cap), cap : [DOMAIN g.cap -> Nat],
                used : Nat, data : {d}]
  BY DEF PageTaken, Book, IsHeap
<1> HIDE DEF a
<1>5. IsFiniteSet(DOMAIN g.cap) /\ DOMAIN g.cap \subseteq Nat
  BY DEF PageTaken, Book, IsHeap
<1>6. IsHeap(a)
  BY <1>2, <1>4, <1>5 DEF IsHeap
<1>7. Book(a) /\ InUse(a) = InUse(g)
  BY <1>4, <1>6, BookSame DEF PageTaken
<1>8. PageTaken(a, h, p, need)
  BY <1>4, <1>7 DEF PageTaken, SameBlocks
<1> QED
  BY <1>1, <1>3, <1>4, <1>8 DEF PageGot

\* A free block is handed out as it is.
LEMMA TakeWhole ==
  ASSUME NEW h, Book(h), NEW i \in 1 .. Len(h.free), NEW need \in Nat,
         need <= h.cap[h.free[i]]
  PROVE  LET g == [h EXCEPT !.free = RemoveAt(@, i)]
         IN  PageTaken(g, h, h.free[i] + HeaderSize, need) /\ g.data = h.data
<1> USE DEF HeaderSize
<1> DEFINE f == RemoveAt(h.free, i)
           g == [h EXCEPT !.free = f]
           block == h.free[i]
           D == DOMAIN h.cap
<1>1. /\ Len(h.free) \in Nat /\ h.free \in Seq(D) /\ h.cap \in [D -> Nat] /\ D \subseteq Nat
      /\ DOMAIN h.free = 1 .. Len(h.free)
      /\ \A j \in 1 .. Len(h.free) : h.free[j] \in D /\ h.free[j] \in Nat
  BY BookFacts DEF Book
<1> HIDE DEF f, D, block, g
<1>2. block \in D /\ block \in Nat /\ block = h.free[i]
  BY <1>1 DEF block
<1>3. Len(f) = Len(h.free) - 1 /\ f \in Seq(D)
      /\ \A j \in 1 .. Len(h.free) - 1 : f[j] = IF j < i THEN h.free[j] ELSE h.free[j + 1]
  BY <1>1, RemoveAtIs DEF f
<1>4. DOMAIN f = 1 .. Len(f)
  BY <1>1, <1>3
<1>5. g.free = f /\ g.data = h.data /\ g.end = h.end /\ g.pages = h.pages /\ g.cap = h.cap
      /\ g.used = h.used
      /\ g \in [end : Nat, pages : Nat, free : Seq(D), cap : [D -> Nat], used : Nat,
                data : {h.data}]
  BY <1>3 DEF Book, IsHeap, g, D
<1>6. IsHeap(g)
  <2>1. IsFiniteSet(D) /\ D \subseteq Nat /\ h.data = [x \in DOMAIN h.data |-> h.data[x]]
    BY DEF Book, IsHeap, D
  <2> QED
    BY <1>5, <2>1 DEF IsHeap, D
<1>7. Blocks(g) /\ Ends(g)
  BY <1>5 DEF Book, Blocks, Ends, BlockEnd
<1>8. \A j \in 1 .. Len(f) : \E k \in 1 .. Len(h.free) :
        f[j] = h.free[k] /\ k = (IF j < i THEN j ELSE j + 1)
  <2> TAKE j \in 1 .. Len(f)
  <2> DEFINE jj == IF j < i THEN j ELSE j + 1
  <2>1. jj \in 1 .. Len(h.free) /\ f[j] = h.free[jj]
    BY <1>1, <1>3
  <2> QED
    BY <2>1
<1>9. Loose(g, {})
  <2> SUFFICES ASSUME NEW j \in 1 .. Len(f), NEW k \in 1 .. Len(f), j < k
               PROVE  BlockEnd(h, f[j]) <= f[k] /\ BlockEnd(h, f[j]) # f[k]
    BY <1>5 DEF Loose, BlockEnd
  <2> DEFINE jj == IF j < i THEN j ELSE j + 1
             kk == IF k < i THEN k ELSE k + 1
  <2>1. jj \in 1 .. Len(h.free) /\ kk \in 1 .. Len(h.free) /\ jj < kk
        /\ f[j] = h.free[jj] /\ f[k] = h.free[kk]
    BY SMTT(30), <1>8
  <2> HIDE DEF jj, kk
  <2> QED
    BY <2>1 DEF Book, Loose
<1>10. Range(f) = Range(h.free) \ {block}
  <2>1. ASSUME NEW j \in 1 .. Len(f) PROVE f[j] \in Range(h.free) /\ f[j] # block
    <3>1. PICK k \in 1 .. Len(h.free) : f[j] = h.free[k] /\ k = (IF j < i THEN j ELSE j + 1)
      BY <1>8
    <3>2. k < i \/ i < k
      BY <3>1
    <3>3. h.free[k] # h.free[i]
      BY <1>1, <3>2, FreeInOrder
    <3> QED
      BY <1>1, <1>2, <3>1, <3>3 DEF Range
  <2>2. ASSUME NEW j \in 1 .. Len(h.free), h.free[j] # block
        PROVE  \E k \in 1 .. Len(f) : f[k] = h.free[j]
    <3>1. j # i
      BY <1>2, <2>2
    <3>2. CASE j < i
      BY <1>1, <1>3, <3>2
    <3>3. CASE j > i
      <4>1. j - 1 \in 1 .. Len(h.free) - 1 /\ ~(j - 1 < i) /\ (j - 1) + 1 = j
        BY <1>1, <3>3
      <4> QED
        BY <1>3, <4>1
    <3> QED
      BY <3>1, <3>2, <3>3
  <2>3. \A x \in Range(f) : x \in Range(h.free) \ {block}
    BY <1>4, <2>1 DEF Range
  <2>4. \A x \in Range(h.free) \ {block} : x \in Range(f)
    BY <1>1, <1>4, <2>2 DEF Range
  <2> QED
    BY <2>3, <2>4
<1>11. block \in Range(h.free)
  BY <1>1, <1>2 DEF Range
<1>12. InUse(g) = InUse(h) \cup {block} /\ block \notin InUse(h)
  BY <1>2, <1>5, <1>10, <1>11 DEF InUse, D
<1>13. block + 8 \in Nat /\ HeapBase + 8 <= block + 8 /\ (block + 8) - 8 = block
  <2>1. HeapBase <= block /\ HeapBase \in Nat
    BY <1>2, HeapAssumption DEF Book, Blocks, D
  <2> QED
    BY <1>2, <2>1
<1>14. PageTaken(g, h, block + 8, need)
  BY <1>2, <1>5, <1>6, <1>7, <1>9, <1>12, <1>13 DEF PageTaken, Book, SameBlocks
<1> QED
  BY <1>5, <1>14 DEF g, f, block

\* A free block is cut in two, and the front is handed out.
LEMMA TakeFront ==
  ASSUME NEW h, Book(h), NEW i \in 1 .. Len(h.free), NEW need \in Nat,
         need % 8 = 0, need >= 8, need + SplitMinimum <= h.cap[h.free[i]]
  PROVE  LET block == h.free[i]
             split == block + HeaderSize + need
             rest == h.cap[block] - need - HeaderSize
             g == [h EXCEPT !.free[i] = split,
                            !.cap = Put([@ EXCEPT ![block] = need], split, rest)]
         IN  PageTaken(g, h, block + HeaderSize, need) /\ g.data = h.data
<1> USE DEF HeaderSize, SplitMinimum
<1> DEFINE block == h.free[i]
           split == block + 8 + need
           rest == h.cap[block] - need - 8
           f == [h.free EXCEPT ![i] = split]
           c == Put([h.cap EXCEPT ![block] = need], split, rest)
           g == [h EXCEPT !.free = f, !.cap = c]
           D == DOMAIN h.cap
<1>1. /\ Len(h.free) \in Nat /\ h.free \in Seq(D) /\ h.cap \in [D -> Nat] /\ D \subseteq Nat
      /\ DOMAIN h.free = 1 .. Len(h.free) /\ IsFiniteSet(D)
      /\ \A j \in 1 .. Len(h.free) : h.free[j] \in D /\ h.free[j] \in Nat
  BY BookFacts DEF Book
<1> HIDE DEF D, g, f, c, rest, split, block
<1>2. block \in D /\ block \in Nat /\ block = h.free[i] /\ h.cap[block] \in Nat
      /\ need + 16 <= h.cap[block] /\ h.cap[block] % 8 = 0 /\ block % 8 = 0
  <2>1. block \in D /\ block = h.free[i]
    BY <1>1 DEF block
  <2> QED
    BY <1>1, <2>1 DEF Book, Blocks, D, block
<1>3. /\ split = block + 8 + need /\ split \in Nat /\ block < split
      /\ rest = h.cap[block] - need - 8 /\ rest \in Nat /\ rest >= 8
      /\ split + 8 + rest = BlockEnd(h, block)
      /\ split % 8 = 0 /\ rest % 8 = 0
  <2>1. split = block + 8 + need /\ rest = h.cap[block] - need - 8
    BY DEF split, rest
  <2>2. PICK c0 \in Nat : c0 = h.cap[block]
    BY <1>2
  <2>3. need % 8 = 0 /\ block % 8 = 0 /\ c0 % 8 = 0 /\ need + 16 <= c0 /\ block \in Nat
    BY <1>2, <2>2
  <2>4. /\ block + 8 + need \in Nat /\ block < block + 8 + need /\ (block + 8 + need) % 8 = 0
        /\ c0 - need - 8 \in Nat /\ c0 - need - 8 >= 8 /\ (c0 - need - 8) % 8 = 0
        /\ (block + 8 + need) + 8 + (c0 - need - 8) = block + 8 + c0
    BY <2>3, SplitSums
  <2> QED
    BY <2>1, <2>2, <2>4 DEF BlockEnd
<1>3a. block \in Nat /\ split \in Nat /\ block < split /\ BlockEnd(h, block) \in Nat
       /\ split <= BlockEnd(h, block)
  <2>1. block \in Nat /\ split \in Nat /\ rest \in Nat /\ block < split
    BY <1>2, <1>3
  <2>2. BlockEnd(h, block) = split + 8 + rest
    BY <1>3
  <2> QED
    BY <2>1, <2>2
<1>4. /\ \A x, y \in D : x < y => BlockEnd(h, x) <= y
      /\ \A x \in D : x \in Nat /\ BlockEnd(h, x) \in Nat /\ x < BlockEnd(h, x)
  <2>1. \A x \in D : x \in Nat /\ h.cap[x] \in Nat
    BY <1>1
  <2>2. \A x \in D : BlockEnd(h, x) \in Nat /\ x < BlockEnd(h, x)
    BY <2>1 DEF BlockEnd
  <2> QED
    BY <2>1, <2>2 DEF Book, Blocks, D
<1>5. split \notin D
  <2> SUFFICES ASSUME split \in D PROVE FALSE
    OBVIOUS
  <2>1. BlockEnd(h, block) <= split
    BY <1>2, <1>3, <1>4
  <2> QED
    BY <1>3, <2>1
<1>6. c = [x \in D \cup {split} |-> IF x = split THEN rest ELSE IF x = block THEN need ELSE h.cap[x]]
  BY <1>1, <1>2, <1>3, <1>5 DEF Put, c
<1>7. DOMAIN c = D \cup {split} /\ c[split] = rest /\ c[block] = need
      /\ \A x \in D \ {block} : c[x] = h.cap[x]
  BY <1>2, <1>3, <1>5, <1>6
<1>8. f \in Seq(D \cup {split}) /\ Len(f) = Len(h.free) /\ DOMAIN f = 1 .. Len(f)
      /\ f[i] = split /\ \A j \in 1 .. Len(f) : j # i => f[j] = h.free[j]
  <2>1. h.free \in Seq(D \cup {split}) /\ split \in D \cup {split}
    BY <1>1
  <2> QED
    BY <1>1, <2>1 DEF f
<1>9. g.free = f /\ g.cap = c /\ g.data = h.data /\ g.end = h.end /\ g.pages = h.pages
      /\ g.used = h.used
      /\ g \in [end : Nat, pages : Nat, free : Seq(D \cup {split}), cap : [D \cup {split} -> Nat],
                used : Nat, data : {h.data}]
  <2>1. c \in [D \cup {split} -> Nat]
    BY <1>1, <1>2, <1>3, <1>6
  <2> QED
    BY <1>8, <2>1 DEF Book, IsHeap, g
<1>10. IsHeap(g)
  <2>1. IsFiniteSet(D \cup {split}) /\ D \cup {split} \subseteq Nat
    BY <1>1, <1>3, FS_AddElement
  <2>2. h.data = [x \in DOMAIN h.data |-> h.data[x]]
    BY DEF Book, IsHeap
  <2> QED
    BY <1>7, <1>9, <2>1, <2>2 DEF IsHeap
<1>11. /\ BlockEnd(g, split) = BlockEnd(h, block) /\ BlockEnd(g, block) = split
       /\ \A x \in D \ {block} : BlockEnd(g, x) = BlockEnd(h, x)
  BY <1>3, <1>7, <1>9 DEF BlockEnd
<1>12. Blocks(g)
  <2>1. \A x \in D : /\ h.cap[x] >= 8 /\ h.cap[x] % 8 = 0 /\ x % 8 = 0 /\ HeapBase <= x
                     /\ BlockEnd(h, x) <= h.end
    BY DEF Book, Blocks, D
  <2>2. HeapBase \in Nat /\ h.end \in Nat
    BY BookFacts DEF Book
  <2>3. \A x \in D \cup {split} : /\ c[x] >= 8 /\ c[x] % 8 = 0 /\ x % 8 = 0 /\ HeapBase <= x
                                  /\ BlockEnd(g, x) <= h.end
    <3> TAKE x \in D \cup {split}
    <3>0. block \in D /\ HeapBase <= block /\ BlockEnd(h, block) <= h.end
          /\ BlockEnd(h, block) \in Nat /\ split <= BlockEnd(h, block)
      <4>1. block \in D /\ HeapBase <= block /\ BlockEnd(h, block) <= h.end
        BY <1>2, <2>1
      <4> QED
        BY <1>3a, <4>1
    <3>1. CASE x = split
      <4>1. c[x] = rest /\ rest >= 8 /\ rest % 8 = 0 /\ x % 8 = 0
        BY <1>3, <1>7, <3>1
      <4>2. BlockEnd(g, x) <= h.end
        BY <1>11, <3>0, <3>1
      <4>3. HeapBase <= x
        BY <1>3a, <2>2, <3>0, <3>1
      <4> QED
        BY <4>1, <4>2, <4>3
    <3>2. CASE x = block
      <4>1. BlockEnd(g, x) <= h.end
        BY <1>3, <1>11, <2>2, <3>0, <3>2
      <4>2. c[x] = need /\ x % 8 = 0 /\ HeapBase <= x
        BY <1>2, <1>7, <3>0, <3>2
      <4> QED
        BY <4>1, <4>2
    <3>3. CASE x \in D \ {block}
      BY <1>7, <1>11, <2>1, <3>3
    <3> QED
      BY <3>1, <3>2, <3>3
  <2>4. \A x, y \in D \cup {split} : x < y => BlockEnd(g, x) <= y
    <3> SUFFICES ASSUME NEW x \in D \cup {split}, NEW y \in D \cup {split}, x < y
                 PROVE  BlockEnd(g, x) <= y
      OBVIOUS
    <3>1. CASE x = split
      <4>1. y \in D /\ y \in Nat
        <5>1. y # split
          BY <1>3, <3>1
        <5> QED
          BY <1>4, <5>1
      <4>2. block < y
        BY <1>2, <1>3, <3>1, <4>1
      <4>3. BlockEnd(h, block) <= y
        BY <1>2, <1>4, <4>1, <4>2
      <4> QED
        BY <1>11, <3>1, <4>3
    <3>2. CASE x = block
      <4>1. CASE y = split
        BY <1>3, <1>11, <3>2, <4>1
      <4>2. CASE y # split
        <5>1. BlockEnd(h, block) <= y /\ y \in Nat
          BY <1>2, <1>4, <3>2, <4>2
        <5> QED
          BY <1>3, <1>11, <3>2, <5>1
      <4> QED
        BY <4>1, <4>2
    <3>3. CASE x \in D \ {block} /\ y = split
      <4>1. x < block
        <5> SUFFICES ASSUME block < x PROVE FALSE
          BY <1>2, <1>4, <3>3
        <5>1. BlockEnd(h, block) <= x
          BY <1>2, <1>4, <3>3
        <5> QED
          BY <1>3, <1>4, <3>3, <5>1
      <4>2. BlockEnd(h, x) <= block /\ BlockEnd(h, x) \in Nat
        BY <1>2, <1>4, <3>3, <4>1
      <4> QED
        BY <1>2, <1>3, <1>11, <3>3, <4>2
    <3>4. CASE x \in D \ {block} /\ y \in D
      BY <1>4, <1>11, <3>4
    <3> QED
      BY <3>1, <3>2, <3>3, <3>4
  <2>5. (D \cup {split}) \cup {h.end} = {HeapBase} \cup {BlockEnd(g, x) : x \in D \cup {split}}
    <3>1. D \cup {h.end} = {HeapBase} \cup {BlockEnd(h, x) : x \in D}
      BY DEF Book, Blocks, D
    <3>2. {BlockEnd(g, x) : x \in D \cup {split}} = {BlockEnd(h, x) : x \in D} \cup {split}
      <4>1. \A x \in D \cup {split} : BlockEnd(g, x) \in {BlockEnd(h, y) : y \in D} \cup {split}
        BY <1>2, <1>11
      <4>2. \A y \in D : \E x \in D \cup {split} : BlockEnd(g, x) = BlockEnd(h, y)
        <5> TAKE y \in D
        <5>1. CASE y = block
          BY <1>11, <5>1
        <5>2. CASE y # block
          BY <1>11, <5>2
        <5> QED
          BY <5>1, <5>2
      <4>3. \E x \in D \cup {split} : BlockEnd(g, x) = split
        BY <1>2, <1>11
      <4> QED
        BY <4>1, <4>2, <4>3
    <3> QED
      BY <3>1, <3>2
  <2>6. h.end % 8 = 0 /\ HeapBase <= h.end
    BY DEF Book, Blocks
  <2> QED
    BY <1>7, <1>9, <2>3, <2>4, <2>5, <2>6 DEF Blocks
<1>13. Loose(g, {})
  <2> SUFFICES ASSUME NEW j \in 1 .. Len(f), NEW k \in 1 .. Len(f), j < k
               PROVE  BlockEnd(g, f[j]) <= f[k] /\ BlockEnd(g, f[j]) # f[k]
    BY <1>9 DEF Loose
  <2>1. BlockEnd(h, h.free[j]) <= h.free[k] /\ BlockEnd(h, h.free[j]) # h.free[k]
    BY <1>8 DEF Book, Loose
  <2>2. h.free[j] \in D /\ h.free[k] \in D /\ h.free[j] < h.free[k]
    BY <1>1, <1>8, FreeInOrder
  <2>3. CASE j = i
    BY <1>2, <1>8, <1>11, <2>1, <2>3
  <2>4. CASE k = i
    <3>1. f[j] = h.free[j] /\ f[k] = split /\ h.free[j] < block /\ BlockEnd(h, h.free[j]) <= block
      <4>1. j # i
        BY <2>4
      <4> QED
        BY <1>2, <1>8, <2>1, <2>2, <2>4, <4>1
    <3>2. BlockEnd(g, f[j]) = BlockEnd(h, h.free[j]) /\ BlockEnd(h, h.free[j]) \in Nat
      <4>1. h.free[j] \in Nat /\ h.free[j] # block
        BY <1>2, <1>4, <2>2, <3>1
      <4>2. BlockEnd(g, h.free[j]) = BlockEnd(h, h.free[j])
        BY <1>11, <2>2, <4>1
      <4> QED
        BY <1>4, <2>2, <3>1, <4>2
    <3> QED
      BY <1>3a, <3>1, <3>2
  <2>5. CASE j # i /\ k # i
    <3>1. h.free[j] # block
      <4>1. j < i \/ i < j
        BY <2>5
      <4>2. h.free[j] < h.free[i] \/ h.free[i] < h.free[j]
        BY <1>8, <4>1, FreeInOrder
      <4> QED
        BY <1>1, <1>2, <1>8, <4>2
    <3> QED
      BY <1>8, <1>11, <2>1, <2>2, <2>5, <3>1
  <2> QED
    BY <2>3, <2>4, <2>5
<1>14. InUse(g) = InUse(h) \cup {block} /\ block \notin InUse(h)
  <2>1. block \in Range(h.free)
    BY <1>1, <1>2 DEF Range
  <2>2. \A x \in Range(f) : x = split \/ (x \in Range(h.free) /\ x # block)
    <3> SUFFICES ASSUME NEW j \in 1 .. Len(f)
                 PROVE  f[j] = split \/ (f[j] \in Range(h.free) /\ f[j] # block)
      BY <1>8 DEF Range
    <3>1. CASE j = i
      BY <1>8, <3>1
    <3>2. CASE j # i
      <4>1. h.free[j] < h.free[i] \/ h.free[i] < h.free[j]
        BY <1>8, <3>2, FreeInOrder
      <4> QED
        BY <1>1, <1>2, <1>8, <3>2, <4>1 DEF Range
    <3> QED
      BY <3>1, <3>2
  <2>3. \A x \in Range(h.free) : x # block => x \in Range(f)
    <3> SUFFICES ASSUME NEW j \in 1 .. Len(h.free), h.free[j] # block PROVE h.free[j] \in Range(f)
      BY <1>1 DEF Range
    <3>1. j # i
      BY <1>2
    <3> QED
      BY <1>8, <3>1 DEF Range
  <2>4. split \in Range(f)
    BY <1>8 DEF Range
  <2>5. InUse(g) = (D \cup {split}) \ Range(f) /\ InUse(h) = D \ Range(h.free)
    BY <1>7, <1>9 DEF InUse, D
  <2>6. block \notin Range(f)
    BY <1>2, <1>3, <2>2
  <2>7. \A x \in InUse(g) : x \in InUse(h) \cup {block}
    BY <2>3, <2>4, <2>5
  <2>8. \A x \in InUse(h) : x \in InUse(g)
    BY <1>5, <2>2, <2>5
  <2> QED
    BY <1>2, <2>1, <2>5, <2>6, <2>7, <2>8
<1>15. block + 8 \in Nat /\ HeapBase + 8 <= block + 8 /\ (block + 8) - 8 = block
  <2>1. HeapBase <= block /\ HeapBase \in Nat
    BY <1>2, HeapAssumption DEF Book, Blocks, D
  <2> QED
    BY <1>2, <2>1
<1>16. SameBlocks(g, h, InUse(h))
  BY <1>7, <1>9, <1>14 DEF SameBlocks, InUse, D
<1>17. PageTaken(g, h, block + 8, need)
  BY <1>7, <1>9, <1>10, <1>12, <1>13, <1>14, <1>15, <1>16 DEF PageTaken, Book, Ends
<1>18. g.data = h.data
  BY <1>9
<1> QED
  BY <1>17, <1>18 DEF g, f, c, block, split, rest

\* A block is cut from the end of the heap.
LEMMA TakeFresh ==
  ASSUME NEW h, Book(h), NEW need \in Nat, need % 8 = 0, need >= 8, NEW pages \in Nat,
         h.end + HeaderSize + need <= AddressLimit,
         h.end + HeaderSize + need <= pages * PageSize
  PROVE  LET g == [h EXCEPT !.end = h.end + HeaderSize + need, !.pages = pages,
                            !.cap = Put(@, h.end, need)]
         IN  PageTaken(g, h, h.end + HeaderSize, need) /\ g.data = h.data
<1> USE DEF HeaderSize
<1> DEFINE block == h.end
           end == block + 8 + need
           c == Put(h.cap, block, need)
           g == [h EXCEPT !.end = end, !.pages = pages, !.cap = c]
           D == DOMAIN h.cap
<1>1. /\ Len(h.free) \in Nat /\ h.free \in Seq(D) /\ h.cap \in [D -> Nat] /\ D \subseteq Nat
      /\ DOMAIN h.free = 1 .. Len(h.free) /\ IsFiniteSet(D) /\ h.end \in Nat
      /\ \A j \in 1 .. Len(h.free) : h.free[j] \in D /\ h.free[j] \in Nat
  BY BookFacts DEF Book
<1>2. h.end % 8 = 0 /\ HeapBase <= h.end /\ HeapBase \in Nat
  BY BookFacts DEF Book, Blocks
<1> HIDE DEF D, g, c, end, block
<1>3. block = h.end /\ block \in Nat /\ block % 8 = 0 /\ HeapBase <= block
  BY <1>1, <1>2 DEF block
<1>4. end = block + 8 + need /\ end \in Nat /\ end % 8 = 0 /\ block < end
  BY <1>3, WordSums DEF end
<1>5. HeapBase <= end /\ end <= AddressLimit /\ end <= pages * PageSize
  BY <1>2, <1>3, <1>4 DEF block, end
<1>6. /\ \A x, y \in D : x < y => BlockEnd(h, x) <= y
      /\ \A x \in D : /\ x \in Nat /\ BlockEnd(h, x) \in Nat /\ x < BlockEnd(h, x)
                      /\ BlockEnd(h, x) <= block
  <2>1. \A x \in D : x \in Nat /\ h.cap[x] \in Nat
    BY <1>1
  <2>2. \A x \in D : BlockEnd(h, x) \in Nat /\ x < BlockEnd(h, x)
    BY <2>1 DEF BlockEnd
  <2> QED
    BY <1>3, <2>1, <2>2 DEF Book, Blocks, D
<1>7. \A x \in D : x < block /\ x # block
  BY <1>3, <1>6
<1>8. c = [x \in D \cup {block} |-> IF x = block THEN need ELSE h.cap[x]]
  BY DEF Put, c, D
<1>9. DOMAIN c = D \cup {block} /\ c[block] = need /\ \A x \in D : c[x] = h.cap[x]
  BY <1>7, <1>8
<1>10. g.free = h.free /\ g.cap = c /\ g.data = h.data /\ g.end = end /\ g.pages = pages
       /\ g.used = h.used
       /\ g \in [end : Nat, pages : Nat, free : Seq(D \cup {block}),
                 cap : [D \cup {block} -> Nat], used : Nat, data : {h.data}]
  <2>1. c \in [D \cup {block} -> Nat]
    BY <1>1, <1>8
  <2>2. h.free \in Seq(D \cup {block})
    BY <1>1
  <2> QED
    BY <1>4, <2>1, <2>2 DEF Book, IsHeap, g
<1>11. IsHeap(g)
  <2>1. IsFiniteSet(D \cup {block}) /\ D \cup {block} \subseteq Nat
    BY <1>1, <1>3, FS_AddElement
  <2>2. h.data = [x \in DOMAIN h.data |-> h.data[x]]
    BY DEF Book, IsHeap
  <2> QED
    BY <1>9, <1>10, <2>1, <2>2 DEF IsHeap
<1>12. BlockEnd(g, block) = end /\ \A x \in D : BlockEnd(g, x) = BlockEnd(h, x)
  BY <1>4, <1>9, <1>10 DEF BlockEnd
<1>13. Blocks(g)
  <2>1. \A x \in D : /\ h.cap[x] >= 8 /\ h.cap[x] % 8 = 0 /\ x % 8 = 0 /\ HeapBase <= x
    BY DEF Book, Blocks, D
  <2>2. \A x \in D \cup {block} : /\ c[x] >= 8 /\ c[x] % 8 = 0 /\ x % 8 = 0 /\ HeapBase <= x
                                  /\ BlockEnd(g, x) <= end
    <3> TAKE x \in D \cup {block}
    <3>1. CASE x = block
      BY <1>3, <1>4, <1>9, <1>12, <3>1
    <3>2. CASE x \in D
      <4>1. BlockEnd(h, x) <= end
        BY <1>3, <1>4, <1>6, <3>2
      <4> QED
        BY <1>9, <1>12, <2>1, <3>2, <4>1
    <3> QED
      BY <3>1, <3>2
  <2>3. \A x, y \in D \cup {block} : x < y => BlockEnd(g, x) <= y
    <3> SUFFICES ASSUME NEW x \in D \cup {block}, NEW y \in D \cup {block}, x < y
                 PROVE  BlockEnd(g, x) <= y
      OBVIOUS
    <3>1. x \in D
      BY <1>3, <1>6, <1>7
    <3>2. BlockEnd(h, x) <= y
      BY <1>6, <3>1
    <3> QED
      BY <1>12, <3>1, <3>2
  <2>4. (D \cup {block}) \cup {end} = {HeapBase} \cup {BlockEnd(g, x) : x \in D \cup {block}}
    <3>1. D \cup {block} = {HeapBase} \cup {BlockEnd(h, x) : x \in D}
      BY DEF Book, Blocks, D, block
    <3>2. {BlockEnd(g, x) : x \in D \cup {block}} = {BlockEnd(h, x) : x \in D} \cup {end}
      BY <1>12
    <3> QED
      BY <3>1, <3>2
  <2> QED
    BY <1>4, <1>5, <1>9, <1>10, <2>2, <2>3, <2>4 DEF Blocks
<1>14. Loose(g, {})
  <2>1. \A j, k \in 1 .. Len(h.free) : j < k => /\ BlockEnd(h, h.free[j]) <= h.free[k]
                                                /\ BlockEnd(h, h.free[j]) # h.free[k]
    BY DEF Book, Loose
  <2>2. \A j \in 1 .. Len(h.free) : BlockEnd(g, h.free[j]) = BlockEnd(h, h.free[j])
    BY <1>1, <1>12
  <2> QED
    BY <1>10, <2>1, <2>2 DEF Loose
<1>15. InUse(g) = InUse(h) \cup {block} /\ block \notin InUse(h)
  <2>1. block \notin Range(h.free) /\ block \notin D
    BY <1>1, <1>7 DEF Range
  <2>2. InUse(g) = (D \cup {block}) \ Range(h.free) /\ InUse(h) = D \ Range(h.free)
    BY <1>9, <1>10 DEF InUse, D
  <2> QED
    BY <2>1, <2>2
<1>16. block + 8 \in Nat /\ HeapBase + 8 <= block + 8 /\ (block + 8) - 8 = block
  BY <1>2, <1>3
<1>17. SameBlocks(g, h, InUse(h))
  BY <1>9, <1>10 DEF SameBlocks, InUse, D
<1>18. Ends(g)
  BY <1>5, <1>10 DEF Ends
<1>19. need <= g.cap[block]
  BY <1>9, <1>10
<1>20. PageTaken(g, h, block + 8, need)
  BY <1>10, <1>11, <1>13, <1>14, <1>15, <1>16, <1>17, <1>18, <1>19 DEF PageTaken, Book
<1> QED
  BY <1>10, <1>20 DEF g, c, block, end

\* What an allocation answers: nothing, or a heap with one more block in use.
Answered(r, h, size) ==
  \/ r.p = 0 /\ r.h = h
  \/ r.p # 0 /\ PageGot(r.h, h, r.p, size)

\* A block of need bytes serves a smaller request.
LEMMA Serves ==
  ASSUME NEW h, NEW g, NEW p, NEW size \in Nat, NEW need \in Nat, size <= need,
         PageTaken(g, h, p, need), g.data = h.data
  PROVE  Answered(Allocated(g, p), h, size)
<1>1. p - HeaderSize \in DOMAIN g.cap /\ g.cap[p - HeaderSize] \in Nat
  BY DEF PageTaken, Book, IsHeap, InUse
<1>2. PageTaken(g, h, p, size)
  BY <1>1 DEF PageTaken
<1>3. p # 0
  BY HeapAssumption DEF PageTaken, HeaderSize
<1> QED
  BY <1>2, <1>3, Filled DEF Answered

\* page_alloc answers a block of its own that is large enough, or refuses and
\* leaves the blocks as they were.
LEMMA PageAlloc ==
  ASSUME NEW h, Book(h), NEW size \in Nat, NEW grows \in BOOLEAN
  PROVE  Answered(page_alloc(h, size, grows), h, size)
<1> DEFINE asked == IF size = 0 THEN 1 ELSE size
           need == RoundUp(asked, 8)
           fits == {i \in DOMAIN h.free : h.cap[h.free[i]] >= need}
           i == Min(fits)
           end == h.end + HeaderSize + need
           required == RoundUp(end, PageSize) \div PageSize
<1> USE DEF HeaderSize
<1>1. need \in Nat /\ need % 8 = 0 /\ need >= 8 /\ size <= need
  <2>1. asked \in Nat /\ asked > 0 /\ size <= asked
    OBVIOUS
  <2> HIDE DEF asked
  <2>2. RoundUp(asked, 8) \in Nat /\ asked <= RoundUp(asked, 8)
    BY <2>1, RoundsUp
  <2>3. need \in Nat /\ need % 8 = 0 /\ need > 0 /\ size <= need
    BY <2>1, <2>2, RoundsUpToWords
  <2> HIDE DEF need
  <2>4. 0 \in Nat /\ 0 % 8 = 0
    OBVIOUS
  <2>5. need >= 8
    BY <2>3, <2>4, WordSums
  <2> QED
    BY <2>3, <2>5
<1> HIDE DEF asked, need, fits, i, end, required
<1>2. page_alloc(h, size, grows) =
        IF size > MaxRequest THEN Failed(h)
        ELSE IF fits # {} THEN page_alloc_free_list(h, need, i)
        ELSE page_alloc_fresh(h, need, grows)
  BY DEF page_alloc, need, asked, fits, i
<1>3. Answered(Failed(h), h, size)
  BY DEF Answered, Failed
<1>4. ASSUME fits # {}
      PROVE  Answered(page_alloc_free_list(h, need, i), h, size)
  <2>1. fits \subseteq Nat /\ \A j \in fits : j \in 1 .. Len(h.free) /\ need <= h.cap[h.free[j]]
    <3>1. DOMAIN h.free = 1 .. Len(h.free) /\ Len(h.free) \in Nat
      BY BookFacts DEF Book
    <3> QED
      BY <3>1 DEF fits
  <2>2. i \in 1 .. Len(h.free) /\ need <= h.cap[h.free[i]]
    BY <1>4, <2>1, MinLeast DEF i
  <2> DEFINE block == h.free[i]
             split == block + HeaderSize + need
             remaining == h.cap[block] - need
             rest == h.cap[block] - need - HeaderSize
             front == [h EXCEPT !.free[i] = split,
                                !.cap = Put([@ EXCEPT ![block] = need], split, rest)]
             whole == [h EXCEPT !.free = RemoveAt(@, i)]
  <2>3. h.cap[block] \in Nat
    BY <2>2, BookFacts DEF Book
  <2> HIDE DEF front, whole
  <2>4. CASE remaining >= SplitMinimum
    <3>1. page_alloc_free_list(h, need, i) = Allocated(front, block + HeaderSize)
      BY <2>4 DEF page_alloc_free_list, front
    <3>2. need + SplitMinimum <= h.cap[h.free[i]]
      BY <1>1, <2>3, <2>4 DEF SplitMinimum
    <3>3. PageTaken(front, h, block + HeaderSize, need) /\ front.data = h.data
      BY <1>1, <2>2, <3>2, TakeFront DEF front
    <3> HIDE DEF block
    <3> QED
      BY <1>1, <3>1, <3>3, Serves
  <2>5. CASE ~(remaining >= SplitMinimum)
    <3>1. page_alloc_free_list(h, need, i) = Allocated(whole, block + HeaderSize)
      BY <2>5 DEF page_alloc_free_list, whole
    <3>2. PageTaken(whole, h, block + HeaderSize, need) /\ whole.data = h.data
      BY <1>1, <2>2, TakeWhole DEF whole
    <3> HIDE DEF block
    <3> QED
      BY <1>1, <3>1, <3>2, Serves
  <2> QED
    BY <2>4, <2>5
<1>5. Answered(page_alloc_fresh(h, need, grows), h, size)
  <2> DEFINE pages == IF required > h.pages THEN required ELSE h.pages
             g == [h EXCEPT !.end = end, !.pages = pages, !.cap = Put(@, h.end, need)]
  <2>0. h.end \in Nat /\ h.pages \in Nat /\ end \in Nat /\ PageSize \in Nat /\ PageSize > 0
        /\ AddressLimit \in Nat
    <3>1. h.end \in Nat /\ h.pages \in Nat
      BY BookFacts DEF Book
    <3>2. PageSize \in Nat /\ PageSize > 0 /\ AddressLimit \in Nat
      BY HeapAssumption
    <3> QED
      BY <1>1, <3>1, <3>2 DEF end
  <2>1. required \in Nat /\ end <= required * PageSize
    BY <2>0, RoundsUp DEF required
  <2>2. pages \in Nat /\ required <= pages
    BY <2>0, <2>1
  <2>3. end <= pages * PageSize
    <3>1. \A r, p, u \in Nat : r <= p => r * u <= p * u
      OBVIOUS
    <3>2. required * PageSize <= pages * PageSize /\ required * PageSize \in Nat
          /\ pages * PageSize \in Nat
      BY <2>0, <2>1, <2>2, <3>1
    <3> QED
      BY <2>0, <2>1, <3>2
  <2> HIDE DEF g
  <2>4. CASE end > AddressLimit \/ (required > h.pages /\ ~grows)
    <3>1. page_alloc_fresh(h, need, grows) = Failed(h)
      BY <2>4 DEF page_alloc_fresh, end, required
    <3> QED
      BY <1>3, <3>1
  <2>5. CASE ~(end > AddressLimit \/ (required > h.pages /\ ~grows))
    <3>1. page_alloc_fresh(h, need, grows) = Allocated(g, h.end + HeaderSize)
      BY <2>5 DEF page_alloc_fresh, g, end, required
    <3>2. end <= AddressLimit
      BY <2>0, <2>5
    <3>3. h.end + HeaderSize + need <= AddressLimit /\ h.end + HeaderSize + need <= pages * PageSize
      BY <2>3, <3>2 DEF end
    <3> HIDE DEF pages
    <3>4. PageTaken(g, h, h.end + HeaderSize, need) /\ g.data = h.data
      BY <1>1, <2>2, <3>3, TakeFresh DEF g, end
    <3> QED
      BY <1>1, <3>1, <3>4, Serves
  <2> QED
    BY <2>4, <2>5
<1> QED
  BY <1>2, <1>3, <1>4, <1>5

\* An injective function has as many values as arguments.
LEMMA SameCount ==
  ASSUME NEW S, IsFiniteSet(S), NEW f, NEW T, f \in [S -> T],
         \A t \in T : \E x \in S : f[x] = t,
         \A x, y \in S : f[x] = f[y] => x = y
  PROVE  Cardinality(T) = Cardinality(S)
<1>1. f \in Surjection(S, T)
  BY DEF Surjection
<1>2. f \in Injection(S, T)
  BY DEF Injection, IsInjective
<1> QED
  BY <1>1, <1>2, FS_Surjection

\* The book says all that the property of the heap says of its blocks.
LEMMA BookTiles ==
  ASSUME NEW h, Book(h)
  PROVE  /\ Tiled(h) /\ FreeListSound(h)
         /\ h.end <= h.pages * PageSize /\ h.end <= AddressLimit
<1> DEFINE D == DOMAIN h.cap
           f == [b \in D |-> BlockEnd(h, b)]
           T == {BlockEnd(h, b) : b \in D}
<1>1. /\ D \subseteq Nat /\ IsFiniteSet(D) /\ h.cap \in [D -> Nat] /\ Len(h.free) \in Nat
      /\ \A j \in 1 .. Len(h.free) : h.free[j] \in D
      /\ DOMAIN h.free = 1 .. Len(h.free)
  BY BookFacts DEF Book
<1>2. \A b \in D : b \in Nat /\ BlockEnd(h, b) \in Nat /\ b < BlockEnd(h, b)
  <2>1. \A b \in D : b \in Nat /\ h.cap[b] \in Nat
    BY <1>1
  <2> QED
    BY <2>1 DEF BlockEnd, HeaderSize
<1>3. \A b, c \in D : b < c => BlockEnd(h, b) <= c
  BY DEF Book, Blocks
<1>4. \A b, c \in D : f[b] = f[c] => b = c
  <2> SUFFICES ASSUME NEW b \in D, NEW c \in D, BlockEnd(h, b) = BlockEnd(h, c), b < c
               PROVE  FALSE
    BY <1>2
  <2> QED
    BY <1>2, <1>3
<1>5. f \in [D -> T] /\ \A t \in T : \E b \in D : f[b] = t
  OBVIOUS
<1>6. Cardinality(T) = Cardinality(D)
  <2> HIDE DEF f, T, D
  <2> QED
    BY <1>1, <1>4, <1>5, SameCount
<1>7. Tiled(h)
  BY <1>6 DEF Tiled, Book, Blocks
<1>8. FreeListSound(h)
  <2>1. Range(h.free) \subseteq D
    BY <1>1 DEF Range
  <2>2. ASSUME NEW i \in 1 .. Len(h.free) - 1 PROVE BlockEnd(h, h.free[i]) < h.free[i + 1]
    <3>1. i \in 1 .. Len(h.free) /\ i + 1 \in 1 .. Len(h.free) /\ i < i + 1
      BY <1>1
    <3>2. BlockEnd(h, h.free[i]) <= h.free[i + 1] /\ BlockEnd(h, h.free[i]) # h.free[i + 1]
      BY <3>1 DEF Book, Loose
    <3>3. BlockEnd(h, h.free[i]) \in Nat /\ h.free[i + 1] \in Nat
      BY <1>1, <1>2, <3>1
    <3> QED
      BY <3>2, <3>3
  <2> QED
    BY <2>1, <2>2 DEF FreeListSound
<1> QED
  BY <1>7, <1>8 DEF Book, Ends

-----------------------------------------------------------------------------
(* The blocks of a heap and their owners                                   *)

Owner(role, by, p, size) == [role |-> role, by |-> by, p |-> p, size |-> size]

IsOwner(o) ==
  /\ o = Owner(o.role, o.by, o.p, o.size)
  /\ o.by \in {"page", "fixed", "user"} /\ o.p \in Nat /\ o.p # 0 /\ o.size \in Nat /\ o.size > 0

Paged(O) == {o \in O : o.by # "fixed"}

\* Every block of the heap that is in use is that of one of the owners O, and
\* is large enough for it.
Holding(h, O) ==
  /\ Book(h)
  /\ \A o \in O : IsOwner(o)
  /\ \A o, q \in O : o.p = q.p => o = q
  /\ InUse(h) = {o.p - HeaderSize : o \in Paged(O)}
  /\ \A o \in Paged(O) : o.size <= h.cap[o.p - HeaderSize] /\ HeapBase + HeaderSize <= o.p
  /\ h.used <= FixedCapacity
  /\ \A o \in O : o.by = "fixed" => FixedBase <= o.p /\ o.p + o.size <= FixedBase + h.used
  /\ \A o, q \in O : o.by = "fixed" /\ q.by = "fixed" /\ o # q =>
        o.p + o.size <= q.p \/ q.p + q.size <= o.p
  /\ DOMAIN h.data = {o.p : o \in O}

\* The heap at the start is held by nobody.
LEMMA EmptyHeld == Holding(EmptyHeap, {})
<1>1. EmptyHeap.used = 0 /\ DOMAIN EmptyHeap.data = {}
  BY DEF EmptyHeap
<1> QED
  BY <1>1, EmptyBook, HeapAssumption DEF Holding, Paged

\* The buffer lies below the heap.
LEMMA Apart ==
  ASSUME NEW h, NEW O, Holding(h, O), NEW o \in O
  PROVE  /\ o.p \in Nat /\ o.size \in Nat /\ h.used \in Nat
         /\ o.by = "fixed" => o.p < HeapBase
         /\ o.by # "fixed" => HeapBase + 8 <= o.p /\ o.p - 8 \in Nat
<1>1. o.p \in Nat /\ o.size \in Nat /\ o.size > 0 /\ h.used \in Nat
  BY BookFacts DEF Holding, IsOwner, Book
<1>2. /\ HeapBase \in Nat /\ FixedBase \in Nat /\ FixedCapacity \in Nat
      /\ FixedBase + FixedCapacity <= HeapBase
  BY HeapAssumption
<1>3. ASSUME o.by = "fixed" PROVE o.p < HeapBase
  <2>1. o.p + o.size <= FixedBase + h.used /\ h.used <= FixedCapacity
    BY <1>3 DEF Holding
  <2> QED
    BY <1>1, <1>2, <2>1
<1>4. ASSUME o.by # "fixed" PROVE HeapBase + 8 <= o.p /\ o.p - 8 \in Nat
  <2>1. HeapBase + 8 <= o.p
    BY <1>4 DEF Holding, Paged, HeaderSize
  <2> QED
    BY <1>1, <1>2, <2>1
<1> QED
  BY <1>1, <1>3, <1>4

\* What a program writes into its blocks is its own affair.
LEMMA HeldWrite ==
  ASSUME NEW h, NEW O, Holding(h, O), NEW g, IsHeap(g),
         g.end = h.end, g.pages = h.pages, g.free = h.free, g.cap = h.cap, g.used = h.used,
         DOMAIN g.data = DOMAIN h.data
  PROVE  Holding(g, O)
<1>1. Book(g) /\ InUse(g) = InUse(h)
  BY BookSame DEF Holding
<1> QED
  BY <1>1 DEF Holding

\* The page heap has one more block in use.
LEMMA HeldMorePaged ==
  ASSUME NEW h, NEW O, Holding(h, O), NEW g, NEW role, NEW by \in {"page", "user"},
         NEW p, NEW size \in Nat, size > 0, PageGot(g, h, p, size)
  PROVE  /\ Holding(g, O \cup {Owner(role, by, p, size)})
         /\ p \notin DOMAIN h.data
<1> USE DEF HeaderSize
<1> DEFINE n == Owner(role, by, p, size)
           N == O \cup {n}
<1>1. /\ Book(g) /\ p \in Nat /\ HeapBase + 8 <= p /\ p - 8 \notin InUse(h)
      /\ InUse(g) = InUse(h) \cup {p - 8} /\ size <= g.cap[p - 8]
      /\ \A b \in InUse(h) : g.cap[b] = h.cap[b]
      /\ g.used = h.used /\ g.data = Put(h.data, p, <<>>)
  BY DEF PageGot, PageTaken, SameBlocks
<1>2. n.role = role /\ n.by = by /\ n.p = p /\ n.size = size /\ n = Owner(n.role, n.by, n.p, n.size)
  BY DEF Owner
<1> HIDE DEF n
<1>3. n.by # "fixed" /\ IsOwner(n) /\ HeapBase \in Nat
  <2>1. HeapBase \in Nat
    BY HeapAssumption
  <2> QED
    BY <1>1, <1>2, <2>1 DEF IsOwner
<1>4. \A o \in O : o.p # p
  <2> SUFFICES ASSUME NEW o \in O, o.p = p PROVE FALSE
    OBVIOUS
  <2>1. o.by # "fixed"
    BY <1>1, <1>3, Apart
  <2>2. o.p - 8 \in InUse(h)
    BY <2>1 DEF Holding, Paged
  <2> QED
    BY <1>1, <2>2
<1>5. p \notin DOMAIN h.data
  BY <1>4 DEF Holding
<1>6. Paged(N) = Paged(O) \cup {n}
  BY <1>3 DEF Paged
<1>7. InUse(g) = {o.p - 8 : o \in Paged(N)}
  <2>1. InUse(h) = {o.p - 8 : o \in Paged(O)}
    BY DEF Holding
  <2>2. n.p - 8 = p - 8
    BY <1>2
  <2> HIDE DEF N
  <2> QED
    BY <1>1, <1>6, <2>1, <2>2
<1>8. ASSUME NEW o \in Paged(N) PROVE o.size <= g.cap[o.p - 8] /\ HeapBase + 8 <= o.p
  <2>1. CASE o = n
    BY <1>1, <1>2, <2>1
  <2>2. CASE o \in Paged(O)
    <3>1. o.p - 8 \in InUse(h) /\ o.size <= h.cap[o.p - 8] /\ HeapBase + 8 <= o.p
      BY <2>2 DEF Holding
    <3> QED
      BY <1>1, <3>1
  <2> QED
    BY <1>6, <2>1, <2>2
<1>9. \A o, q \in N : o.p = q.p => o = q
  BY <1>2, <1>4 DEF Holding
<1>10. DOMAIN g.data = {o.p : o \in N}
  <2>1. DOMAIN g.data = DOMAIN h.data \cup {p}
    BY <1>1 DEF Put
  <2> QED
    BY <1>2, <2>1 DEF Holding
<1>11. \A o \in N : IsOwner(o) /\ (o.by = "fixed" => o \in O)
  BY <1>3 DEF Holding
<1>12. Holding(g, N)
  <2>1. h.used <= FixedCapacity
        /\ \A o \in O : o.by = "fixed" => FixedBase <= o.p /\ o.p + o.size <= FixedBase + h.used
    BY DEF Holding
  <2>2. \A o, q \in O : o.by = "fixed" /\ q.by = "fixed" /\ o # q =>
           o.p + o.size <= q.p \/ q.p + q.size <= o.p
    BY DEF Holding
  <2> HIDE DEF N
  <2> QED
    BY <1>1, <1>7, <1>8, <1>9, <1>10, <1>11, <2>1, <2>2 DEF Holding
<1> QED
  BY <1>5, <1>12 DEF n

\* The page heap has one block less in use.
LEMMA HeldLessPaged ==
  ASSUME NEW h, NEW O, Holding(h, O), NEW g, NEW o \in O, o.by # "fixed", PageFreed(g, h, o.p)
  PROVE  Holding(g, O \ {o}) /\ g.data = Drop(h.data, o.p)
<1> USE DEF HeaderSize
<1> DEFINE N == O \ {o}
<1>1. /\ Book(g) /\ InUse(g) = InUse(h) \ {o.p - 8} /\ \A b \in InUse(g) : g.cap[b] = h.cap[b]
      /\ g.data = Drop(h.data, o.p) /\ g.used = h.used
  BY DEF PageFreed, SameBlocks
<1>2. \A q \in N : q.p # o.p
  BY DEF Holding
<1>3. \A q \in Paged(N) : q.p - 8 # o.p - 8 /\ q \in Paged(O)
  <2> TAKE q \in Paged(N)
  <2>1. q \in O /\ q \in N /\ q.by # "fixed"
    BY DEF Paged
  <2>2. q.p \in Nat /\ o.p \in Nat /\ q.p # o.p
    BY <1>2, <2>1, Apart
  <2> QED
    BY <2>1, <2>2 DEF Paged
<1>4. InUse(g) = {q.p - 8 : q \in Paged(N)}
  <2>1. InUse(h) = {q.p - 8 : q \in Paged(O)}
    BY DEF Holding
  <2>2. \A b \in InUse(g) : b \in {q.p - 8 : q \in Paged(N)}
    BY <1>1, <2>1 DEF Paged
  <2>3. \A q \in Paged(N) : q.p - 8 \in InUse(g)
    BY <1>1, <1>3, <2>1
  <2> QED
    BY <2>2, <2>3
<1>5. \A q \in Paged(N) : q.size <= g.cap[q.p - 8] /\ HeapBase + 8 <= q.p
  <2> TAKE q \in Paged(N)
  <2>1. q.p - 8 \in InUse(g)
    BY <1>4
  <2> QED
    BY <1>1, <1>3, <2>1 DEF Holding
<1>6. DOMAIN g.data = {q.p : q \in N}
  <2>1. DOMAIN g.data = DOMAIN h.data \ {o.p}
    BY <1>1 DEF Drop
  <2> QED
    BY <1>2, <2>1 DEF Holding
<1> QED
  BY <1>1, <1>4, <1>5, <1>6 DEF Holding

IsMap(d) == d = [x \in DOMAIN d |-> d[x]]

With(h, u, d) == [h EXCEPT !.used = u, !.data = d]

\* A heap whose bump offset or data is another.
LEMMA EditFixed ==
  ASSUME NEW h, IsHeap(h), NEW u \in Nat, NEW d, IsMap(d),
         NEW g, g = With(h, u, d)
  PROVE  /\ IsHeap(g) /\ g.end = h.end /\ g.pages = h.pages /\ g.free = h.free
         /\ g.cap = h.cap /\ g.used = u /\ g.data = d
<1>1. /\ g.end = h.end /\ g.pages = h.pages /\ g.free = h.free
      /\ g.cap = h.cap /\ g.used = u /\ g.data = d
      /\ g \in [end : Nat, pages : Nat, free : Seq(DOMAIN h.cap), cap : [DOMAIN h.cap -> Nat],
                used : Nat, data : {d}]
  BY DEF IsHeap, With
<1> QED
  BY <1>1 DEF IsHeap, IsMap

\* A block of the buffer behind all others, which moves the bump offset to u.
Behind(h, p, size, u) ==
  /\ p \in Nat /\ size \in Nat /\ size > 0 /\ u \in Nat /\ u <= FixedCapacity
  /\ FixedBase + h.used <= p /\ p + size <= FixedBase + u

\* The buffer has one more block, behind the others.
LEMMA HeldMoreFixed ==
  ASSUME NEW h, NEW O, Holding(h, O), NEW role, NEW p, NEW size, NEW u, Behind(h, p, size, u),
         NEW e, NEW g, g = With(h, u, Put(h.data, p, e))
  PROVE  /\ Holding(g, O \cup {Owner(role, "fixed", p, size)})
         /\ p \notin DOMAIN h.data /\ p # 0 /\ g.data = Put(h.data, p, e)
<1>a. /\ p \in Nat /\ size \in Nat /\ size > 0 /\ u \in Nat /\ u <= FixedCapacity
      /\ FixedBase + h.used <= p /\ p + size <= FixedBase + u
  BY DEF Behind
<1> DEFINE n == Owner(role, "fixed", p, size)
           N == O \cup {n}
           d == Put(h.data, p, e)
<1>0. IsMap(d) /\ DOMAIN d = DOMAIN h.data \cup {p}
  BY DEF Put, IsMap
<1> HIDE DEF d
<1>1. /\ IsHeap(g) /\ g.end = h.end /\ g.pages = h.pages /\ g.free = h.free
      /\ g.cap = h.cap /\ g.used = u /\ g.data = d
  <2>1. g = With(h, u, d) /\ IsHeap(h)
    BY DEF Holding, Book, d
  <2> QED
    BY <1>a, <1>0, <2>1, EditFixed
<1>2. Book(g) /\ InUse(g) = InUse(h)
  BY <1>1, BookSame DEF Holding
<1>3. n.role = role /\ n.by = "fixed" /\ n.p = p /\ n.size = size
      /\ n = Owner(n.role, n.by, n.p, n.size)
  BY DEF Owner
<1> HIDE DEF n
<1>4. /\ HeapBase \in Nat /\ FixedBase \in Nat /\ FixedBase > 0 /\ FixedCapacity \in Nat
      /\ FixedBase + FixedCapacity <= HeapBase /\ h.used \in Nat
  BY HeapAssumption, BookFacts DEF Holding, Book
<1>5. p # 0 /\ h.used <= u /\ FixedBase <= p /\ p < HeapBase
  BY <1>a, <1>4
<1>6. IsOwner(n)
  BY <1>a, <1>3, <1>5 DEF IsOwner
<1>7. ASSUME NEW o \in O
      PROVE  /\ o.p # p /\ IsOwner(o) /\ o.p \in Nat /\ o.size \in Nat
             /\ o.by = "fixed" => o.p + o.size <= p /\ FixedBase <= o.p
                                  /\ o.p + o.size <= FixedBase + u
  <2>1. IsOwner(o) /\ o.p \in Nat /\ o.size \in Nat /\ o.size > 0
    BY DEF Holding, IsOwner
  <2>2. CASE o.by = "fixed"
    <3>1. o.p + o.size <= FixedBase + h.used /\ FixedBase <= o.p
      BY <2>2 DEF Holding
    <3> QED
      BY <1>a, <1>4, <1>5, <2>1, <3>1
  <2>3. CASE o.by # "fixed"
    BY <1>a, <1>4, <1>5, <2>1, <2>3, Apart
  <2> QED
    BY <2>1, <2>2, <2>3
<1>8. p \notin DOMAIN h.data
  BY <1>7 DEF Holding
<1>9. Paged(N) = Paged(O)
  BY <1>3 DEF Paged
<1>10. \A o, q \in N : o.p = q.p => o = q
  BY <1>3, <1>7 DEF Holding
<1>11. DOMAIN g.data = {o.p : o \in N}
  BY <1>0, <1>1, <1>3 DEF Holding
<1>12. \A o \in N : /\ IsOwner(o)
                    /\ o.by = "fixed" => FixedBase <= o.p /\ o.p + o.size <= FixedBase + u
  BY <1>a, <1>3, <1>5, <1>6, <1>7
<1>13. ASSUME NEW o \in N, NEW q \in N, o.by = "fixed", q.by = "fixed", o # q
       PROVE  o.p + o.size <= q.p \/ q.p + q.size <= o.p
  <2>1. CASE o \in O /\ q \in O
    BY <1>13, <2>1 DEF Holding
  <2>2. CASE o = n \/ q = n
    BY <1>3, <1>7, <1>13, <2>2
  <2> QED
    BY <2>1, <2>2
<1>14. Holding(g, N)
  <2>1. /\ InUse(h) = {o.p - HeaderSize : o \in Paged(O)}
        /\ \A o \in Paged(O) : o.size <= h.cap[o.p - HeaderSize] /\ HeapBase + HeaderSize <= o.p
    BY DEF Holding
  <2> HIDE DEF N
  <2> QED
    BY <1>a, <1>1, <1>2, <1>9, <1>10, <1>11, <1>12, <1>13, <2>1 DEF Holding
<1> QED
  BY <1>1, <1>5, <1>8, <1>14 DEF n, d

\* The buffer has one block less.
LEMMA HeldLessFixed ==
  ASSUME NEW h, NEW O, Holding(h, O), NEW o \in O, o.by = "fixed"
  PROVE  LET g == [h EXCEPT !.data = Drop(h.data, o.p)]
         IN  Holding(g, O \ {o}) /\ g.data = Drop(h.data, o.p)
<1> DEFINE N == O \ {o}
           d == Drop(h.data, o.p)
           g == [h EXCEPT !.data = d]
<1>0. IsMap(d) /\ DOMAIN d = DOMAIN h.data \ {o.p}
  BY DEF Drop, IsMap
<1> HIDE DEF d, g
<1>1. /\ IsHeap(g) /\ g.end = h.end /\ g.pages = h.pages /\ g.free = h.free
      /\ g.cap = h.cap /\ g.used = h.used /\ g.data = d
  <2>1. IsHeap(h) /\ h.used \in Nat
    BY BookFacts DEF Holding, Book
  <2>2. g = With(h, h.used, d)
    BY <2>1 DEF IsHeap, With, g
  <2> QED
    BY <1>0, <2>1, <2>2, EditFixed
<1>2. Book(g) /\ InUse(g) = InUse(h)
  BY <1>1, BookSame DEF Holding
<1>3. Paged(N) = Paged(O)
  BY DEF Paged
<1>4. DOMAIN g.data = {q.p : q \in N}
  <2>1. \A q \in N : q.p # o.p
    BY DEF Holding
  <2> QED
    BY <1>0, <1>1, <2>1 DEF Holding
<1>5. Holding(g, N)
  BY <1>1, <1>2, <1>3, <1>4 DEF Holding
<1> QED
  BY <1>1, <1>5 DEF g, d

\* A block is asked to hold more where it lies: in the heap its capacity is
\* enough already, in the buffer the bump offset moves with its end.
LEMMA HeldGrownPaged ==
  ASSUME NEW h, NEW O, Holding(h, O), NEW o \in O, o.by # "fixed",
         NEW new \in Nat, new > 0, new <= h.cap[o.p - HeaderSize]
  PROVE  Holding(h, (O \ {o}) \cup {Owner(o.role, o.by, o.p, new)})
<1> DEFINE n == Owner(o.role, o.by, o.p, new)
           N == (O \ {o}) \cup {n}
<1>1. n.role = o.role /\ n.by = o.by /\ n.p = o.p /\ n.size = new
      /\ n = Owner(n.role, n.by, n.p, n.size)
  BY DEF Owner
<1> HIDE DEF n
<1>2. IsOwner(n)
  BY <1>1 DEF Holding, IsOwner
<1>3. Paged(N) = (Paged(O) \ {o}) \cup {n} /\ o \in Paged(O)
  BY <1>1 DEF Paged
<1>4. {q.p - HeaderSize : q \in Paged(N)} = {q.p - HeaderSize : q \in Paged(O)}
  <2> HIDE DEF N
  <2>1. \A q \in Paged(N) : \E r \in Paged(O) : r.p = q.p
    BY <1>1, <1>3
  <2>2. \A r \in Paged(O) : \E q \in Paged(N) : r.p = q.p
    BY <1>1, <1>3
  <2>3. \A q \in Paged(N) : q.p - HeaderSize \in {r.p - HeaderSize : r \in Paged(O)}
    BY <2>1
  <2>4. \A r \in Paged(O) : r.p - HeaderSize \in {q.p - HeaderSize : q \in Paged(N)}
    BY <2>2
  <2> QED
    BY <2>3, <2>4
<1>5. {q.p : q \in N} = {q.p : q \in O}
  BY <1>1
<1>6. \A q, r \in N : q.p = r.p => q = r
  BY <1>1 DEF Holding
<1>7. \A q \in Paged(N) : q.size <= h.cap[q.p - HeaderSize] /\ HeapBase + HeaderSize <= q.p
  <2>1. HeapBase + HeaderSize <= o.p
    BY <1>3 DEF Holding
  <2> QED
    BY <1>1, <1>3, <2>1 DEF Holding
<1>8. \A q \in N : IsOwner(q) /\ (q.by = "fixed" => q \in O)
  BY <1>1, <1>2 DEF Holding
<1>9. Holding(h, N)
  <2>1. /\ InUse(h) = {q.p - HeaderSize : q \in Paged(O)} /\ DOMAIN h.data = {q.p : q \in O}
        /\ Book(h) /\ h.used <= FixedCapacity
        /\ \A q \in O : q.by = "fixed" => FixedBase <= q.p /\ q.p + q.size <= FixedBase + h.used
        /\ \A q, r \in O : q.by = "fixed" /\ r.by = "fixed" /\ q # r =>
              q.p + q.size <= r.p \/ r.p + r.size <= q.p
    BY DEF Holding
  <2> HIDE DEF N
  <2> QED
    BY <1>4, <1>5, <1>6, <1>7, <1>8, <2>1 DEF Holding
<1> QED
  BY <1>9 DEF n

\* The last block of the fixed buffer grows in place (fixed_realloc).
LEMMA HeldGrownFixed ==
  ASSUME NEW h, NEW O, Holding(h, O), NEW o \in O, o.by = "fixed",
         NEW new \in Nat, new > 0, o.p + o.size = FixedBase + h.used,
         h.used - o.size + new <= FixedCapacity
  PROVE  LET g == [h EXCEPT !.used = h.used - o.size + new]
         IN  /\ Holding(g, (O \ {o}) \cup {Owner(o.role, o.by, o.p, new)})
             /\ g.data = h.data
<1> DEFINE n == Owner(o.role, o.by, o.p, new)
           N == (O \ {o}) \cup {n}
           u == h.used - o.size + new
           g == [h EXCEPT !.used = u]
<1>1. n.role = o.role /\ n.by = o.by /\ n.p = o.p /\ n.size = new
      /\ n = Owner(n.role, n.by, n.p, n.size)
  BY DEF Owner
<1>2. /\ o.p \in Nat /\ o.size \in Nat /\ h.used \in Nat /\ FixedBase \in Nat /\ FixedBase <= o.p
      /\ o.p # 0
  BY HeapAssumption, Apart DEF Holding, IsOwner
<1>3. u \in Nat /\ o.p + new = FixedBase + u /\ u <= FixedCapacity
  BY <1>2
<1> HIDE DEF n, u, g
<1>4. /\ IsHeap(g) /\ g.end = h.end /\ g.pages = h.pages /\ g.free = h.free
      /\ g.cap = h.cap /\ g.used = u /\ g.data = h.data
  <2>1. IsHeap(h) /\ IsMap(h.data)
    BY DEF Holding, Book, IsHeap, IsMap
  <2>2. g = With(h, u, h.data)
    BY <2>1 DEF IsHeap, With, g
  <2> QED
    BY <1>3, <2>1, <2>2, EditFixed
<1>5. Book(g) /\ InUse(g) = InUse(h)
  BY <1>4, BookSame DEF Holding
<1>6. IsOwner(n)
  BY <1>1 DEF Holding, IsOwner
<1>7. Paged(N) = Paged(O)
  BY <1>1 DEF Paged
<1>8. {q.p : q \in N} = {q.p : q \in O}
  BY <1>1
<1>9. \A q, r \in N : q.p = r.p => q = r
  BY <1>1 DEF Holding
<1>10. ASSUME NEW q \in O, q.by = "fixed", q # o PROVE q.p + q.size <= o.p
  <2>1. q.p + q.size <= FixedBase + h.used /\ q.p \in Nat /\ q.size \in Nat /\ q.size > 0
    BY <1>10 DEF Holding, IsOwner
  <2>2. q.p + q.size <= o.p \/ o.p + o.size <= q.p
    BY <1>10 DEF Holding
  <2> QED
    BY <1>2, <2>1, <2>2
<1>11. \A q \in N : /\ IsOwner(q)
                    /\ q.by = "fixed" => FixedBase <= q.p /\ q.p + q.size <= FixedBase + u
  <2> TAKE q \in N
  <2>1. CASE q = n
    BY <1>1, <1>2, <1>3, <1>6, <2>1
  <2>2. CASE q \in O /\ q # o
    <3>1. IsOwner(q) /\ q.p \in Nat /\ q.size \in Nat
      BY <2>2 DEF Holding, IsOwner
    <3>2. ASSUME q.by = "fixed" PROVE FixedBase <= q.p /\ q.p + q.size <= FixedBase + u
      <4>1. FixedBase <= q.p /\ q.p + q.size <= o.p
        BY <1>10, <2>2, <3>2 DEF Holding
      <4> QED
        BY <1>2, <1>3, <3>1, <4>1
    <3> QED
      BY <3>1, <3>2
  <2> QED
    BY <2>1, <2>2
<1>12. ASSUME NEW q \in N, NEW r \in N, q.by = "fixed", r.by = "fixed", q # r
       PROVE  q.p + q.size <= r.p \/ r.p + r.size <= q.p
  <2>1. CASE q = n
    BY <1>1, <1>10, <1>12, <2>1
  <2>2. CASE r = n
    BY <1>1, <1>10, <1>12, <2>2
  <2>3. CASE q # n /\ r # n
    BY <1>12, <2>3 DEF Holding
  <2> QED
    BY <2>1, <2>2, <2>3
<1>13. Holding(g, N)
  <2>1. /\ InUse(h) = {q.p - HeaderSize : q \in Paged(O)} /\ DOMAIN h.data = {q.p : q \in O}
        /\ \A q \in Paged(O) : q.size <= h.cap[q.p - HeaderSize] /\ HeapBase + HeaderSize <= q.p
    BY DEF Holding
  <2> HIDE DEF N
  <2> QED
    BY <1>3, <1>4, <1>5, <1>7, <1>8, <1>9, <1>11, <1>12, <2>1 DEF Holding
<1> QED
  BY <1>4, <1>13 DEF g, u, n

-----------------------------------------------------------------------------
(* What the allocators do for their owners                                 *)

\* An allocation answers nothing and changes nothing, or there is one more
\* owner, whose block is nobody else's and holds nothing yet.
Granted(r, h, O, role, by, size) ==
  \/ r.p = 0 /\ r.h = h
  \/ /\ r.p \in Nat /\ r.p # 0 /\ r.p \notin DOMAIN h.data
     /\ Holding(r.h, O \cup {Owner(role, by, r.p, size)})
     /\ r.h.data = Put(h.data, r.p, <<>>)

\* The contents of one block are found at another address.
Rehomed(d, p, q) == [x \in (DOMAIN d \ {p}) \cup {q} |-> IF x = q THEN d[p] ELSE d[x]]

\* A reallocation answers nothing and changes nothing, or the owner has a
\* block of the new size, the old one or a new one, with the old contents.
Regranted(r, h, O, o, new) ==
  \/ r.p = 0 /\ r.h = h
  \/ /\ r.p \in Nat /\ r.p # 0 /\ (r.p = o.p \/ r.p \notin DOMAIN h.data)
     /\ Holding(r.h, (O \ {o}) \cup {Owner(o.role, o.by, r.p, new)})
     /\ r.h.data = Rehomed(h.data, o.p, r.p)

\* page_alloc grants its caller a block nobody else holds, or refuses.
LEMMA PagedGranted ==
  ASSUME NEW h, NEW O, Holding(h, O), NEW role, NEW by \in {"page", "user"},
         NEW size \in Nat, size > 0, NEW grows \in BOOLEAN
  PROVE  Granted(page_alloc(h, size, grows), h, O, role, by, size)
<1> DEFINE r == page_alloc(h, size, grows)
<1>1. Answered(r, h, size)
  BY PageAlloc DEF Holding
<1> HIDE DEF r
<1>2. ASSUME r.p # 0, PageGot(r.h, h, r.p, size)
      PROVE  Granted(r, h, O, role, by, size)
  <2>1. r.p \in Nat /\ r.h.data = Put(h.data, r.p, <<>>)
    BY <1>2 DEF PageGot, PageTaken
  <2>2. Holding(r.h, O \cup {Owner(role, by, r.p, size)}) /\ r.p \notin DOMAIN h.data
    BY <1>2, HeldMorePaged
  <2> QED
    BY <1>2, <2>1, <2>2 DEF Granted
<1>3. Granted(r, h, O, role, by, size)
  BY <1>1, <1>2 DEF Answered, Granted
<1> QED
  BY <1>3 DEF r

\* fixed_alloc grants its caller a block nobody else holds, or refuses.
LEMMA FixedGranted ==
  ASSUME NEW h, NEW O, Holding(h, O), NEW role, NEW size \in Nat, size > 0
  PROVE  Granted(fixed_alloc(h, size), h, O, role, "fixed", size)
<1> DEFINE unit == fixed_alignment(size)
           aligned == RoundUp(h.used, unit)
           u == aligned + size
           p == FixedBase + aligned
           g == With(h, u, Put(h.data, p, <<>>))
<1>1. h.used \in Nat /\ FixedBase \in Nat
  BY BookFacts, HeapAssumption DEF Holding, Book
<1>2. unit \in {1, 2, 4, 8, 16}
  <2> DEFINE T == {a \in {1, 2, 4, 8, 16} : a >= size} \cup {16}
  <2>1. T \subseteq Nat /\ T # {} /\ T \subseteq {1, 2, 4, 8, 16}
    OBVIOUS
  <2>2. unit = Min(T)
    BY DEF fixed_alignment
  <2> HIDE DEF T, unit
  <2> QED
    BY <2>1, <2>2, MinLeast
<1> HIDE DEF unit
<1>3. unit \in Nat /\ unit > 0
  BY <1>2
<1>4. aligned \in Nat /\ h.used <= aligned
  BY <1>1, <1>3, RoundsUp
<1> HIDE DEF aligned
<1>5. CASE u > FixedCapacity
  <2>1. fixed_alloc(h, size) = Failed(h)
    BY <1>5 DEF fixed_alloc, aligned, unit
  <2> QED
    BY <2>1 DEF Failed, Granted
<1>6. CASE ~(u > FixedCapacity)
  <2>1. fixed_alloc(h, size) = [h |-> g, p |-> p]
    <3>1. fixed_alloc(h, size) = Allocated([h EXCEPT !.used = u], p)
      BY <1>6 DEF fixed_alloc, aligned, unit
    <3>2. [[h EXCEPT !.used = u] EXCEPT !.data = Put(@, p, <<>>)] = g
      BY DEF Holding, Book, IsHeap, With
    <3> HIDE DEF g, u, p
    <3> QED
      BY <3>1, <3>2 DEF Allocated
  <2>2. /\ p \in Nat /\ u \in Nat /\ u <= FixedCapacity /\ FixedBase + h.used <= p
        /\ p + size <= FixedBase + u
    BY <1>1, <1>4, <1>6, HeapAssumption
  <2> HIDE DEF u, p, g
  <2>3. /\ Holding(g, O \cup {Owner(role, "fixed", p, size)})
        /\ p \notin DOMAIN h.data /\ p # 0 /\ g.data = Put(h.data, p, <<>>)
    <3>1. PICK e : e = <<>>
      OBVIOUS
    <3>2. g = With(h, u, Put(h.data, p, e))
      BY <3>1 DEF g
    <3>3. /\ Holding(g, O \cup {Owner(role, "fixed", p, size)})
          /\ p \notin DOMAIN h.data /\ p # 0 /\ g.data = Put(h.data, p, e)
      <4>1. Behind(h, p, size, u)
        BY <2>2 DEF Behind
      <4>2. p \notin DOMAIN h.data
        BY <3>2, <4>1, HeldMoreFixed
      <4>3. p # 0
        BY <3>2, <4>1, HeldMoreFixed
      <4>4. g.data = Put(h.data, p, e)
        BY <3>2 DEF With, Holding, Book, IsHeap
      <4>5. Holding(g, O \cup {Owner(role, "fixed", p, size)})
        BY <3>2, <4>1, HeldMoreFixed
      <4> QED
        BY <4>2, <4>3, <4>4, <4>5
    <3> QED
      BY <3>1, <3>3
  <2>4. Granted([h |-> g, p |-> p], h, O, role, "fixed", size)
    BY <2>2, <2>3 DEF Granted
  <2> QED
    BY <2>1, <2>4
<1> QED
  BY <1>5, <1>6

\* Every allocator grants its caller a block nobody else holds, or refuses
\* (__allocator_alloc).
LEMMA HeldAlloc ==
  ASSUME NEW h, NEW O, Holding(h, O), NEW role, NEW by \in {"page", "fixed", "user"},
         NEW size \in Nat, size > 0, NEW grows \in BOOLEAN
  PROVE  Granted(allocator_alloc(by, h, size, grows), h, O, role, by, size)
<1>1. CASE by = "page"
  BY <1>1, PagedGranted DEF allocator_alloc
<1>2. CASE by = "fixed"
  BY <1>2, FixedGranted DEF allocator_alloc
<1>3. CASE by = "user"
  BY <1>3, PagedGranted DEF allocator_alloc, user_alloc
<1> QED
  BY <1>1, <1>2, <1>3

\* A block given back is nobody's, and the other blocks stay their owners'
\* (__allocator_free).
LEMMA HeldFree ==
  ASSUME NEW h, NEW O, Holding(h, O), NEW o \in O
  PROVE  LET g == allocator_free(o.by, h, o.p)
         IN  Holding(g, O \ {o}) /\ g.data = Drop(h.data, o.p)
<1> DEFINE g == allocator_free(o.by, h, o.p)
<1>1. o.p # 0 /\ o.p \in Nat /\ o.by \in {"page", "fixed", "user"}
  BY DEF Holding, IsOwner
<1>2. CASE o.by = "fixed"
  <2>1. g = [h EXCEPT !.data = Drop(h.data, o.p)]
    BY <1>1, <1>2 DEF allocator_free
  <2> QED
    BY ZenonT(30), <1>2, <2>1, HeldLessFixed
<1>3. CASE o.by # "fixed"
  <2>1. g = page_free(h, o.p)
    BY <1>1, <1>3 DEF allocator_free, user_release
  <2>2. o.p - HeaderSize \in InUse(h)
    BY <1>3 DEF Holding, Paged
  <2>3. PageFreed(g, h, o.p)
    BY <1>1, <2>1, <2>2, PageFree DEF Holding
  <2> HIDE DEF g
  <2>4. Holding(g, O \ {o}) /\ g.data = Drop(h.data, o.p)
    BY <1>3, <2>3, HeldLessPaged
  <2> QED
    BY <2>4 DEF g
<1> QED
  BY <1>2, <1>3

\* Nothing is given back for the address of nothing.
LEMMA FreeNothing ==
  ASSUME NEW h, IsHeap(h), NEW by \in {"page", "fixed", "user"}
  PROVE  allocator_free(by, h, 0) = h
<1>1. page_free(h, 0) = h
  BY DEF page_free
<1>2. [h EXCEPT !.data = @] = h
  BY DEF IsHeap
<1> QED
  BY <1>1, <1>2 DEF allocator_free

\* As much as a block held is all that is copied from it.
LEMMA CopiedWhole ==
  ASSUME NEW h, NEW p, NEW E, h.data[p] \in Seq(E), NEW bytes \in Nat, NEW unit \in Nat, unit > 0,
         Len(h.data[p]) <= bytes \div unit
  PROVE  Copied(h, p, bytes, unit) = h.data[p]
<1> DEFINE s == h.data[p]
           T == {Len(s), bytes \div unit}
<1>1. Len(s) \in Nat /\ bytes \div unit \in Nat
  OBVIOUS
<1>2. T \subseteq Nat /\ T # {} /\ Len(s) \in T /\ \A x \in T : x = Len(s) \/ x = bytes \div unit
  BY <1>1
<1>3. Min(T) \in T /\ Min(T) <= Len(s)
  <2> HIDE DEF T
  <2> QED
    BY <1>2, MinLeast
<1>4. Min(T) = Len(s)
  BY <1>1, <1>3
<1>5. SubSeq(s, 1, Len(s)) = s
  <2> HIDE DEF s
  <2>1. s \in Seq(E)
    BY DEF s
  <2> QED
    BY <2>1
<1> QED
  BY <1>4, <1>5 DEF Copied

\* The blocks of a heap keep their owners when the new block has taken over
\* what the old one held and the old one is given back.
LEMMA HeldMoved ==
  ASSUME NEW h, NEW O, Holding(h, O), NEW o \in O, NEW new \in Nat, new > 0,
         NEW g, g.p # 0, Granted(g, h, O, o.role, o.by, new), NEW bytes, NEW unit,
         Copied(h, o.p, bytes, unit) = h.data[o.p]
  PROVE  Regranted([h |-> allocator_free(o.by, Moved(g, h, o.p, bytes, unit), o.p), p |-> g.p],
                   h, O, o, new)
<1> DEFINE n == Owner(o.role, o.by, g.p, new)
           N == O \cup {n}
           m == Moved(g, h, o.p, bytes, unit)
           f == allocator_free(o.by, m, o.p)
<1>1. /\ g.p \in Nat /\ g.p \notin DOMAIN h.data /\ Holding(g.h, N)
      /\ g.h.data = Put(h.data, g.p, <<>>)
  BY DEF Granted
<1>2. o.p \in DOMAIN h.data /\ o.p # g.p
  BY <1>1 DEF Holding
<1>3. n.p = g.p
  BY DEF Owner
<1> HIDE DEF n
<1> DEFINE d == [g.h.data EXCEPT ![g.p] = h.data[o.p]]
<1>4. DOMAIN d = DOMAIN h.data \cup {g.p} /\ d[g.p] = h.data[o.p] /\ IsMap(d)
      /\ \A x \in DOMAIN h.data : d[x] = h.data[x]
  BY <1>1, <1>2 DEF Put, IsMap
<1> HIDE DEF d, m
<1>5. m = With(g.h, g.h.used, d)
  <2>1. IsHeap(g.h)
    BY <1>1 DEF Holding, Book
  <2>2. m = [g.h EXCEPT !.data = d]
    BY DEF m, d, Moved
  <2> QED
    BY <2>1, <2>2 DEF IsHeap, With
<1>6. /\ IsHeap(m) /\ m.end = g.h.end /\ m.pages = g.h.pages /\ m.free = g.h.free
      /\ m.cap = g.h.cap /\ m.used = g.h.used /\ m.data = d
  <2>1. IsHeap(g.h) /\ g.h.used \in Nat
    BY <1>1, BookFacts DEF Holding, Book
  <2> QED
    BY <1>4, <1>5, <2>1, EditFixed
<1>7. DOMAIN m.data = DOMAIN g.h.data
  BY <1>1, <1>4, <1>6 DEF Put
<1>8. Holding(m, N)
  <2> HIDE DEF N
  <2> QED
    BY <1>1, <1>6, <1>7, HeldWrite
<1>9. Holding(f, N \ {o}) /\ f.data = Drop(m.data, o.p)
  <2>1. o \in N
    OBVIOUS
  <2>2. LET f_ == allocator_free(o.by, m, o.p)
        IN  Holding(f_, N \ {o}) /\ f_.data = Drop(m.data, o.p)
    <3> HIDE DEF N
    <3> QED
      BY <1>8, <2>1, HeldFree
  <2> QED
    BY <2>2 DEF f
<1> HIDE DEF f
<1>10. N \ {o} = (O \ {o}) \cup {n}
  BY <1>2, <1>3
<1>11. f.data = Rehomed(h.data, o.p, g.p)
  <2>1. f.data = [x \in (DOMAIN h.data \cup {g.p}) \ {o.p} |-> d[x]]
    BY <1>4, <1>6, <1>9 DEF Drop
  <2>2. (DOMAIN h.data \cup {g.p}) \ {o.p} = (DOMAIN h.data \ {o.p}) \cup {g.p}
    BY <1>2
  <2>3. \A x \in (DOMAIN h.data \ {o.p}) \cup {g.p} :
           d[x] = IF x = g.p THEN h.data[o.p] ELSE h.data[x]
    BY <1>4
  <2> QED
    BY <2>1, <2>2, <2>3 DEF Rehomed
<1>12. Regranted([h |-> f, p |-> g.p], h, O, o, new)
  BY <1>1, <1>9, <1>10, <1>11 DEF Regranted, n
<1> QED
  BY <1>12 DEF f, m

\* Storage that stays where it is holds what it held.
LEMMA RehomedSame ==
  ASSUME NEW d, IsMap(d), NEW p \in DOMAIN d
  PROVE  Rehomed(d, p, p) = d
  BY DEF Rehomed, IsMap

\* A reallocation grows the block in place or moves what it holds to a new one,
\* or refuses and leaves the old block to its owner (__allocator_realloc).
THEOREM HeldRealloc ==
  ASSUME NEW h, NEW O, Holding(h, O), NEW o \in O, NEW new \in Nat, new >= o.size,
         NEW unit \in Nat, unit > 0, NEW grows \in BOOLEAN,
         NEW E, h.data[o.p] \in Seq(E), Len(h.data[o.p]) <= o.size \div unit
  PROVE  Regranted(allocator_realloc(o.by, h, o.p, o.size, new, unit, grows), h, O, o, new)
<1>1. /\ o.p # 0 /\ o.p \in Nat /\ o.by \in {"page", "fixed", "user"} /\ o.size \in Nat
      /\ o.size > 0 /\ new > 0 /\ o = Owner(o.role, o.by, o.p, o.size) /\ o.p \in DOMAIN h.data
      /\ IsMap(h.data)
  BY DEF Holding, IsOwner, Book, IsHeap, IsMap
<1> DEFINE bytes == Min({o.size, new})
<1>2. bytes = o.size
  <2> DEFINE T == {o.size, new}
  <2>1. T \subseteq Nat /\ T # {} /\ o.size \in T /\ \A x \in T : x = o.size \/ x = new
    BY <1>1
  <2>2. bytes = Min(T)
    OBVIOUS
  <2> HIDE DEF T, bytes
  <2>3. bytes \in T /\ bytes <= o.size
    BY <2>1, <2>2, MinLeast
  <2> QED
    BY <1>1, <2>1, <2>3
<1> HIDE DEF bytes
<1>3. Copied(h, o.p, bytes, unit) = h.data[o.p]
  BY <1>1, <1>2, CopiedWhole
<1>4. ASSUME NEW g, Granted(g, h, O, o.role, o.by, new), g.p # 0
      PROVE  Regranted([h |-> allocator_free(o.by, Moved(g, h, o.p, bytes, unit), o.p),
                        p |-> g.p], h, O, o, new)
  BY <1>1, <1>3, <1>4, HeldMoved
<1>5. Regranted(Failed(h), h, O, o, new)
  BY DEF Regranted, Failed
<1>6. ASSUME NEW g, Granted(g, h, O, o.role, o.by, new), g.p = 0
      PROVE  g.h = h /\ Regranted(g, h, O, o, new)
  BY <1>6 DEF Granted, Regranted
<1>7. CASE o.by = "page"
  <2> DEFINE g == page_alloc(h, new, grows)
  <2>1. Granted(g, h, O, o.role, o.by, new)
    BY <1>1, <1>7, PagedGranted
  <2>2. allocator_realloc(o.by, h, o.p, o.size, new, unit, grows) =
          IF new <= h.cap[o.p - HeaderSize] THEN [h |-> h, p |-> o.p]
          ELSE page_realloc_moved(g, h, o.p, bytes, unit)
    BY <1>1, <1>7 DEF allocator_realloc, page_realloc, bytes
  <2> HIDE DEF g
  <2>3. CASE new <= h.cap[o.p - HeaderSize]
    <3>1. Holding(h, (O \ {o}) \cup {Owner(o.role, o.by, o.p, new)})
      BY <1>1, <1>7, <2>3, HeldGrownPaged
    <3>2. Regranted([h |-> h, p |-> o.p], h, O, o, new)
      BY <1>1, <3>1, RehomedSame DEF Regranted
    <3> QED
      BY <2>2, <2>3, <3>2
  <2>4. CASE ~(new <= h.cap[o.p - HeaderSize])
    <3>1. page_free(Moved(g, h, o.p, bytes, unit), o.p) =
            allocator_free(o.by, Moved(g, h, o.p, bytes, unit), o.p)
      BY <1>7 DEF allocator_free
    <3>2. page_realloc_moved(g, h, o.p, bytes, unit) =
            IF g.p = 0 THEN Failed(h)
            ELSE [h |-> allocator_free(o.by, Moved(g, h, o.p, bytes, unit), o.p), p |-> g.p]
      BY <3>1 DEF page_realloc_moved
    <3> QED
      BY <1>4, <1>5, <2>1, <2>2, <2>4, <3>2
  <2> QED
    BY <2>3, <2>4
<1>8. CASE o.by = "fixed"
  <2> DEFINE g == fixed_alloc(h, new)
             u == h.used - o.size + new
             fits == o.p + o.size = FixedBase + h.used /\ u <= FixedCapacity
  <2>1. Granted(g, h, O, o.role, o.by, new)
    BY <1>1, <1>8, FixedGranted
  <2>2. allocator_realloc(o.by, h, o.p, o.size, new, unit, grows) =
          IF fits THEN [h |-> [h EXCEPT !.used = u], p |-> o.p]
          ELSE fixed_realloc_moved(g, h, o.p, bytes, unit)
    BY <1>1, <1>8 DEF allocator_realloc, fixed_realloc, bytes
  <2>3. CASE fits
    <3> DEFINE f == [h EXCEPT !.used = h.used - o.size + new]
    <3>1. Holding(f, (O \ {o}) \cup {Owner(o.role, o.by, o.p, new)}) /\ f.data = h.data
      BY <1>1, <1>8, <2>3, HeldGrownFixed
    <3> HIDE DEF f
    <3>2. Regranted([h |-> f, p |-> o.p], h, O, o, new)
      BY <1>1, <3>1, RehomedSame DEF Regranted
    <3> QED
      BY <2>2, <2>3, <3>2 DEF f
  <2>4. CASE ~fits
    <3> HIDE DEF g, fits, u
    <3>1. [Moved(g, h, o.p, bytes, unit) EXCEPT !.data = Drop(@, o.p)] =
            allocator_free(o.by, Moved(g, h, o.p, bytes, unit), o.p)
      BY <1>1, <1>8 DEF allocator_free
    <3>2. fixed_realloc_moved(g, h, o.p, bytes, unit) =
            IF g.p = 0 THEN g
            ELSE [h |-> allocator_free(o.by, Moved(g, h, o.p, bytes, unit), o.p), p |-> g.p]
      BY <1>1, <3>1 DEF fixed_realloc_moved
    <3> QED
      BY <1>4, <1>6, <2>1, <2>2, <2>4, <3>2
  <2> QED
    BY <2>3, <2>4
<1>9. CASE o.by = "user"
  <2> DEFINE g == page_alloc(h, new, grows)
  <2>1. Granted(g, h, O, o.role, o.by, new)
    BY <1>1, <1>9, PagedGranted
  <2>2. allocator_realloc(o.by, h, o.p, o.size, new, unit, grows) =
          user_realloc_moved(g, h, o.p, bytes, unit)
    BY <1>9 DEF allocator_realloc, user_realloc, user_alloc, bytes
  <2> HIDE DEF g
  <2>3. user_release(Moved(g, h, o.p, bytes, unit), o.p) =
          allocator_free(o.by, Moved(g, h, o.p, bytes, unit), o.p)
    BY <1>1, <1>9 DEF allocator_free
  <2>4. user_realloc_moved(g, h, o.p, bytes, unit) =
          IF g.p = 0 THEN g
          ELSE [h |-> allocator_free(o.by, Moved(g, h, o.p, bytes, unit), o.p), p |-> g.p]
    BY <1>1, <2>3 DEF user_realloc_moved
  <2> QED
    BY <1>4, <1>6, <2>1, <2>2, <2>4
<1> QED
  BY <1>1, <1>7, <1>8, <1>9

\* What has no block yet is given one.
LEMMA HeldFirst ==
  ASSUME NEW h, NEW O, Holding(h, O), NEW role, NEW by \in {"page", "fixed", "user"},
         NEW new \in Nat, new > 0, NEW unit, NEW grows \in BOOLEAN
  PROVE  Granted(allocator_realloc(by, h, 0, 0, new, unit, grows), h, O, role, by, new)
<1>1. CASE by = "page"
  BY <1>1, PagedGranted DEF allocator_realloc, page_realloc
<1>2. CASE by = "fixed"
  <2>1. allocator_realloc(by, h, 0, 0, new, unit, grows) = fixed_alloc(h, new)
    BY <1>2 DEF allocator_realloc, fixed_realloc, fixed_realloc_moved
  <2> QED
    BY <1>2, <2>1, FixedGranted
<1>3. CASE by = "user"
  <2>1. allocator_realloc(by, h, 0, 0, new, unit, grows) = page_alloc(h, new, grows)
    BY <1>3 DEF allocator_realloc, user_realloc, user_realloc_moved, user_alloc
  <2> QED
    BY <1>3, <2>1, PagedGranted
<1> QED
  BY <1>1, <1>2, <1>3

=============================================================================
