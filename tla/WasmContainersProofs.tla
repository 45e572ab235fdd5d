------------------------ MODULE WasmContainersProofs ------------------------
(***************************************************************************)
(* Proofs that the containers of the wasm runtime keep what a program put  *)
(* into them and own the blocks of the heap between them, each block once, *)
(* through every order of operations and refusals of the allocators.       *)
(*                                                                         *)
(* First the map: an index in which every entry is filed finds each key    *)
(* and no other, probed slot by slot or in groups, and the operations of   *)
(* the map keep it so, through growth, refusal and removal, over whichever *)
(* allocator the map was made with.                                        *)
(***************************************************************************)
EXTENDS WasmContainers, WasmHeapProofs

-----------------------------------------------------------------------------
(* The index                                                               *)

Slots(mp) == 1 .. mp.icap
IndexEntry == [control : Nat, number : Nat]

\* The first n entries are filed in the index: a slot in use names one of them
\* and bears its tag, no two name the same, and no slot is free on the way of
\* an entry's probe to its own.
Filed(idx, ents, n, mp) ==
  /\ idx \in [Slots(mp) -> IndexEntry]
  /\ \A s \in Slots(mp) : idx[s].control # 128 =>
        /\ idx[s].number + 1 \in 1 .. n
        /\ idx[s].control = Tag(ents[idx[s].number + 1].hash)
  /\ \A s, t \in Slots(mp) :
        idx[s].control # 128 /\ idx[t].control # 128 /\ idx[s].number = idx[t].number => s = t
  /\ \A i \in 1 .. n : \E d \in 0 .. mp.icap - 1 :
        /\ idx[SlotAt(mp, ents[i].hash, d)].control # 128
        /\ idx[SlotAt(mp, ents[i].hash, d)].number = i - 1
        /\ \A x \in 0 .. d - 1 : idx[SlotAt(mp, ents[i].hash, x)].control # 128

\* The remainder of a multiple and a smaller number.
LEMMA ModIs ==
  \A q, r, u \in Nat : r < u => (q * u + r) % u = r
  OBVIOUS

\* A number is its quotient times the divisor and its remainder.
LEMMA DivIs ==
  \A n, u \in Nat : u > 0 => /\ n \div u \in Nat /\ n % u \in 0 .. u - 1
                             /\ n = (n \div u) * u + (n % u)
  OBVIOUS

\* A probe stays in the index.
LEMMA SlotIn ==
  ASSUME NEW mp, mp.icap \in Nat, mp.icap > 0, NEW hash \in Nat, NEW d \in Nat
  PROVE  SlotAt(mp, hash, d) \in Slots(mp)
<1> DEFINE u == mp.icap
           n == hash + d
<1>1. u \in Nat /\ u > 0 /\ n \in Nat
  OBVIOUS
<1> HIDE DEF u, n
<1>2. n % u \in 0 .. u - 1
  BY <1>1, DivIs
<1>3. (n % u) + 1 \in 1 .. u
  BY <1>1, <1>2
<1> QED
  BY <1>3 DEF SlotAt, Slots, u, n

\* A probe comes to every slot.
LEMMA ProbesAll ==
  ASSUME NEW mp, mp.icap \in Nat, mp.icap > 0, NEW hash \in Nat, NEW s \in Slots(mp)
  PROVE  \E d \in 0 .. mp.icap - 1 : SlotAt(mp, hash, d) = s
<1> DEFINE u == mp.icap
           q == hash \div u
           r == hash % u
           t == s - 1
<1>1. u \in Nat /\ u > 0 /\ q \in Nat /\ r \in 0 .. u - 1 /\ hash = q * u + r
  BY DivIs
<1>2. t \in 0 .. u - 1 /\ s = t + 1
  BY <1>1 DEF Slots
<1> HIDE DEF q, r, t, u
<1>3. CASE t >= r
  <2>1. t - r \in 0 .. u - 1 /\ hash + (t - r) = q * u + t
    BY <1>1, <1>2, <1>3
  <2>2. (hash + (t - r)) % u = t
    BY <1>1, <1>2, <2>1, ModIs
  <2> QED
    BY <1>2, <2>1, <2>2 DEF SlotAt, u
<1>4. CASE t < r
  <2>1. t - r + u \in 0 .. u - 1
    BY <1>1, <1>2, <1>4
  <2>2. hash + (t - r + u) = (q + 1) * u + t
    BY <1>1, <1>2
  <2>3. (hash + (t - r + u)) % u = t
    BY <1>1, <1>2, <2>2, ModIs
  <2> QED
    BY <1>2, <2>1, <2>3 DEF SlotAt, u
<1> QED
  BY <1>1, <1>2, <1>3, <1>4

\* Fewer entries than slots leave a slot free.
LEMMA FreeSlotLeft ==
  ASSUME NEW mp, mp.icap \in Nat, NEW idx, NEW ents, NEW n \in Nat, n < mp.icap,
         Filed(idx, ents, n, mp)
  PROVE  \E s \in Slots(mp) : idx[s].control = 128
<1> SUFFICES ASSUME \A s \in Slots(mp) : idx[s].control # 128
             PROVE  FALSE
  OBVIOUS
<1> DEFINE f == [s \in Slots(mp) |-> idx[s].number + 1]
<1>1. f \in [Slots(mp) -> 1 .. n]
  BY DEF Filed
<1>2. /\ IsFiniteSet(Slots(mp)) /\ Cardinality(Slots(mp)) = mp.icap
      /\ IsFiniteSet(1 .. n) /\ Cardinality(1 .. n) = n
  <2>1. \A m \in Nat : IsFiniteSet(1 .. m) /\ Cardinality(1 .. m) = m
    <3> TAKE m \in Nat
    <3>1. 1 \in Int /\ m \in Int
      OBVIOUS
    <3>2. IsFiniteSet(1 .. m) /\ Cardinality(1 .. m) = IF 1 > m THEN 0 ELSE m - 1 + 1
      BY <3>1, FS_Interval
    <3> QED
      BY <3>2
  <2> QED
    BY <2>1 DEF Slots
<1>3. \E s, t \in Slots(mp) : s # t /\ f[s] = f[t]
  <2> HIDE DEF f
  <2> QED
    BY <1>1, <1>2, FS_PigeonHole
<1>4. PICK s \in Slots(mp), t \in Slots(mp) : s # t /\ idx[s].number + 1 = idx[t].number + 1
  BY <1>3
<1>5. idx[s].number \in Nat /\ idx[t].number \in Nat
  BY DEF Filed, IndexEntry
<1>6. idx[s].number = idx[t].number
  BY <1>4, <1>5
<1> QED
  BY <1>4, <1>6 DEF Filed

\* The first free slot of a probe.
FreeDistances(idx, mp, hash) ==
  {x \in 0 .. mp.icap - 1 : idx[SlotAt(mp, hash, x)].control = 128}

FirstFree(idx, mp, hash, d) ==
  /\ d \in 0 .. mp.icap - 1 /\ idx[SlotAt(mp, hash, d)].control = 128
  /\ \A x \in 0 .. d - 1 : idx[SlotAt(mp, hash, x)].control # 128

\* Filing an entry finds the first free slot of its probe, since one is free.
LEMMA FirstFreeIs ==
  ASSUME NEW mp, mp.icap \in Nat, NEW idx, NEW ents, NEW n \in Nat, n < mp.icap,
         Filed(idx, ents, n, mp), NEW hash \in Nat
  PROVE  FirstFree(idx, mp, hash, Min(FreeDistances(idx, mp, hash)))
<1> DEFINE T == FreeDistances(idx, mp, hash)
           d == Min(T)
<1>1. T \subseteq Nat /\ T \subseteq 0 .. mp.icap - 1
  BY DEF FreeDistances
<1>2. T # {}
  <2>1. PICK s \in Slots(mp) : idx[s].control = 128
    BY FreeSlotLeft
  <2>2. PICK x \in 0 .. mp.icap - 1 : SlotAt(mp, hash, x) = s
    BY ProbesAll
  <2> QED
    BY <2>1, <2>2 DEF FreeDistances
<1>3. d \in T /\ \A y \in T : d <= y
  <2> HIDE DEF T
  <2> QED
    BY <1>1, <1>2, MinLeast
<1>4. d \in Nat /\ d \in 0 .. mp.icap - 1
  BY <1>1, <1>3
<1> HIDE DEF d
<1>5. ASSUME NEW x \in 0 .. d - 1 PROVE idx[SlotAt(mp, hash, x)].control # 128
  <2>1. x \in 0 .. mp.icap - 1 /\ ~(d <= x)
    BY <1>4
  <2>2. x \notin T
    BY <1>3, <2>1
  <2> QED
    BY <2>1, <2>2 DEF FreeDistances
<1>6. idx[SlotAt(mp, hash, d)].control = 128
  BY <1>3 DEF FreeDistances
<1>7. FirstFree(idx, mp, hash, d)
  BY <1>4, <1>5, <1>6 DEF FirstFree
<1> QED
  BY <1>7 DEF d

\* An entry goes to the first free slot of its probe.
LEMMA FilesOneMore ==
  ASSUME NEW mp, mp.icap \in Nat, NEW idx, NEW ents, NEW n \in Nat, Filed(idx, ents, n, mp),
         NEW hash \in Nat, Tag(hash) \in Nat, Tag(hash) # 128,
         NEW d, FirstFree(idx, mp, hash, d),
         NEW more, more[n + 1].hash = hash, \A i \in 1 .. n : more[i].hash = ents[i].hash,
         NEW s, s = SlotAt(mp, hash, d),
         NEW new, new = [idx EXCEPT ![s] = [control |-> Tag(hash), number |-> n]]
  PROVE  Filed(new, more, n + 1, mp)
<1>1. mp.icap > 0 /\ d \in Nat /\ d \in 0 .. mp.icap - 1
  BY DEF FirstFree
<1>2. s \in Slots(mp) /\ idx[s].control = 128
  BY <1>1, SlotIn DEF FirstFree
<1>3. /\ new \in [Slots(mp) -> IndexEntry] /\ new[s].control = Tag(hash) /\ new[s].number = n
      /\ \A t \in Slots(mp) \ {s} : new[t] = idx[t]
  BY <1>2 DEF Filed, IndexEntry
<1>4. \A t \in Slots(mp) : idx[t].control # 128 => new[t] = idx[t] /\ t # s
  BY <1>2, <1>3
<1>5. ASSUME NEW t \in Slots(mp), new[t].control # 128
      PROVE  new[t].number + 1 \in 1 .. n + 1 /\ new[t].control = Tag(more[new[t].number + 1].hash)
  <2>1. CASE t = s
    BY <1>3, <2>1
  <2>2. CASE t # s
    <3>1. new[t] = idx[t] /\ idx[t].number + 1 \in 1 .. n
          /\ idx[t].control = Tag(ents[idx[t].number + 1].hash)
      BY <1>3, <1>5, <2>2 DEF Filed
    <3> QED
      BY <3>1
  <2> QED
    BY <2>1, <2>2
<1>6. ASSUME NEW t \in Slots(mp), new[t].control # 128, t # s PROVE new[t].number < n
  <2>1. new[t] = idx[t] /\ idx[t].number + 1 \in 1 .. n /\ idx[t].number \in Nat
    BY <1>3, <1>6 DEF Filed, IndexEntry
  <2> QED
    BY <2>1
<1>7. ASSUME NEW t \in Slots(mp), NEW r \in Slots(mp), new[t].control # 128,
             new[r].control # 128, new[t].number = new[r].number
      PROVE  t = r
  <2>1. CASE t = s \/ r = s
    BY <1>3, <1>6, <1>7, <2>1
  <2>2. CASE t # s /\ r # s
    BY <1>3, <1>7, <2>2 DEF Filed
  <2> QED
    BY <2>1, <2>2
<1>8. ASSUME NEW i \in 1 .. n + 1
      PROVE  \E e \in 0 .. mp.icap - 1 :
               /\ new[SlotAt(mp, more[i].hash, e)].control # 128
               /\ new[SlotAt(mp, more[i].hash, e)].number = i - 1
               /\ \A x \in 0 .. e - 1 : new[SlotAt(mp, more[i].hash, x)].control # 128
  <2>1. CASE i = n + 1
    <3>1. more[i].hash = hash /\ i - 1 = n
      BY <2>1
    <3>2. ASSUME NEW x \in 0 .. d - 1 PROVE new[SlotAt(mp, hash, x)].control # 128
      <4>1. SlotAt(mp, hash, x) \in Slots(mp) /\ idx[SlotAt(mp, hash, x)].control # 128
        BY <1>1, SlotIn DEF FirstFree
      <4> QED
        BY <1>4, <4>1
    <3> QED
      BY <1>1, <1>3, <3>1, <3>2
  <2>2. CASE i \in 1 .. n
    <3>1. PICK e \in 0 .. mp.icap - 1 :
            /\ idx[SlotAt(mp, ents[i].hash, e)].control # 128
            /\ idx[SlotAt(mp, ents[i].hash, e)].number = i - 1
            /\ \A x \in 0 .. e - 1 : idx[SlotAt(mp, ents[i].hash, x)].control # 128
      BY <2>2 DEF Filed
    <3>2. more[i].hash = ents[i].hash
      BY <2>2
    <3>3. \A x \in Nat : SlotAt(mp, ents[i].hash, x) \in Slots(mp) =>
             (idx[SlotAt(mp, ents[i].hash, x)].control # 128 =>
                new[SlotAt(mp, ents[i].hash, x)] = idx[SlotAt(mp, ents[i].hash, x)])
      BY <1>4
    <3> QED
      BY <1>1, <1>3, <3>1, <3>2, <3>3
  <2> QED
    BY <2>1, <2>2
<1> QED
  BY <1>3, <1>5, <1>7, <1>8 DEF Filed

\* Filing the entries one after another is what the recursion says.
LEMMA FiledIs ==
  ASSUME NEW ents, Len(ents) \in Nat, NEW mp
  PROVE  \A n \in 0 .. Len(ents) :
           map_filed(ents, mp)[n] =
             IF n = 0 THEN [s \in 1 .. mp.icap |-> FreeSlot]
             ELSE map_file(map_filed(ents, mp)[n - 1], mp, ents[n].hash, n)
<1> DEFINE base == [s \in 1 .. mp.icap |-> FreeSlot]
           Step(f, n) == map_file(f, mp, ents[n].hash, n)
           P(m) == \E g : g = [n \in 0 .. m |-> IF n = 0 THEN base ELSE Step(g[n - 1], n)]
           T == {m \in Nat : ~P(m)}
<1> HIDE DEF base, Step
<1>1. T = {}
  <2> SUFFICES ASSUME T # {} PROVE FALSE
    OBVIOUS
  <2>1. T \subseteq Nat
    OBVIOUS
  <2>2. PICK m \in T : \A y \in T : m <= y
    <3> HIDE DEF T
    <3> QED
      BY <2>1, Least
  <2>3. CASE m = 0
    <3> DEFINE g == [n \in 0 .. 0 |-> base]
    <3>1. g = [n \in 0 .. 0 |-> IF n = 0 THEN base ELSE Step(g[n - 1], n)]
      OBVIOUS
    <3> HIDE DEF g
    <3> QED
      BY <2>2, <2>3, <3>1
  <2>4. CASE m # 0
    <3>1. m \in Nat /\ m - 1 \in Nat /\ ~(m <= m - 1)
      BY <2>4
    <3>2. P(m - 1)
      BY <2>2, <3>1
    <3> HIDE DEF T
    <3>3. PICK g : g = [n \in 0 .. m - 1 |-> IF n = 0 THEN base ELSE Step(g[n - 1], n)]
      BY <3>2
    <3> DEFINE new == [n \in 0 .. m |-> IF n = m THEN Step(g[m - 1], m) ELSE g[n]]
    <3>4. ASSUME NEW n \in 0 .. m
          PROVE  new[n] = IF n = 0 THEN base ELSE Step(new[n - 1], n)
      <4>1. CASE n = m
        <5>1. m - 1 \in 0 .. m /\ m - 1 # m /\ n # 0
          BY <2>4, <3>1, <4>1
        <5> QED
          BY <4>1, <5>1
      <4>2. CASE n # m
        <5>1. n \in 0 .. m - 1
          BY <3>1, <4>2
        <5>2. new[n] = g[n] /\ g[n] = IF n = 0 THEN base ELSE Step(g[n - 1], n)
          BY <3>3, <4>2, <5>1
        <5>3. n # 0 => n - 1 \in 0 .. m /\ n - 1 # m /\ new[n - 1] = g[n - 1]
          BY <3>1, <5>1
        <5> QED
          BY <5>2, <5>3
      <4> QED
        BY <4>1, <4>2
    <3>5. new = [n \in 0 .. m |-> IF n = 0 THEN base ELSE Step(new[n - 1], n)]
      <4>1. new = [n \in 0 .. m |-> new[n]]
        OBVIOUS
      <4> HIDE DEF new
      <4> QED
        BY <3>4, <4>1
    <3> HIDE DEF new
    <3>6. P(m)
      BY <3>5
    <3> QED
      BY <2>2, <3>6 DEF T
  <2> QED
    BY <2>3, <2>4
<1>2. P(Len(ents))
  BY <1>1
<1> DEFINE f == map_filed(ents, mp)
<1>3. f = [n \in 0 .. Len(ents) |-> IF n = 0 THEN base ELSE Step(f[n - 1], n)]
  BY <1>2 DEF map_filed, base, Step
<1> HIDE DEF f
<1>4. \A n \in 0 .. Len(ents) : f[n] = IF n = 0 THEN base ELSE Step(f[n - 1], n)
  BY <1>3
<1> QED
  BY <1>4 DEF f, base, Step

HashesOk(ents) ==
  \A i \in 1 .. Len(ents) :
    ents[i].hash \in Nat /\ Tag(ents[i].hash) \in Nat /\ Tag(ents[i].hash) # 128

\* An index whose slots are free files no entry.
LEMMA EmptyFiles ==
  ASSUME NEW mp, NEW ents, NEW idx \in [Slots(mp) -> IndexEntry],
         \A s \in Slots(mp) : idx[s].control = 128
  PROVE  Filed(idx, ents, 0, mp)
<1> DEFINE none == 1 .. 0
<1>1. none = {}
  OBVIOUS
<1>2. /\ \A s \in Slots(mp) : idx[s].control # 128 =>
            /\ idx[s].number + 1 \in none
            /\ idx[s].control = Tag(ents[idx[s].number + 1].hash)
      /\ \A s, t \in Slots(mp) :
            idx[s].control # 128 /\ idx[t].control # 128 /\ idx[s].number = idx[t].number => s = t
  OBVIOUS
<1>3. \A i \in none : \E d \in 0 .. mp.icap - 1 :
         /\ idx[SlotAt(mp, ents[i].hash, d)].control # 128
         /\ idx[SlotAt(mp, ents[i].hash, d)].number = i - 1
         /\ \A x \in 0 .. d - 1 : idx[SlotAt(mp, ents[i].hash, x)].control # 128
  BY <1>1, Zenon
<1> QED
  BY <1>2, <1>3, Zenon DEF Filed

\* An index made anew has every entry filed.
LEMMA PlaceFiles ==
  ASSUME NEW mp, mp.icap \in Nat, NEW ents, Len(ents) \in Nat, Len(ents) <= mp.icap,
         HashesOk(ents)
  PROVE  Filed(map_place(ents, mp), ents, Len(ents), mp)
<1> DEFINE f == map_filed(ents, mp)
           T == {n \in 0 .. Len(ents) : ~Filed(f[n], ents, n, mp)}
<1>1. \A n \in 0 .. Len(ents) :
        f[n] = IF n = 0 THEN [s \in 1 .. mp.icap |-> FreeSlot]
               ELSE map_file(f[n - 1], mp, ents[n].hash, n)
  BY FiledIs
<1> HIDE DEF f
<1>2. T = {}
  <2> SUFFICES ASSUME T # {} PROVE FALSE
    OBVIOUS
  <2>1. T \subseteq Nat
    OBVIOUS
  <2>2. PICK n \in T : \A y \in T : n <= y
    <3> HIDE DEF T
    <3> QED
      BY <2>1, Least
  <2>3. n \in 0 .. Len(ents) /\ ~Filed(f[n], ents, n, mp)
    OBVIOUS
  <2>4. CASE n = 0
    <3>1. f[n] = [s \in 1 .. mp.icap |-> FreeSlot]
      BY <1>1, <2>3, <2>4
    <3>2. \A s \in Slots(mp) : f[n][s] = [control |-> 128, number |-> 0]
      BY <3>1 DEF Slots, FreeSlot
    <3>3. f[n] \in [Slots(mp) -> IndexEntry]
      BY <3>1 DEF Slots, FreeSlot, IndexEntry
    <3>4. \A s \in Slots(mp) : f[n][s].control = 128
      BY <3>2
    <3>5. Filed(f[n], ents, 0, mp)
      BY <3>3, <3>4, EmptyFiles
    <3> QED
      BY <2>3, <2>4, <3>5
  <2>5. CASE n # 0
    <3>1. n - 1 \in 0 .. Len(ents) /\ ~(n <= n - 1) /\ n \in 1 .. Len(ents) /\ (n - 1) + 1 = n
          /\ n - 1 \in Nat /\ n - 1 < mp.icap
      BY <2>3, <2>5
    <3>2. Filed(f[n - 1], ents, n - 1, mp)
      BY <2>2, <3>1
    <3> HIDE DEF T
    <3> DEFINE hash == ents[n].hash
               idx == f[n - 1]
               d == Min(FreeDistances(idx, mp, hash))
    <3>3. hash \in Nat /\ Tag(hash) \in Nat /\ Tag(hash) # 128
      BY <3>1 DEF HashesOk
    <3>4. FirstFree(idx, mp, hash, d)
      <4> HIDE DEF idx, hash
      <4> QED
        BY <3>1, <3>2, <3>3, FirstFreeIs DEF idx
    <3>5. f[n] = [idx EXCEPT ![SlotAt(mp, hash, d)] = [control |-> Tag(hash), number |-> n - 1]]
      BY <1>1, <2>3, <2>5 DEF map_file, FreeDistances
    <3> HIDE DEF idx, d
    <3>6. Filed(f[n], ents, (n - 1) + 1, mp)
      <4> DEFINE m == n - 1
      <4>1. m \in Nat /\ m + 1 = n /\ Filed(idx, ents, m, mp)
        BY <3>1, <3>2 DEF idx
      <4>2. f[n] = [idx EXCEPT ![SlotAt(mp, hash, d)] = [control |-> Tag(hash), number |-> m]]
        BY <3>5
      <4>3. ents[m + 1].hash = hash
        BY <4>1
      <4> HIDE DEF m, hash
      <4>4. Filed(f[n], ents, m + 1, mp)
        BY <3>3, <3>4, <4>1, <4>2, <4>3, FilesOneMore
      <4> QED
        BY <4>4 DEF m
    <3> QED
      BY <2>3, <3>1, <3>6
  <2> QED
    BY <2>4, <2>5
<1>3. Filed(f[Len(ents)], ents, Len(ents), mp)
  BY <1>2
<1> QED
  BY <1>3 DEF map_place, f

-----------------------------------------------------------------------------
(* The map and what was put into it                                        *)

MapHeader == [live : BOOLEAN, by : Allocators, words : BOOLEAN, entries : Nat, len : Nat,
              cap : Nat, index : Nat, icap : Nat]

Entry(V) == [hash : Nat, len : Nat, key : Keys \cup Nat, value : V]

\* The entry e bears the key k, itself when it is short, as a copy otherwise.
Bears(h, e, k) ==
  /\ e.hash = KeyHash[k] /\ e.len = KeyLen[k]
  /\ IF ShortKey(k) THEN e.key = k ELSE e.key \in Nat /\ h.data[e.key] = <<k>>

\* The keys and values st were put into the map mp, and the values are in V.
MapOk(mp, h, st, V) ==
  /\ mp \in MapHeader
  /\ st \in Seq([key : Keys, value : V]) /\ Len(st) = mp.len /\ mp.len <= mp.cap
  /\ Entries(h, mp) \in Seq(Entry(V)) /\ Len(Entries(h, mp)) = mp.len
  /\ (mp.entries = 0 <=> mp.cap = 0) /\ (mp.index = 0 <=> mp.icap = 0)
  /\ mp.len <= (mp.icap * 3) \div 4
  /\ \A i \in 1 .. mp.len : /\ Bears(h, Entries(h, mp)[i], st[i].key)
                            /\ Entries(h, mp)[i].value = st[i].value
  /\ \A i, j \in 1 .. mp.len : st[i].key = st[j].key => i = j
  /\ mp.index # 0 => Filed(Index(h, mp), Entries(h, mp), mp.len, mp)

\* No key has the tag that marks a free slot.
LEMMA KeyFacts ==
  \A k \in Keys : /\ KeyHash[k] \in Nat /\ KeyLen[k] \in Nat
                  /\ Tag(KeyHash[k]) \in Nat /\ Tag(KeyHash[k]) # 128
<1> TAKE k \in Keys
<1>1. /\ KeyHash[k] \in Nat /\ KeyLen[k] \in Nat /\ TagUnit \in Nat /\ TagUnit > 0
      /\ KeyHash[k] \div TagUnit < 128
  BY ContainerAssumption
<1>2. KeyHash[k] \div TagUnit \in Nat
  BY <1>1, DivIs
<1> QED
  BY <1>1, <1>2 DEF Tag

\* An index that is three quarters full at most has a free slot.
LEMMA ThreeQuarters ==
  \A n, u \in Nat : u > 0 /\ n <= (u * 3) \div 4 => n < u
  OBVIOUS

\* The types of a map that is as it should be.
LEMMA MapFacts ==
  ASSUME NEW mp, NEW h, NEW st, NEW V, MapOk(mp, h, st, V)
  PROVE  /\ mp.len \in Nat /\ mp.cap \in Nat /\ mp.icap \in Nat /\ mp.entries \in Nat
         /\ mp.index \in Nat /\ mp.by \in {"page", "fixed", "user"}
         /\ DOMAIN st = 1 .. mp.len
         /\ \A i \in 1 .. mp.len : st[i].key \in Keys /\ st[i].value \in V
         /\ \A i \in 1 .. mp.len : Entries(h, mp)[i] \in Entry(V)
         /\ mp.icap # 0 => mp.len < mp.icap
<1>1. /\ mp.len \in Nat /\ mp.cap \in Nat /\ mp.icap \in Nat /\ mp.entries \in Nat
      /\ mp.index \in Nat /\ mp.by \in {"page", "fixed", "user"}
  BY DEF MapOk, MapHeader, Allocators
<1>2. DOMAIN st = 1 .. mp.len /\ \A i \in 1 .. mp.len : st[i] \in [key : Keys, value : V]
  <2> DEFINE P == [key : Keys, value : V]
             n == mp.len
  <2>1. st \in Seq(P) /\ Len(st) = n
    BY DEF MapOk
  <2> HIDE DEF P, n
  <2>2. DOMAIN st = 1 .. n /\ \A i \in 1 .. n : st[i] \in P
    BY <2>1
  <2> QED
    BY <2>2 DEF P, n
<1>3. \A i \in 1 .. mp.len : Entries(h, mp)[i] \in Entry(V)
  BY DEF MapOk
<1>4. mp.icap # 0 => mp.len < mp.icap
  <2>1. mp.len <= (mp.icap * 3) \div 4
    BY DEF MapOk
  <2> QED
    BY <1>1, <2>1, ThreeQuarters
<1> QED
  BY <1>1, <1>2, <1>3, <1>4

\* A key matches the entry that bears it and no other.
LEMMA MatchesOne ==
  ASSUME NEW mp, NEW h, NEW st, NEW V, MapOk(mp, h, st, V), NEW i \in 1 .. mp.len, NEW k \in Keys
  PROVE  EntryMatches(h, Entries(h, mp)[i], k) <=> st[i].key = k
<1> DEFINE e == Entries(h, mp)[i]
           w == st[i].key
<1>1. Bears(h, e, w) /\ w \in Keys
  BY MapFacts DEF MapOk
<1> HIDE DEF e, w
<1>2. ASSUME w = k PROVE EntryMatches(h, e, k)
  BY <1>1, <1>2 DEF Bears, EntryMatches
<1>3. ASSUME EntryMatches(h, e, k) PROVE w = k
  <2>1. KeyLen[w] = KeyLen[k]
    BY <1>1, <1>3 DEF Bears, EntryMatches
  <2>2. CASE ShortKey(k)
    BY <1>1, <1>3, <2>1, <2>2 DEF Bears, EntryMatches, ShortKey
  <2>3. CASE ~ShortKey(k)
    <3>1. <<w>> = <<k>>
      BY <1>1, <1>3, <2>1, <2>3 DEF Bears, EntryMatches, ShortKey
    <3> QED
      BY <3>1
  <2> QED
    BY <2>2, <2>3
<1>4. EntryMatches(h, e, k) <=> w = k
  BY <1>2, <1>3
<1> QED
  BY <1>4 DEF e, w

\* Position answers the only place a key is stored at.
LEMMA PositionIs ==
  ASSUME NEW mp, NEW h, NEW st, NEW V, MapOk(mp, h, st, V), NEW i \in 1 .. mp.len, NEW k,
         st[i].key = k
  PROVE  Holds(st, k) /\ Position(st, k) = i
<1>1. DOMAIN st = 1 .. mp.len
  BY MapFacts
<1>2. \A j \in 1 .. mp.len : st[j].key = k => j = i
  BY DEF MapOk
<1> QED
  BY <1>1, <1>2 DEF Holds, Position

\* Where the entry of a key is filed, on the way of the key's own probe.
LEMMA WhereFiled ==
  ASSUME NEW mp, NEW h, NEW st, NEW V, MapOk(mp, h, st, V), mp.icap # 0,
         NEW k \in Keys, NEW i \in 1 .. mp.len, st[i].key = k
  PROVE  \E e \in 0 .. mp.icap - 1 :
           /\ Index(h, mp)[SlotAt(mp, KeyHash[k], e)].control = Tag(KeyHash[k])
           /\ Index(h, mp)[SlotAt(mp, KeyHash[k], e)].number = i - 1
           /\ \A x \in 0 .. e - 1 : Index(h, mp)[SlotAt(mp, KeyHash[k], x)].control # 128
<1> DEFINE idx == Index(h, mp)
           ents == Entries(h, mp)
<1>1. ents[i].hash = KeyHash[k]
  BY DEF MapOk, Bears
<1>2. Filed(idx, ents, mp.len, mp) /\ mp.icap \in Nat
  BY MapFacts DEF MapOk
<1> HIDE DEF idx, ents
<1>3. PICK e \in 0 .. mp.icap - 1 :
        /\ idx[SlotAt(mp, KeyHash[k], e)].control # 128
        /\ idx[SlotAt(mp, KeyHash[k], e)].number = i - 1
        /\ \A x \in 0 .. e - 1 : idx[SlotAt(mp, KeyHash[k], x)].control # 128
  BY <1>1, <1>2 DEF Filed
<1> DEFINE s == SlotAt(mp, KeyHash[k], e)
<1>4. s \in Slots(mp)
  BY <1>2, SlotIn, KeyFacts
<1>5. idx[s].control = Tag(ents[idx[s].number + 1].hash) /\ idx[s].number + 1 = i
  BY <1>2, <1>3, <1>4 DEF Filed
<1>6. idx[s].control = Tag(KeyHash[k])
  BY <1>1, <1>5
<1> QED
  BY <1>3, <1>6 DEF idx

\* What the slot that a probe stops at says.
Found(mp, h, st, k, d) ==
  LET s == Index(h, mp)[SlotAt(mp, KeyHash[k], d)]
  IN  /\ d \in 0 .. mp.icap - 1
      /\ \/ s.control = 128 /\ ~Holds(st, k) /\ FirstFree(Index(h, mp), mp, KeyHash[k], d)
         \/ s.control # 128 /\ s.number + 1 \in 1 .. mp.len /\ st[s.number + 1].key = k

\* The probe slot by slot stops at the key's slot, or at the free one that it
\* belongs in when no entry bears the key.
LEMMA SlotFinds ==
  ASSUME NEW mp, NEW h, NEW st, NEW V, MapOk(mp, h, st, V), mp.icap # 0, NEW k \in Keys
  PROVE  \E d : map_slot(h, mp, k) = SlotAt(mp, KeyHash[k], d) /\ Found(mp, h, st, k, d)
<1> DEFINE idx == Index(h, mp)
           ents == Entries(h, mp)
           hash == KeyHash[k]
           at(x) == idx[SlotAt(mp, hash, x)]
           T == {x \in 0 .. mp.icap - 1 :
                   \/ at(x).control = 128
                   \/ at(x).control = Tag(hash) /\ EntryMatches(h, ents[at(x).number + 1], k)}
           d == Min(T)
<1>1. map_slot(h, mp, k) = SlotAt(mp, hash, d)
  BY DEF map_slot
<1>2. /\ mp.icap \in Nat /\ mp.icap > 0 /\ mp.len \in Nat /\ mp.len < mp.icap /\ hash \in Nat
      /\ Tag(hash) # 128 /\ Filed(idx, ents, mp.len, mp) /\ DOMAIN st = 1 .. mp.len
  BY SMTT(30), MapFacts, KeyFacts DEF MapOk
<1>3. T \subseteq Nat /\ T # {}
  <2>1. FirstFree(idx, mp, hash, Min(FreeDistances(idx, mp, hash)))
    <3> HIDE DEF idx, ents, hash
    <3> QED
      BY <1>2, FirstFreeIs
  <2> QED
    BY <2>1 DEF FirstFree
<1>4. d \in T /\ \A y \in T : d <= y
  <2> HIDE DEF T
  <2> QED
    BY <1>3, MinLeast
<1>5. d \in 0 .. mp.icap - 1 /\ d \in Nat
  <2>1. T \subseteq 0 .. mp.icap - 1
    OBVIOUS
  <2> HIDE DEF T
  <2>2. d \in 0 .. mp.icap - 1
    BY <1>4, <2>1
  <2> HIDE DEF d
  <2> QED
    BY <1>2, <2>2
<1>6. SlotAt(mp, hash, d) \in Slots(mp)
  <2> HIDE DEF d, hash
  <2> QED
    BY <1>2, <1>5, SlotIn
<1>7. CASE at(d).control = 128
  <2>1. ASSUME NEW x \in 0 .. d - 1 PROVE at(x).control # 128
    <3> HIDE DEF d
    <3>1. x \in 0 .. mp.icap - 1 /\ ~(d <= x)
      BY <1>2, <1>5
    <3> QED
      BY <1>4, <3>1
  <2>2. ASSUME NEW i \in 1 .. mp.len, st[i].key = k PROVE FALSE
    <3>1. PICK e \in 0 .. mp.icap - 1 :
            /\ idx[SlotAt(mp, hash, e)].control = Tag(hash)
            /\ idx[SlotAt(mp, hash, e)].number = i - 1
            /\ \A x \in 0 .. e - 1 : idx[SlotAt(mp, hash, x)].control # 128
      BY <2>2, WhereFiled
    <3>2. at(e).number + 1 = i
      BY <3>1
    <3>3. EntryMatches(h, ents[i], k)
      BY <2>2, MatchesOne
    <3>4. e \in T
      BY <3>1, <3>2, <3>3
    <3>5. d <= e
      BY <1>4, <3>4
    <3> HIDE DEF d, T, idx, hash
    <3>6. d # e
      BY <1>2, <1>7, <3>1
    <3>7. d \in 0 .. e - 1
      BY <1>5, <3>5, <3>6
    <3> QED
      BY <1>7, <3>1, <3>7
  <2>3. ~Holds(st, k)
    BY <1>2, <2>2 DEF Holds
  <2>4. FirstFree(idx, mp, hash, d)
    <3> HIDE DEF T, d, idx, hash
    <3> QED
      BY <1>5, <1>7, <2>1 DEF FirstFree
  <2>5. Found(mp, h, st, k, d)
    <3> HIDE DEF T, d
    <3> QED
      BY <1>5, <1>7, <2>3, <2>4 DEF Found
  <2> QED
    BY <1>1, <2>5
<1>8. CASE at(d).control # 128
  <2>1. EntryMatches(h, ents[at(d).number + 1], k)
    BY <1>4, <1>8
  <2>2. at(d).number + 1 \in 1 .. mp.len
    <3> HIDE DEF T, d, idx, hash
    <3> QED
      BY <1>2, <1>6, <1>8 DEF Filed
  <2>3. st[at(d).number + 1].key = k
    <3> HIDE DEF T, d, idx, hash
    <3> QED
      BY <2>1, <2>2, MatchesOne
  <2>4. Found(mp, h, st, k, d)
    <3> HIDE DEF T, d
    <3> QED
      BY <1>5, <1>8, <2>2, <2>3 DEF Found
  <2> QED
    BY <1>1, <2>4
<1> QED
  BY <1>7, <1>8

\* What a lookup is to answer.
Answer(st, k) == IF Holds(st, k) THEN {Position(st, k) - 1} ELSE {}

\* __map_find answers the entry of a key stored, and nothing for any other.
LEMMA FindIs ==
  ASSUME NEW mp, NEW h, NEW st, NEW V, MapOk(mp, h, st, V), NEW k \in Keys
  PROVE  map_find(h, mp, k) = Answer(st, k)
<1>0. mp.icap \in Nat /\ mp.len \in Nat /\ DOMAIN st = 1 .. mp.len
  BY MapFacts
<1>1. CASE mp.icap = 0
  <2>1. mp.len = 0
    <3>1. mp.len <= (mp.icap * 3) \div 4
      BY DEF MapOk
    <3> QED
      BY <1>0, <1>1, <3>1
  <2>2. ~Holds(st, k)
    BY <1>0, <2>1 DEF Holds
  <2> QED
    BY <1>1, <2>2 DEF map_find, Answer
<1>2. CASE mp.icap # 0
  <2>1. PICK d : map_slot(h, mp, k) = SlotAt(mp, KeyHash[k], d) /\ Found(mp, h, st, k, d)
    BY <1>2, SlotFinds
  <2> DEFINE s == Index(h, mp)[map_slot(h, mp, k)]
  <2>2. map_find(h, mp, k) = IF s.control = 128 THEN {} ELSE {s.number}
    BY <1>2 DEF map_find
  <2>3. \/ s.control = 128 /\ ~Holds(st, k)
        \/ s.control # 128 /\ s.number + 1 \in 1 .. mp.len /\ st[s.number + 1].key = k
    BY <2>1 DEF Found
  <2>4. CASE s.control = 128 /\ ~Holds(st, k)
    BY <2>2, <2>4 DEF Answer
  <2>5. CASE s.control # 128 /\ s.number + 1 \in 1 .. mp.len /\ st[s.number + 1].key = k
    <3>1. Holds(st, k) /\ Position(st, k) = s.number + 1
      BY <2>5, PositionIs
    <3>2. s.number \in Nat
      <4>1. SlotAt(mp, KeyHash[k], d) \in Slots(mp)
        BY <1>0, <1>2, <2>1, SlotIn, KeyFacts DEF Found
      <4>2. Index(h, mp) \in [Slots(mp) -> IndexEntry]
        BY <1>2 DEF MapOk, Filed
      <4> QED
        BY <2>1, <4>1, <4>2 DEF IndexEntry
    <3>3. (s.number + 1) - 1 = s.number
      BY <3>2
    <3> QED
      BY <2>2, <2>5, <3>1, <3>3 DEF Answer
  <2> QED
    BY <2>3, <2>4, <2>5
<1> QED
  BY <1>1, <1>2

-----------------------------------------------------------------------------
(* The lookup by groups                                                    *)

\* Inside a group the slots follow each other.
LEMMA ModNext ==
  \A n, u, i \in Nat : u > 0 /\ (n % u) + i < u => (n + i) % u = (n % u) + i
<1> TAKE n, u, i \in Nat
<1> SUFFICES ASSUME u > 0, (n % u) + i < u PROVE (n + i) % u = (n % u) + i
  OBVIOUS
<1> DEFINE q == n \div u
           r == n % u
<1>1. q \in Nat /\ r \in 0 .. u - 1 /\ n = q * u + r
  BY DivIs
<1>2. r + i < u
  OBVIOUS
<1> HIDE DEF q, r
<1>3. r + i \in Nat /\ n + i = q * u + (r + i)
  BY <1>1
<1>4. (q * u + (r + i)) % u = r + i
  BY <1>1, <1>2, <1>3, ModIs
<1>5. (n + i) % u = r + i
  BY <1>3, <1>4
<1> QED
  BY <1>5 DEF r

From(mp, n, d) == (n + d) % mp.icap

\* Slots of a probe that does not reach the end of the index follow each other.
LEMMA SlotFollows ==
  ASSUME NEW mp, mp.icap \in Nat, mp.icap > 0, NEW n \in Nat, NEW d \in Nat, NEW i \in Nat,
         NEW r, r = From(mp, n, d), r + i < mp.icap, NEW e, e = d + i
  PROVE  SlotAt(mp, n, e) = r + i + 1
<1> DEFINE u == mp.icap
           m == n + d
<1>1. u \in Nat /\ m \in Nat /\ u > 0 /\ (m % u) + i < u /\ n + e = m + i /\ r = m % u
  BY DEF From
<1>2. m % u \in Nat
  BY <1>1, DivIs
<1> HIDE DEF u, m
<1>3. (m + i) % u = (m % u) + i
  BY <1>1, ModNext
<1>4. SlotAt(mp, n, e) = ((m + i) % u) + 1
  BY <1>1 DEF SlotAt, u
<1>5. SlotAt(mp, n, e) = (m % u) + i + 1 /\ r = m % u
  BY <1>1, <1>3, <1>4
<1> QED
  BY <1>5 DEF u, m

\* The slot i of a group at from, with no free one before it, is the key's.
GroupHit(h, mp, k, from, i) ==
  /\ Index(h, mp)[from + i + 1].control = Tag(KeyHash[k])
  /\ \A x \in 0 .. i : Index(h, mp)[from + x + 1].control # 128
  /\ EntryMatches(h, Entries(h, mp)[Index(h, mp)[from + i + 1].number + 1], k)

\* A group answers for nothing but the key's own entry, for that one when it
\* comes before a free slot of the group, and knows whether it has a free slot.
LEMMA GroupFinds ==
  ASSUME NEW mp, NEW h, NEW st, NEW V, MapOk(mp, h, st, V), mp.icap # 0, NEW k \in Keys,
         NEW from \in Nat, from + GroupWidth <= mp.icap
  PROVE  LET a == map_word_group(h, mp, k, from)
             at(i) == Index(h, mp)[from + i + 1]
         IN  /\ a.found \subseteq Answer(st, k)
             /\ \A i \in 0 .. GroupWidth - 1 : GroupHit(h, mp, k, from, i) => a.found # {}
             /\ a.ends <=> \E i \in 0 .. GroupWidth - 1 : at(i).control = 128
<1> DEFINE idx == Index(h, mp)
           ents == Entries(h, mp)
           tag == Tag(KeyHash[k])
           byte(i) == idx[from + i + 1].control
           entry(i) == idx[from + i + 1].number
           empties == {i \in 0 .. GroupWidth - 1 : byte(i) = 128}
           first == IF empties = {} THEN GroupWidth ELSE Min(empties)
           marked == {i \in 0 .. first - 1 :
                        \E j \in 0 .. i : /\ Differ(byte(j), tag) = "same"
                                          /\ \A x \in (j + 1) .. i : Differ(byte(x), tag) = "lowest"}
           found == {entry(i) : i \in {x \in marked : EntryMatches(h, ents[entry(x) + 1], k)}}
<1>1. map_word_group(h, mp, k, from) = [found |-> found, ends |-> empties # {}]
  BY DEF map_word_group
<1>2. /\ mp.icap \in Nat /\ mp.len \in Nat /\ GroupWidth \in Nat /\ GroupWidth > 0
      /\ Filed(idx, ents, mp.len, mp)
  <2>1. mp.icap \in Nat /\ mp.len \in Nat /\ GroupWidth \in Nat /\ GroupWidth > 0
    BY MapFacts, ContainerAssumption
  <2>2. mp.index # 0
    BY DEF MapOk
  <2>3. Filed(idx, ents, mp.len, mp)
    BY <2>2 DEF MapOk
  <2> QED
    BY <2>1, <2>3
<1>3. empties \subseteq 0 .. GroupWidth - 1 /\ empties \subseteq Nat
  OBVIOUS
<1>4. empties # {} => first \in empties /\ \A y \in empties : first <= y
  <2> HIDE DEF empties
  <2> QED
    BY <1>3, MinLeast
<1>5. first \in 0 .. GroupWidth
  <2> HIDE DEF empties
  <2>1. CASE empties = {}
    BY <1>2, <2>1
  <2>2. CASE empties # {}
    <3>1. first \in 0 .. GroupWidth - 1
      BY <1>3, <1>4, <2>2
    <3> HIDE DEF first
    <3> QED
      BY <1>2, <3>1
  <2> QED
    BY <2>1, <2>2
<1>6. \A i \in 0 .. first - 1 : byte(i) # 128
  <2> TAKE i \in 0 .. first - 1
  <2> HIDE DEF first
  <2>1. i \in 0 .. GroupWidth - 1 /\ ~(first <= i)
    BY <1>2, <1>5
  <2>2. i \notin empties
    <3> HIDE DEF empties
    <3> QED
      BY <1>4, <2>1
  <2> QED
    BY <2>1, <2>2
<1>7. ASSUME NEW i \in marked, EntryMatches(h, ents[entry(i) + 1], k)
      PROVE  entry(i) \in Answer(st, k)
  <2>1. i \in 0 .. first - 1 /\ byte(i) # 128
    BY <1>6
  <2> HIDE DEF first, marked
  <2>2. from + i + 1 \in Slots(mp)
    BY <1>2, <1>5, <2>1 DEF Slots
  <2>3. entry(i) + 1 \in 1 .. mp.len /\ entry(i) \in Nat
    <3> HIDE DEF idx, ents
    <3> QED
      BY <1>2, <2>1, <2>2 DEF Filed, IndexEntry
  <2> DEFINE n == entry(i)
  <2>4. EntryMatches(h, Entries(h, mp)[n + 1], k) /\ n + 1 \in 1 .. mp.len /\ n \in Nat
    BY <1>7, <2>3
  <2> HIDE DEF n
  <2>5. st[n + 1].key = k
    BY <2>4, MatchesOne
  <2>6. Holds(st, k) /\ Position(st, k) = n + 1
    BY <2>4, <2>5, PositionIs
  <2>7. (n + 1) - 1 = n
    BY <2>4
  <2>8. n \in Answer(st, k)
    BY <2>6, <2>7 DEF Answer
  <2> QED
    BY <2>8 DEF n
<1>8. found \subseteq Answer(st, k)
  <2> HIDE DEF marked
  <2> QED
    BY <1>7
<1>9. ASSUME NEW i \in 0 .. GroupWidth - 1, byte(i) = tag, \A x \in 0 .. i : byte(x) # 128,
             EntryMatches(h, ents[entry(i) + 1], k)
      PROVE  found # {}
  <2>1. i \in 0 .. first - 1
    <3>1. CASE empties = {}
      BY <3>1
    <3>2. CASE empties # {}
      <4>1. first \in Nat /\ byte(first) = 128
        BY <1>3, <1>4, <3>2
      <4> HIDE DEF first
      <4>2. first \notin 0 .. i
        BY <1>9, <4>1
      <4> QED
        BY <1>2, <4>1, <4>2
    <3> QED
      BY <3>1, <3>2
  <2>2. i \in marked
    <3> HIDE DEF first, tag
    <3>1. Differ(byte(i), tag) = "same"
      BY <1>9 DEF Differ
    <3>2. i \in 0 .. i /\ \A x \in (i + 1) .. i : Differ(byte(x), tag) = "lowest"
      BY <1>2
    <3> QED
      BY <2>1, <3>1, <3>2
  <2>3. entry(i) \in found
    <3> HIDE DEF marked
    <3> QED
      BY <1>9, <2>2
  <2> QED
    BY <2>3
<1>b. \A i \in 0 .. GroupWidth - 1 : GroupHit(h, mp, k, from, i) => found # {}
  BY <1>9 DEF GroupHit
<1> HIDE DEF found
<1>10. (empties # {}) <=> \E i \in 0 .. GroupWidth - 1 : byte(i) = 128
  OBVIOUS
<1> HIDE DEF empties
<1> DEFINE some == empties # {}
<1>a. map_word_group(h, mp, k, from) = [found |-> found, ends |-> some]
  BY <1>1
<1> HIDE DEF some
<1>c. map_word_group(h, mp, k, from).found = found /\ map_word_group(h, mp, k, from).ends = some
  BY <1>a
<1>11. /\ map_word_group(h, mp, k, from).found = found
       /\ map_word_group(h, mp, k, from).ends <=> (empties # {})
  BY <1>c DEF some
<1> QED
  BY <1>8, <1>b, <1>10, <1>11

\* A distance as a group and a place in it.
LEMMA GroupOf ==
  \A e, g, i, w \in Nat : w > 0 /\ e <= g * w + i /\ i < w =>
      e \div w \in 0 .. g /\ e % w \in 0 .. w - 1 /\ e = (e \div w) * w + (e % w)
<1> TAKE e, g, i, w \in Nat
<1> SUFFICES ASSUME w > 0, e <= g * w + i, i < w
             PROVE  e \div w \in 0 .. g /\ e % w \in 0 .. w - 1 /\ e = (e \div w) * w + (e % w)
  OBVIOUS
<1> DEFINE q == e \div w
           r == e % w
<1>1. q \in Nat /\ r \in 0 .. w - 1 /\ e = q * w + r
  BY DivIs
<1> HIDE DEF q, r
<1>2. q <= g
  <2> SUFFICES ASSUME q >= g + 1 PROVE FALSE
    BY <1>1
  <2>1. q * w >= (g + 1) * w
    BY <1>1
  <2>2. (g + 1) * w = g * w + w
    OBVIOUS
  <2> QED
    BY <1>1, <2>1, <2>2
<1> QED
  BY <1>1, <1>2 DEF q, r

\* The lookup by groups answers as the probe slot by slot.
LEMMA WordLookupIs ==
  ASSUME NEW mp, NEW h, NEW st, NEW V, MapOk(mp, h, st, V), NEW k \in Keys
  PROVE  map_word_lookup(h, mp, k) = Answer(st, k)
<1> DEFINE hash == KeyHash[k]
           W == GroupWidth
           from(g) == (hash + g * W) % mp.icap
           whole == {g \in 0 .. (mp.icap \div W) : \A j \in 0 .. g : from(j) + W <= mp.icap}
           answer(g) == map_word_group(h, mp, k, from(g))
           settled == {g \in whole : answer(g).found # {} \/ answer(g).ends}
           at(d) == Index(h, mp)[SlotAt(mp, hash, d)]
<1>1. map_word_lookup(h, mp, k) =
        IF mp.icap = 0 THEN {}
        ELSE IF settled # {} THEN answer(Min(settled)).found
        ELSE map_find(h, mp, k)
  BY DEF map_word_lookup
<1>2. mp.icap \in Nat /\ W \in Nat /\ W > 0 /\ hash \in Nat /\ DOMAIN st = 1 .. mp.len
  BY MapFacts, KeyFacts, ContainerAssumption
<1>3. CASE mp.icap = 0
  <2>1. map_find(h, mp, k) = {}
    BY <1>3 DEF map_find
  <2> QED
    BY <1>1, <1>3, <2>1, FindIs
<1>4. CASE mp.icap # 0 /\ settled = {}
  BY <1>1, <1>4, FindIs
<1>5. CASE mp.icap # 0 /\ settled # {}
  <2>1. settled \subseteq whole /\ whole \subseteq Nat /\ settled \subseteq Nat
    BY <1>2
  <2> DEFINE g0 == Min(settled)
  <2>2. g0 \in settled /\ \A y \in settled : g0 <= y
    <3> HIDE DEF settled
    <3> QED
      BY <1>5, <2>1, MinLeast
  <2>3. g0 \in Nat /\ g0 \in whole /\ (answer(g0).found # {} \/ answer(g0).ends)
    BY <2>1, <2>2
  <2>4. \A j \in 0 .. g0 : from(j) + W <= mp.icap
    BY <2>3
  <2>5. \A j \in 0 .. g0 : j \in whole
    <3> TAKE j \in 0 .. g0
    <3>1. g0 \in 0 .. (mp.icap \div W)
      BY <2>3
    <3>2. j \in 0 .. (mp.icap \div W)
      <4> DEFINE t == mp.icap \div W
      <4>1. t \in Nat
        BY <1>2, DivIs
      <4> HIDE DEF t, g0
      <4>2. j \in 0 .. t
        BY <2>3, <3>1, <4>1 DEF t
      <4> QED
        BY <4>2 DEF t
    <3>3. \A x \in 0 .. j : x \in 0 .. g0
      <4> HIDE DEF g0
      <4> QED
        BY <2>3
    <3>4. \A x \in 0 .. j : from(x) + W <= mp.icap
      BY <2>4, <3>3
    <3> QED
      BY <3>2, <3>4
  <2> HIDE DEF whole, settled
  <2>6. \A j \in 0 .. g0 : j # g0 => answer(j).found = {} /\ ~answer(j).ends
    <3> TAKE j \in 0 .. g0
    <3>1. j # g0 => ~(g0 <= j)
      <4> HIDE DEF g0
      <4> QED
        BY <2>3
    <3>2. j # g0 => j \notin settled
      BY <2>2, <3>1
    <3> QED
      BY <2>5, <3>2 DEF settled
  <2> HIDE DEF g0
  <2>7. \A j \in 0 .. g0 : from(j) \in Nat /\ from(j) + W <= mp.icap /\ j \in Nat /\ j * W \in Nat
    <3> TAKE j \in 0 .. g0
    <3>1. j \in Nat /\ j * W \in Nat
      BY <1>2, <2>3
    <3>2. hash + j * W \in Nat /\ mp.icap > 0
      BY <1>2, <1>5, <3>1
    <3>3. from(j) \in Nat
      <4> DEFINE n == hash + j * W
                 u == mp.icap
      <4>1. n \in Nat /\ u \in Nat /\ u > 0
        BY <1>2, <3>2
      <4> HIDE DEF n, u
      <4>2. n % u \in Nat
        BY <4>1, DivIs
      <4> QED
        BY <4>2 DEF n, u
    <3> QED
      BY <2>4, <3>1, <3>3
  <2>8. \A j \in 0 .. g0, i \in 0 .. W - 1 : at(j * W + i) = Index(h, mp)[from(j) + i + 1]
    <3> TAKE j \in 0 .. g0, i \in 0 .. W - 1
    <3>1. i \in Nat /\ i < W /\ j * W \in Nat
      BY <1>2, <2>7
    <3>2. ((hash + j * W) % mp.icap) + i < mp.icap
      BY <1>2, <2>7, <3>1
    <3>3. SlotAt(mp, hash, j * W + i) = ((hash + j * W) % mp.icap) + i + 1
      <4> DEFINE d == j * W
                 r == (hash + d) % mp.icap
                 e == d + i
      <4>1. d \in Nat /\ mp.icap > 0 /\ mp.icap \in Nat /\ hash \in Nat /\ r + i < mp.icap
            /\ r = From(mp, hash, d) /\ e = d + i /\ i \in Nat
        BY <1>2, <1>5, <3>1, <3>2 DEF From
      <4> HIDE DEF r, d, hash, e
      <4>2. SlotAt(mp, hash, e) = r + i + 1
        BY <4>1, SlotFollows
      <4> HIDE DEF from
      <4> QED
        BY <4>2 DEF d, r, e
    <3> QED
      BY <3>3
  <2> HIDE DEF from
  <2>9. answer(g0).found \subseteq Answer(st, k)
    <3>1. g0 \in 0 .. g0
      BY <2>3
    <3> QED
      BY <1>5, <2>7, <3>1, GroupFinds
  <2>10. CASE answer(g0).found # {}
    <3>1. Answer(st, k) = {} \/ \E x : Answer(st, k) = {x}
      BY DEF Answer
    <3> QED
      BY <1>1, <1>5, <2>9, <2>10, <3>1 DEF g0
  <2>11. CASE answer(g0).found = {}
    <3>1. answer(g0).ends /\ g0 \in 0 .. g0
      BY <2>3, <2>11
    <3>2. PICK f \in 0 .. W - 1 : at(g0 * W + f).control = 128
      <4>1. from(g0) \in Nat /\ from(g0) + W <= mp.icap
        BY <2>7, <3>1
      <4>2. \E f \in 0 .. W - 1 : Index(h, mp)[from(g0) + f + 1].control = 128
        BY <1>5, <3>1, <4>1, GroupFinds
      <4> QED
        BY <2>8, <3>1, <4>2
    <3>3. ASSUME NEW p \in 1 .. mp.len, st[p].key = k PROVE FALSE
      <4>1. PICK e \in 0 .. mp.icap - 1 :
              /\ at(e).control = Tag(hash) /\ at(e).number = p - 1
              /\ \A x \in 0 .. e - 1 : at(x).control # 128
        BY <1>5, <3>3, WhereFiled
      <4>2. e \in Nat /\ Tag(hash) # 128
        BY <1>2, KeyFacts
      <4>3. e <= g0 * W + f
        <5> SUFFICES ASSUME ~(e <= g0 * W + f) PROVE FALSE
          OBVIOUS
        <5> DEFINE t == g0 * W + f
        <5>1. t \in Nat
          BY SMTT(30), <1>2, <2>7, <3>1
        <5> HIDE DEF t
        <5>2. t \in 0 .. e - 1
          BY <4>2, <5>1 DEF t
        <5> QED
          BY <3>2, <4>1, <5>2 DEF t
      <4> DEFINE j == e \div W
                 i == e % W
      <4>4. j \in 0 .. g0 /\ i \in 0 .. W - 1 /\ e = j * W + i
        <5>1. f \in Nat /\ f < W
          BY <1>2
        <5> HIDE DEF W
        <5> QED
          BY <1>2, <2>3, <4>2, <4>3, <5>1, GroupOf
      <4> HIDE DEF j, i, at, hash, W
      <4>5. \A x \in 0 .. i : at(j * W + x).control # 128
        <5> TAKE x \in 0 .. i
        <5>1. x \in Nat /\ i \in Nat /\ j * W \in Nat
          BY <1>2, <2>7, <4>4
        <5>2. j * W + x \in 0 .. e - 1 \/ x = i
          BY <4>4, <5>1
        <5> QED
          BY <4>1, <4>2, <4>4, <5>2
      <4>6. \A x \in 0 .. i : x \in 0 .. W - 1
        BY <1>2, <4>4
      <4>7. EntryMatches(h, Entries(h, mp)[at(e).number + 1], k)
        <5>1. (p - 1) + 1 = p
          BY MapFacts
        <5>2. EntryMatches(h, Entries(h, mp)[p], k)
          BY <3>3, MatchesOne
        <5> QED
          BY <4>1, <5>1, <5>2
      <4>8. /\ Index(h, mp)[from(j) + i + 1].control = Tag(KeyHash[k])
            /\ \A x \in 0 .. i : Index(h, mp)[from(j) + x + 1].control # 128
            /\ EntryMatches(h, Entries(h, mp)[Index(h, mp)[from(j) + i + 1].number + 1], k)
        BY <2>8, <4>1, <4>4, <4>5, <4>6, <4>7 DEF hash
      <4>9. answer(j).found # {}
        <5>1. from(j) \in Nat /\ from(j) + GroupWidth <= mp.icap /\ i \in 0 .. GroupWidth - 1
          BY <2>7, <4>4 DEF W
        <5>2. GroupHit(h, mp, k, from(j), i)
          BY <4>8 DEF GroupHit
        <5> QED
          BY <1>5, <5>1, <5>2, GroupFinds
      <4>10. CASE j = g0
        BY <2>11, <4>9, <4>10
      <4>11. CASE j # g0
        BY <2>6, <4>4, <4>9, <4>11
      <4> QED
        BY <4>10, <4>11
    <3>4. ~Holds(st, k)
      BY <1>2, <3>3 DEF Holds
    <3> QED
      BY <1>1, <1>5, <2>11, <3>4 DEF Answer, g0
  <2> QED
    BY <2>10, <2>11
<1> QED
  BY <1>3, <1>4, <1>5

\* Each of the two lookups a program makes answers the entry of a key stored,
\* and nothing for any other (writeMapLookup).
THEOREM GetIs ==
  ASSUME NEW mp, NEW h, NEW st, NEW V, MapOk(mp, h, st, V), NEW k \in Keys
  PROVE  map_get(h, mp, k) = Answer(st, k)
BY FindIs, WordLookupIs DEF map_get

-----------------------------------------------------------------------------
(* What a step on the heap leaves in the blocks it is not about            *)

\* The blocks of the owners R hold what they held.
Kept(g, h, R) == \A o \in R : g.data[o.p] = h.data[o.p]

Written(h, p, x) == [h EXCEPT !.data[p] = x]

\* What two steps keep, both together keep.
LEMMA KeptAgain ==
  ASSUME NEW h, NEW g, NEW f, NEW R, Kept(g, h, R), Kept(f, g, R)
  PROVE  Kept(f, h, R)
BY DEF Kept

\* Every owner's block is one of the heap, and of no other owner.
LEMMA OwnersAt ==
  ASSUME NEW h, NEW O, Holding(h, O)
  PROVE  /\ \A o \in O : o.p \in DOMAIN h.data /\ o.p \in Nat /\ o.p # 0
         /\ \A o, q \in O : o.p = q.p => o = q
         /\ IsMap(h.data) /\ IsHeap(h)
BY DEF Holding, IsOwner, Book, IsHeap, IsMap

\* An allocation was granted, a reallocation was, a block was written.
Got(r, h, O, role, by, size) ==
  /\ Kept(r.h, h, O) /\ r.h.data[r.p] = <<>> /\ r.p \in Nat
  /\ \A o \in O : o.p # r.p
  /\ Holding(r.h, O \cup {Owner(role, by, r.p, size)})

Regot(r, h, O, o, new) ==
  /\ Kept(r.h, h, O \ {o}) /\ r.h.data[r.p] = h.data[o.p] /\ r.p \in Nat
  /\ \A q \in O \ {o} : q.p # r.p
  /\ Holding(r.h, (O \ {o}) \cup {Owner(o.role, o.by, r.p, new)})

Wrote(g, h, O, o, x) == Holding(g, O) /\ Kept(g, h, O \ {o}) /\ g.data[o.p] = x

\* An allocation leaves the others' blocks as they were, and the new one empty.
LEMMA AllocKeeps ==
  ASSUME NEW h, NEW O, Holding(h, O), NEW role, NEW by, NEW size, NEW r,
         Granted(r, h, O, role, by, size), r.p # 0
  PROVE  Got(r, h, O, role, by, size)
<1>1. /\ r.p \notin DOMAIN h.data /\ r.h.data = Put(h.data, r.p, <<>>) /\ r.p \in Nat
      /\ Holding(r.h, O \cup {Owner(role, by, r.p, size)})
  BY DEF Granted
<1>2. \A o \in O : o.p \in DOMAIN h.data
  BY OwnersAt
<1> DEFINE e == <<>>
<1>3. r.h.data = Put(h.data, r.p, e)
  BY <1>1
<1> HIDE DEF e
<1>4. r.h.data[r.p] = e /\ \A x \in DOMAIN h.data : x # r.p => r.h.data[x] = h.data[x]
  BY <1>3 DEF Put
<1> QED
  BY <1>1, <1>2, <1>4 DEF Got, Kept, e

\* Giving back one block leaves the others as they were.
LEMMA FreeKeeps ==
  ASSUME NEW h, NEW O, Holding(h, O), NEW o \in O
  PROVE  LET g == allocator_free(o.by, h, o.p)
         IN  Kept(g, h, O \ {o}) /\ Holding(g, O \ {o})
<1> DEFINE g == allocator_free(o.by, h, o.p)
<1>1. Holding(g, O \ {o}) /\ g.data = Drop(h.data, o.p)
  BY HeldFree
<1> HIDE DEF g
<1>2. \A q \in O \ {o} : q.p \in DOMAIN h.data /\ q.p # o.p
  BY OwnersAt
<1>3. \A x \in DOMAIN h.data : x # o.p => g.data[x] = h.data[x]
  BY <1>1 DEF Drop
<1>4. Kept(g, h, O \ {o}) /\ Holding(g, O \ {o})
  BY <1>1, <1>2, <1>3 DEF Kept
<1> QED
  BY <1>4 DEF g

\* A reallocation leaves the others' blocks as they were, and carries its own over.
LEMMA ReallocKeeps ==
  ASSUME NEW h, NEW O, Holding(h, O), NEW o \in O, NEW new, NEW r,
         Regranted(r, h, O, o, new), r.p # 0
  PROVE  Regot(r, h, O, o, new)
<1>1. /\ r.p = o.p \/ r.p \notin DOMAIN h.data
      /\ r.h.data = Rehomed(h.data, o.p, r.p) /\ r.p \in Nat
      /\ Holding(r.h, (O \ {o}) \cup {Owner(o.role, o.by, r.p, new)})
  BY DEF Regranted
<1>2. \A q \in O \ {o} : q.p \in DOMAIN h.data /\ q.p # o.p
  BY OwnersAt
<1>3. /\ r.h.data[r.p] = h.data[o.p]
      /\ \A x \in DOMAIN h.data : x # r.p /\ x # o.p => r.h.data[x] = h.data[x]
  BY <1>1 DEF Rehomed
<1> QED
  BY <1>1, <1>2, <1>3 DEF Regot, Kept

\* A write changes what one block holds and no other word of the heap.
LEMMA WriteIs ==
  ASSUME NEW h, IsHeap(h), NEW p \in DOMAIN h.data, NEW x, NEW g, g = Written(h, p, x)
  PROVE  /\ IsHeap(g) /\ g.end = h.end /\ g.pages = h.pages /\ g.free = h.free /\ g.cap = h.cap
         /\ g.used = h.used /\ DOMAIN g.data = DOMAIN h.data /\ IsMap(g.data)
         /\ g.data[p] = x /\ \A y \in DOMAIN h.data : y # p => g.data[y] = h.data[y]
<1> DEFINE d == [h.data EXCEPT ![p] = x]
<1>1. IsMap(d) /\ DOMAIN d = DOMAIN h.data /\ d[p] = x /\ \A y \in DOMAIN h.data : y # p => d[y] = h.data[y]
  BY DEF IsMap
<1>2. g = [h EXCEPT !.data = d]
  BY DEF Written
<1> HIDE DEF d
<1>3. h.used \in Nat /\ g = With(h, h.used, d)
  BY <1>2 DEF With, IsHeap
<1>4. /\ IsHeap(g) /\ g.end = h.end /\ g.pages = h.pages /\ g.free = h.free
      /\ g.cap = h.cap /\ g.used = h.used /\ g.data = d
  BY <1>1, <1>3, EditFixed
<1> QED
  BY <1>1, <1>4

\* A write to one owner's block leaves the others as they were.
LEMMA WriteKeeps ==
  ASSUME NEW h, NEW O, Holding(h, O), NEW o \in O, NEW x, NEW g, g = Written(h, o.p, x)
  PROVE  Wrote(g, h, O, o, x)
<1>1. o.p \in DOMAIN h.data /\ IsHeap(h) /\ \A q \in O \ {o} : q.p \in DOMAIN h.data /\ q.p # o.p
  BY OwnersAt
<1>2. /\ IsHeap(g) /\ g.end = h.end /\ g.pages = h.pages /\ g.free = h.free /\ g.cap = h.cap
      /\ g.used = h.used /\ DOMAIN g.data = DOMAIN h.data
      /\ g.data[o.p] = x /\ \A y \in DOMAIN h.data : y # o.p => g.data[y] = h.data[y]
  BY <1>1, WriteIs
<1>3. Holding(g, O)
  BY <1>2, HeldWrite
<1> QED
  BY <1>1, <1>2, <1>3 DEF Wrote, Kept

-----------------------------------------------------------------------------
(* The map and its blocks                                                  *)

Block(role, by, p, size) == IF p = 0 THEN {} ELSE {Owner(role, by, p, size)}

EntriesBlock(mp) == Block("entries", mp.by, mp.entries, mp.cap * mapEntrySize)
IndexBlock(mp) == Block("index", mp.by, mp.index, mp.icap * 5)
KeyBlock(mp, e) == Owner("key", mp.by, e.key, e.len)
KeyBlocks(mp, ents) == {KeyBlock(mp, ents[i]) : i \in {j \in 1 .. Len(ents) : ents[j].len > 8}}

MapBlocks(mp, h) == EntriesBlock(mp) \cup IndexBlock(mp) \cup KeyBlocks(mp, Entries(h, mp))

\* A map that is as it should be, beside the blocks R of others.
MapHeld(mp, h, st, V, R) ==
  /\ MapOk(mp, h, st, V)
  /\ Holding(h, R \cup MapBlocks(mp, h))
  /\ \A o \in R : o \notin MapBlocks(mp, h)

\* Where entries are filed depends on the size of the index only.
LEMMA FiledSame ==
  ASSUME NEW mp, NEW np, np.icap = mp.icap, NEW idx, NEW ents, NEW n, Filed(idx, ents, n, mp)
  PROVE  Filed(idx, ents, n, np)
<1>1. Slots(np) = Slots(mp) /\ \A hash, d : SlotAt(np, hash, d) = SlotAt(mp, hash, d)
  BY DEF Slots, SlotAt
<1> QED
  BY <1>1 DEF Filed

\* A header with the same entries over the same key copies, and an index in
\* which they are filed, is that of the same map.
LEMMA MapSame ==
  ASSUME NEW mp, NEW h, NEW st, NEW V, MapOk(mp, h, st, V),
         NEW np \in MapHeader, NEW g, np.len = mp.len, np.len <= np.cap,
         np.entries = 0 <=> np.cap = 0, np.index = 0 <=> np.icap = 0,
         np.len <= (np.icap * 3) \div 4,
         Entries(g, np) = Entries(h, mp),
         \A i \in 1 .. mp.len : Entries(h, mp)[i].len > 8 =>
            g.data[Entries(h, mp)[i].key] = h.data[Entries(h, mp)[i].key],
         np.index # 0 => Filed(Index(g, np), Entries(g, np), np.len, np)
  PROVE  MapOk(np, g, st, V)
<1> DEFINE ents == Entries(h, mp)
<1>1. Entries(g, np) = ents
  OBVIOUS
<1>2. ASSUME NEW i \in 1 .. mp.len PROVE Bears(g, ents[i], st[i].key)
  <2> DEFINE e == ents[i]
             k == st[i].key
  <2>1. Bears(h, e, k) /\ k \in Keys /\ (e.len > 8 => g.data[e.key] = h.data[e.key])
    BY MapFacts DEF MapOk
  <2> HIDE DEF e, k
  <2>2. KeyLen[k] \in Nat
    BY <2>1, KeyFacts
  <2>3. Bears(g, e, k)
    BY <2>1, <2>2 DEF Bears, ShortKey
  <2> QED
    BY <2>3 DEF e, k
<1> HIDE DEF ents
<1>3. /\ st \in Seq([key : Keys, value : V]) /\ Len(st) = np.len
      /\ ents \in Seq(Entry(V)) /\ Len(ents) = np.len
      /\ \A i \in 1 .. np.len : ents[i].value = st[i].value
      /\ \A i, j \in 1 .. np.len : st[i].key = st[j].key => i = j
  BY DEF MapOk, ents
<1>4. \A i \in 1 .. np.len : Bears(g, ents[i], st[i].key)
  BY <1>2
<1> QED
  BY <1>1, <1>3, <1>4 DEF MapOk

\* The addresses in a map's header and in its entries are those of its blocks.
LEMMA BlockFacts ==
  ASSUME NEW mp, NEW h
  PROVE  /\ mp.entries # 0 => \E o \in MapBlocks(mp, h) : o.p = mp.entries
         /\ mp.index # 0 => \E o \in MapBlocks(mp, h) : o.p = mp.index
         /\ \A i \in 1 .. Len(Entries(h, mp)) : Entries(h, mp)[i].len > 8 =>
              \E o \in MapBlocks(mp, h) : o.p = Entries(h, mp)[i].key
<1>1. ASSUME mp.entries # 0 PROVE \E o \in MapBlocks(mp, h) : o.p = mp.entries
  <2>1. Owner("entries", mp.by, mp.entries, mp.cap * mapEntrySize) \in MapBlocks(mp, h)
    BY <1>1 DEF MapBlocks, EntriesBlock, Block
  <2> QED
    BY <2>1 DEF Owner
<1>2. ASSUME mp.index # 0 PROVE \E o \in MapBlocks(mp, h) : o.p = mp.index
  <2>1. Owner("index", mp.by, mp.index, mp.icap * 5) \in MapBlocks(mp, h)
    BY <1>2 DEF MapBlocks, IndexBlock, Block
  <2> QED
    BY <2>1 DEF Owner
<1>3. ASSUME NEW i \in 1 .. Len(Entries(h, mp)), Entries(h, mp)[i].len > 8
      PROVE  \E o \in MapBlocks(mp, h) : o.p = Entries(h, mp)[i].key
  <2>1. KeyBlock(mp, Entries(h, mp)[i]) \in MapBlocks(mp, h)
    BY <1>3 DEF MapBlocks, KeyBlocks
  <2> QED
    BY <2>1 DEF KeyBlock, Owner
<1> QED
  BY <1>1, <1>2, <1>3

\* A map is as it was where its blocks hold what they held.
LEMMA MapKept ==
  ASSUME NEW mp, NEW h, NEW st, NEW V, MapOk(mp, h, st, V), NEW g, Kept(g, h, MapBlocks(mp, h))
  PROVE  /\ MapOk(mp, g, st, V) /\ Entries(g, mp) = Entries(h, mp)
         /\ MapBlocks(mp, g) = MapBlocks(mp, h)
         /\ mp.index # 0 => Index(g, mp) = Index(h, mp)
<1>1. mp.entries # 0 => g.data[mp.entries] = h.data[mp.entries]
  BY BlockFacts DEF Kept
<1>2. mp.index # 0 => g.data[mp.index] = h.data[mp.index]
  BY BlockFacts DEF Kept
<1>3. Len(Entries(h, mp)) = mp.len
  BY DEF MapOk
<1>4. \A i \in 1 .. mp.len : Entries(h, mp)[i].len > 8 =>
        g.data[Entries(h, mp)[i].key] = h.data[Entries(h, mp)[i].key]
  BY <1>3, BlockFacts DEF Kept
<1>5. Entries(g, mp) = Entries(h, mp)
  BY <1>1 DEF Entries
<1>6. mp.index # 0 => Index(g, mp) = Index(h, mp)
  BY <1>2 DEF Index
<1>7. MapBlocks(mp, g) = MapBlocks(mp, h)
  BY <1>5 DEF MapBlocks
<1>8. /\ mp \in MapHeader /\ mp.len <= mp.cap /\ mp.len <= (mp.icap * 3) \div 4
      /\ (mp.entries = 0 <=> mp.cap = 0) /\ (mp.index = 0 <=> mp.icap = 0)
      /\ mp.index # 0 => Filed(Index(g, mp), Entries(g, mp), mp.len, mp)
  BY <1>5, <1>6 DEF MapOk
<1>9. MapOk(mp, g, st, V)
  BY <1>4, <1>5, <1>8, MapSame
<1> QED
  BY <1>5, <1>6, <1>7, <1>9

\* The roles of a map's blocks.
LEMMA Roles ==
  ASSUME NEW mp, NEW ents, NEW o
  PROVE  /\ o \in EntriesBlock(mp) => o.role = "entries"
         /\ o \in IndexBlock(mp) => o.role = "index"
         /\ o \in KeyBlocks(mp, ents) => o.role = "key"
BY DEF EntriesBlock, IndexBlock, KeyBlocks, KeyBlock, Block, Owner

\* An owner's fields.
LEMMA OwnerIs ==
  \A role, by, p, size :
    /\ Owner(role, by, p, size).role = role /\ Owner(role, by, p, size).by = by
    /\ Owner(role, by, p, size).p = p /\ Owner(role, by, p, size).size = size
BY DEF Owner

-----------------------------------------------------------------------------
(* The index grows                                                         *)

\* An index twice as large has room for one entry more.
LEMMA QuarterSums ==
  /\ \A c, l \in Nat : c > 0 /\ l <= (c * 3) \div 4 => l + 1 <= ((c * 2) * 3) \div 4
  /\ \A c \in Nat : c >= 4 => 1 <= (c * 3) \div 4
  /\ \A l \in Nat : l <= (0 * 3) \div 4 => l = 0
  /\ \A c, l \in Nat : l + 1 <= (c * 3) \div 4 => l + 1 <= c /\ c > 0 /\ l <= (c * 3) \div 4
OBVIOUS

\* The size map_reindex picks has room for one entry more.
LEMMA IndexFits ==
  ASSUME NEW mp, mp.len \in Nat, mp.icap \in Nat, mp.len <= (mp.icap * 3) \div 4,
         NEW first, first = IF mp.icap = 0 THEN IndexFirst ELSE mp.icap,
         NEW next, next = Min({n \in Doublings(first) : mp.len + 1 <= (n * 3) \div 4})
  PROVE  next \in Nat /\ mp.len + 1 <= (next * 3) \div 4
<1> DEFINE len == mp.len
           icap == mp.icap
           T == {n \in Doublings(first) : len + 1 <= (n * 3) \div 4}
<1>a. len \in Nat /\ icap \in Nat /\ len <= (icap * 3) \div 4
  OBVIOUS
<1>b. first = IF icap = 0 THEN IndexFirst ELSE icap
  OBVIOUS
<1>c. next = Min(T)
  OBVIOUS
<1> HIDE DEF len, icap
<1>0. /\ len \in Nat /\ icap \in Nat /\ len <= (icap * 3) \div 4
      /\ first = IF icap = 0 THEN IndexFirst ELSE icap
  BY <1>a, <1>b
<1>1. first \in Nat /\ first > 0 /\ (icap = 0 => first >= 4)
  BY <1>0, ContainerAssumption
<1>2. Doublings(first) \subseteq Nat
  BY <1>1 DEF Doublings
<1>3. first * 1 \in Doublings(first) /\ first * 2 \in Doublings(first) /\ first * 1 = first
  BY <1>1 DEF Doublings
<1>4. T # {}
  <2>1. CASE icap = 0
    <3>1. len = 0
      BY <1>0, <2>1, QuarterSums
    <3>2. 1 <= (first * 3) \div 4
      BY <1>1, <2>1, QuarterSums
    <3> QED
      BY <1>3, <3>1, <3>2
  <2>2. CASE icap # 0
    <3>1. len + 1 <= ((first * 2) * 3) \div 4
      BY <1>0, <1>1, <2>2, QuarterSums
    <3> QED
      BY <1>3, <3>1
  <2> QED
    BY <2>1, <2>2
<1>5. T \subseteq Nat
  BY <1>2
<1>6. next \in T
  <2> HIDE DEF T
  <2> QED
    BY <1>4, <1>5, <1>c, MinLeast
<1>7. next \in Nat /\ len + 1 <= (next * 3) \div 4
  BY <1>2, <1>6
<1> QED
  BY <1>7 DEF len

\* The entries of a map carry hashes whose tags are no mark of a free slot.
LEMMA HashesAre ==
  ASSUME NEW mp, NEW h, NEW st, NEW V, MapOk(mp, h, st, V)
  PROVE  HashesOk(Entries(h, mp))
<1>1. Len(Entries(h, mp)) = mp.len
  BY DEF MapOk
<1>2. \A i \in 1 .. mp.len : Entries(h, mp)[i].hash = KeyHash[st[i].key] /\ st[i].key \in Keys
  BY MapFacts DEF MapOk, Bears
<1> QED
  BY <1>1, <1>2, KeyFacts DEF HashesOk

\* The block that an index had is given back, if it had one.
LEMMA IndexFreed ==
  ASSUME NEW mp, NEW ents, NEW Q, NEW n, NEW h, Holding(h, (Q \cup IndexBlock(mp)) \cup {n}),
         mp.by \in {"page", "fixed", "user"}, n \notin IndexBlock(mp),
         \A o \in Q : o \notin IndexBlock(mp)
  PROVE  LET g == allocator_free(mp.by, h, mp.index)
         IN  Holding(g, Q \cup {n}) /\ Kept(g, h, Q \cup {n})
<1> DEFINE g == allocator_free(mp.by, h, mp.index)
           O == (Q \cup IndexBlock(mp)) \cup {n}
<1>1. CASE mp.index = 0
  <2>1. g = h
    BY <1>1, OwnersAt, FreeNothing
  <2>2. O = Q \cup {n}
    BY <1>1 DEF IndexBlock, Block
  <2> QED
    BY <2>1, <2>2 DEF Kept
<1>2. CASE mp.index # 0
  <2> DEFINE o == Owner("index", mp.by, mp.index, mp.icap * 5)
  <2>1. IndexBlock(mp) = {o}
    BY <1>2 DEF IndexBlock, Block
  <2>2. o.by = mp.by /\ o.p = mp.index
    BY OwnerIs
  <2> HIDE DEF o, g
  <2>3. o \in O /\ O \ {o} = Q \cup {n}
    BY <2>1
  <2> HIDE DEF O
  <2>4. Holding(h, O)
    BY DEF O
  <2>5. g = allocator_free(o.by, h, o.p)
    BY <2>2 DEF g
  <2>6. Holding(g, O \ {o}) /\ Kept(g, h, O \ {o})
    BY <2>3, <2>4, <2>5, FreeKeeps
  <2> QED
    BY <2>3, <2>6 DEF g
<1> QED
  BY <1>1, <1>2

\* What an operation on a map that may refuse leaves: the map as it should be,
\* and the others' blocks as they were.
Done(r, mp, h, st, V, R) ==
  /\ MapHeld(r.mp, r.h, st, V, R) /\ Kept(r.h, h, R)
  /\ r.mp.live = mp.live /\ r.mp.by = mp.by /\ r.mp.words = mp.words
  /\ r.ok \in BOOLEAN

\* An index of next slots was made.
Reindexed(r, mp, h, st, V, R, next) ==
  Done(r, mp, h, st, V, R) /\ r.mp.len = mp.len /\ r.mp.icap = next /\ r.ok = TRUE

\* A new index holds every entry, and the old one goes back (writeMapReindexHelper).
LEMMA ReindexedHeld ==
  ASSUME NEW mp, NEW h, NEW st, NEW V, NEW R, MapHeld(mp, h, st, V, R),
         NEW next \in Nat, mp.len + 1 <= (next * 3) \div 4,
         NEW size, size = next * 5,
         NEW made, Granted(made, h, R \cup MapBlocks(mp, h), "index", mp.by, size), made.p # 0,
         NEW r, r = map_reindexed(mp, h, made, next)
  PROVE  Reindexed(r, mp, h, st, V, R, next)
<1> DEFINE ents == Entries(h, mp)
           grown == [mp EXCEPT !.index = made.p, !.icap = next]
           idx == map_place(ents, grown)
           f == allocator_free(mp.by, made.h, mp.index)
           g == Written(f, made.p, idx)
           n == Owner("index", mp.by, made.p, next * 5)
           Q == (R \cup EntriesBlock(mp)) \cup KeyBlocks(mp, ents)
           O == R \cup MapBlocks(mp, h)
<1>1. r = [mp |-> grown, ok |-> TRUE, h |-> g]
  BY DEF map_reindexed, Written
<1>2. /\ MapOk(mp, h, st, V) /\ Holding(h, O) /\ \A o \in R : o \notin MapBlocks(mp, h)
      /\ mp \in MapHeader /\ mp.by \in {"page", "fixed", "user"} /\ mp.len \in Nat
      /\ Len(ents) = mp.len
  BY MapFacts DEF MapHeld, MapOk
<1>3. O = Q \cup IndexBlock(mp) /\ Q \subseteq O
  BY DEF MapBlocks
<1>4. \A o \in Q : o \notin IndexBlock(mp)
  BY <1>2, Roles DEF MapBlocks
<1>5. /\ Kept(made.h, h, O) /\ made.p \in Nat /\ (\A o \in O : o.p # made.p)
      /\ Holding(made.h, O \cup {n})
  <2> DEFINE z == next * 5
  <2>1. Granted(made, h, O, "index", mp.by, z) /\ n = Owner("index", mp.by, made.p, z)
    OBVIOUS
  <2> HIDE DEF O, n, z
  <2>2. Got(made, h, O, "index", mp.by, z)
    BY <1>2, <2>1, AllocKeeps
  <2> QED
    BY <2>1, <2>2 DEF Got
<1>6. n.p = made.p /\ n \notin O
  BY <1>5, OwnerIs
<1>7. /\ next > 0 /\ mp.len <= next /\ mp.len <= (next * 3) \div 4
  BY <1>2, QuarterSums
<1>8. grown.index = made.p /\ grown.icap = next /\ grown.entries = mp.entries /\ grown.len = mp.len
      /\ grown.cap = mp.cap /\ grown.by = mp.by /\ grown.live = mp.live /\ grown.words = mp.words
      /\ grown \in MapHeader
  BY <1>2, <1>5 DEF MapHeader
<1> HIDE DEF grown, n, Q, ents
<1>9. Holding(f, Q \cup {n}) /\ Kept(f, made.h, Q \cup {n})
  <2>1. Holding(made.h, (Q \cup IndexBlock(mp)) \cup {n})
    BY <1>3, <1>5
  <2>2. n \notin IndexBlock(mp)
    BY <1>3, <1>6
  <2> QED
    BY <1>2, <1>4, <2>1, <2>2, IndexFreed
<1> HIDE DEF f, idx, O
<1>10. Holding(g, Q \cup {n}) /\ Kept(g, f, (Q \cup {n}) \ {n}) /\ g.data[made.p] = idx
  <2> DEFINE N == Q \cup {n}
  <2>1. n \in N /\ g = Written(f, n.p, idx) /\ Holding(f, N)
    BY <1>6, <1>9
  <2> HIDE DEF N, g
  <2>2. Wrote(g, f, N, n, idx)
    BY <2>1, WriteKeeps
  <2> QED
    BY <1>6, <2>2 DEF N, Wrote
<1> HIDE DEF g
<1>11. Kept(g, h, Q)
  BY <1>3, <1>5, <1>6, <1>9, <1>10 DEF Kept
<1>12. Kept(g, h, R) /\ Kept(g, h, EntriesBlock(mp)) /\ Kept(g, h, KeyBlocks(mp, ents))
  BY <1>11 DEF Kept, Q
<1>13. Entries(g, grown) = ents
  <2>1. mp.entries # 0 => g.data[mp.entries] = h.data[mp.entries]
    <3>1. mp.entries # 0 => Owner("entries", mp.by, mp.entries, mp.cap * mapEntrySize) \in EntriesBlock(mp)
      BY DEF EntriesBlock, Block
    <3> QED
      BY <1>12, <3>1, OwnerIs DEF Kept
  <2> QED
    BY <1>8, <2>1 DEF Entries, ents
<1>14. \A i \in 1 .. mp.len : ents[i].len > 8 => g.data[ents[i].key] = h.data[ents[i].key]
  <2> TAKE i \in 1 .. mp.len
  <2>1. ents[i].len > 8 => KeyBlock(mp, ents[i]) \in KeyBlocks(mp, ents)
    BY <1>2 DEF KeyBlocks
  <2> QED
    BY <1>12, <2>1, OwnerIs DEF Kept, KeyBlock
<1>15. Filed(Index(g, grown), ents, mp.len, grown)
  <2>1. HashesOk(ents)
    BY <1>2, HashesAre DEF ents
  <2>2. Filed(idx, ents, Len(ents), grown)
    BY <1>2, <1>7, <1>8, <2>1, PlaceFiles DEF idx
  <2> QED
    BY <1>2, <1>8, <1>10, <2>2 DEF Index
<1>16. MapOk(grown, g, st, V)
  <2>1. mp.len <= mp.cap /\ (mp.entries = 0 <=> mp.cap = 0)
    BY <1>2 DEF MapOk
  <2>2. /\ grown.len <= grown.cap /\ (grown.entries = 0 <=> grown.cap = 0)
        /\ (grown.index = 0 <=> grown.icap = 0) /\ grown.len <= (grown.icap * 3) \div 4
    BY <1>7, <1>8, <2>1
  <2>3. Entries(g, grown) = Entries(h, mp) /\ \A i \in 1 .. mp.len : Entries(h, mp)[i].len > 8 =>
            g.data[Entries(h, mp)[i].key] = h.data[Entries(h, mp)[i].key]
    BY <1>13, <1>14 DEF ents
  <2>4. Filed(Index(g, grown), Entries(g, grown), grown.len, grown)
    BY <1>8, <1>13, <1>15
  <2> QED
    BY <1>2, <1>8, <2>2, <2>3, <2>4, MapSame
<1>17. MapBlocks(grown, g) = (EntriesBlock(mp) \cup {n}) \cup KeyBlocks(mp, ents)
  <2>1. EntriesBlock(grown) = EntriesBlock(mp)
    BY <1>8 DEF EntriesBlock
  <2>2. KeyBlocks(grown, ents) = KeyBlocks(mp, ents)
    BY <1>8 DEF KeyBlocks, KeyBlock
  <2>3. IndexBlock(grown) = {n}
    BY <1>8 DEF IndexBlock, Block, n
  <2> QED
    BY <1>13, <2>1, <2>2, <2>3 DEF MapBlocks
<1>18. Holding(g, R \cup MapBlocks(grown, g))
  <2>1. R \cup MapBlocks(grown, g) = Q \cup {n}
    BY <1>17 DEF Q
  <2> QED
    BY <1>10, <2>1
<1>19. \A o \in R : o \notin MapBlocks(grown, g)
  <2>1. \A o \in R : o \notin EntriesBlock(mp) /\ o \notin KeyBlocks(mp, ents) /\ o \in O
    BY <1>2 DEF MapBlocks, ents, O
  <2> QED
    BY <1>6, <1>17, <2>1
<1>20. r.mp = grown /\ r.h = g /\ r.ok = TRUE
  BY <1>1
<1> QED
  BY <1>8, <1>12, <1>16, <1>18, <1>19, <1>20 DEF Reindexed, Done, MapHeld

\* An operation that does nothing to the map.
LEMMA DoneNothing ==
  ASSUME NEW mp, NEW h, NEW st, NEW V, NEW R, MapHeld(mp, h, st, V, R), NEW r,
         r.mp = mp, r.h = h, r.ok \in BOOLEAN
  PROVE  Done(r, mp, h, st, V, R)
BY DEF Done, Kept

\* map_reindex makes room in the index or refuses; the map stays the same map.
LEMMA ReindexHeld ==
  ASSUME NEW mp, NEW h, NEW st, NEW V, NEW R, MapHeld(mp, h, st, V, R), NEW grows \in BOOLEAN,
         NEW r, r = map_reindex(mp, h, mp.len + 1, grows)
  PROVE  /\ Done(r, mp, h, st, V, R) /\ r.mp.len = mp.len
         /\ r.ok => mp.len + 1 <= (r.mp.icap * 3) \div 4
<1> DEFINE first == IF mp.icap = 0 THEN IndexFirst ELSE mp.icap
           next == Min({n \in Doublings(first) : mp.len + 1 <= (n * 3) \div 4})
           size == next * 5
           made == allocator_alloc(mp.by, h, size, grows)
           O == R \cup MapBlocks(mp, h)
<1>1. /\ mp.len \in Nat /\ mp.icap \in Nat /\ mp.len <= (mp.icap * 3) \div 4
      /\ mp.by \in {"page", "fixed", "user"} /\ Holding(h, O)
  BY MapFacts DEF MapHeld, MapOk
<1>2. next \in Nat /\ mp.len + 1 <= (next * 3) \div 4
  <2>1. first = IF mp.icap = 0 THEN IndexFirst ELSE mp.icap
    OBVIOUS
  <2> HIDE DEF first
  <2>2. next = Min({n \in Doublings(first) : mp.len + 1 <= (n * 3) \div 4})
    OBVIOUS
  <2> HIDE DEF next
  <2> QED
    BY <1>1, <2>1, <2>2, IndexFits
<1>3. r = IF next # first /\ next \div 2 > IndexLimit THEN [mp |-> mp, h |-> h, ok |-> FALSE]
          ELSE IF next = mp.icap THEN [mp |-> mp, h |-> h, ok |-> TRUE]
          ELSE map_reindexed(mp, h, made, next)
  BY DEF map_reindex
<1>4. size \in Nat /\ size > 0
  <2>1. next > 0
    <3> HIDE DEF next
    <3> QED
      BY <1>1, <1>2, QuarterSums
  <2> HIDE DEF next
  <2> QED
    BY <1>2, <2>1
<1> HIDE DEF first, next
<1>5. CASE r = [mp |-> mp, h |-> h, ok |-> FALSE]
  <2>1. r.mp = mp /\ r.h = h /\ r.ok = FALSE
    BY <1>5
  <2>2. Done(r, mp, h, st, V, R)
    BY <2>1, DoneNothing
  <2> QED
    BY <2>1, <2>2
<1>6. CASE next = mp.icap /\ r = [mp |-> mp, h |-> h, ok |-> TRUE]
  <2>1. r.mp = mp /\ r.h = h /\ r.ok = TRUE
    BY <1>6
  <2>2. Done(r, mp, h, st, V, R)
    BY <2>1, DoneNothing
  <2> QED
    BY <1>2, <1>6, <2>1, <2>2
<1>7. CASE r = map_reindexed(mp, h, made, next)
  <2>1. Granted(made, h, O, "index", mp.by, size)
    <3> HIDE DEF size, O
    <3> QED
      BY <1>1, <1>4, HeldAlloc
  <2> HIDE DEF made
  <2>2. CASE made.p = 0
    <3>1. r = [mp |-> mp, h |-> h, ok |-> FALSE]
      BY <1>7, <2>2 DEF map_reindexed
    <3>2. r.mp = mp /\ r.h = h /\ r.ok = FALSE
      BY <3>1
    <3>3. Done(r, mp, h, st, V, R)
      BY <3>2, DoneNothing
    <3> QED
      BY <3>2, <3>3
  <2>3. CASE made.p # 0
    <3>1. Granted(made, h, R \cup MapBlocks(mp, h), "index", mp.by, size) /\ size = next * 5
      BY <2>1
    <3> HIDE DEF size, O
    <3>2. Reindexed(r, mp, h, st, V, R, next)
      BY <1>2, <1>7, <2>3, <3>1, ReindexedHeld
    <3> QED
      BY <1>2, <3>2 DEF Reindexed
  <2> QED
    BY <2>2, <2>3
<1> QED
  BY <1>3, <1>5, <1>6, <1>7

-----------------------------------------------------------------------------
(* The entries grow                                                        *)

\* What the entries' growth leaves as it was.
SameIndex(r, mp, h) ==
  /\ r.mp.index = mp.index /\ r.mp.icap = mp.icap /\ r.mp.len = mp.len
  /\ mp.index # 0 => Index(r.h, r.mp) = Index(h, mp)

\* Entries with room for next of them were made.
Regrown(r, mp, h, st, V, R, next) ==
  Done(r, mp, h, st, V, R) /\ SameIndex(r, mp, h) /\ r.ok = TRUE /\ r.mp.cap = next

\* Entries moved to a larger block are the same entries.
LEMMA EntriesMoved ==
  ASSUME NEW mp, NEW h, NEW st, NEW V, NEW R, MapHeld(mp, h, st, V, R),
         NEW next \in Nat, next >= mp.len + 1,
         NEW Q, Q = (R \cup IndexBlock(mp)) \cup KeyBlocks(mp, Entries(h, mp)),
         NEW moved, moved.p \in Nat, moved.p # 0, Kept(moved.h, h, Q),
         moved.h.data[moved.p] = Entries(h, mp), \A o \in Q : o.p # moved.p,
         NEW size, size = next * mapEntrySize,
         Holding(moved.h, Q \cup {Owner("entries", mp.by, moved.p, size)}),
         NEW r, r = map_reserved(mp, h, moved, next)
  PROVE  Regrown(r, mp, h, st, V, R, next)
<1> DEFINE ents == Entries(h, mp)
           grown == [mp EXCEPT !.entries = moved.p, !.cap = next]
           g == moved.h
           n == Owner("entries", mp.by, moved.p, size)
<1>1. r = [mp |-> grown, h |-> g, ok |-> TRUE]
  BY DEF map_reserved
<1>2. /\ MapOk(mp, h, st, V) /\ \A o \in R : o \notin MapBlocks(mp, h)
      /\ mp \in MapHeader /\ mp.len \in Nat /\ Len(ents) = mp.len
  BY MapFacts DEF MapHeld, MapOk
<1>3. n.p = moved.p
  BY OwnerIs
<1>4. grown.index = mp.index /\ grown.icap = mp.icap /\ grown.entries = moved.p
      /\ grown.len = mp.len /\ grown.cap = next /\ grown.by = mp.by /\ grown.live = mp.live
      /\ grown.words = mp.words /\ grown \in MapHeader
  BY <1>2 DEF MapHeader
<1> HIDE DEF grown, n, ents
<1>5. Kept(g, h, R) /\ Kept(g, h, IndexBlock(mp)) /\ Kept(g, h, KeyBlocks(mp, ents))
  BY DEF Kept, ents
<1>6. Entries(g, grown) = ents
  BY <1>4 DEF Entries, ents
<1>7. \A i \in 1 .. mp.len : ents[i].len > 8 => g.data[ents[i].key] = h.data[ents[i].key]
  <2> TAKE i \in 1 .. mp.len
  <2>1. ents[i].len > 8 => KeyBlock(mp, ents[i]) \in KeyBlocks(mp, ents)
    BY <1>2 DEF KeyBlocks
  <2> QED
    BY <1>5, <2>1, OwnerIs DEF Kept, KeyBlock
<1>8. mp.index # 0 => Index(g, grown) = Index(h, mp)
  <2>1. mp.index # 0 => Owner("index", mp.by, mp.index, mp.icap * 5) \in IndexBlock(mp)
    BY DEF IndexBlock, Block
  <2> QED
    BY <1>4, <1>5, <2>1, OwnerIs DEF Kept, Index
<1>9. mp.index # 0 => Filed(Index(g, grown), Entries(g, grown), grown.len, grown)
  <2>1. mp.index # 0 => Filed(Index(h, mp), ents, mp.len, mp)
    BY <1>2 DEF MapOk, ents
  <2> QED
    BY <1>4, <1>6, <1>8, <2>1, FiledSame
<1>10. MapOk(grown, g, st, V)
  <2>1. /\ grown.len <= grown.cap /\ (grown.entries = 0 <=> grown.cap = 0)
    BY <1>2, <1>4
  <2>2. (mp.index = 0 <=> mp.icap = 0) /\ mp.len <= (mp.icap * 3) \div 4
    BY <1>2 DEF MapOk
  <2>3. (grown.index = 0 <=> grown.icap = 0) /\ grown.len <= (grown.icap * 3) \div 4
    BY <1>4, <2>2
  <2>4. Entries(g, grown) = Entries(h, mp) /\ \A i \in 1 .. mp.len : Entries(h, mp)[i].len > 8 =>
            g.data[Entries(h, mp)[i].key] = h.data[Entries(h, mp)[i].key]
    BY <1>6, <1>7 DEF ents
  <2> QED
    BY <1>2, <1>4, <1>9, <2>1, <2>3, <2>4, MapSame
<1>11. MapBlocks(grown, g) = ({n} \cup IndexBlock(mp)) \cup KeyBlocks(mp, ents)
  <2>1. IndexBlock(grown) = IndexBlock(mp)
    BY <1>4 DEF IndexBlock
  <2>2. KeyBlocks(grown, ents) = KeyBlocks(mp, ents)
    BY <1>4 DEF KeyBlocks, KeyBlock
  <2>3. EntriesBlock(grown) = {n}
    BY <1>4 DEF EntriesBlock, Block, n
  <2> QED
    BY <1>6, <2>1, <2>2, <2>3 DEF MapBlocks
<1>12. Holding(g, R \cup MapBlocks(grown, g))
  <2>1. R \cup MapBlocks(grown, g) = Q \cup {n}
    BY <1>11 DEF ents
  <2> QED
    BY <2>1 DEF n
<1>13. \A o \in R : o \notin MapBlocks(grown, g)
  <2>1. \A o \in R : o \notin IndexBlock(mp) /\ o \notin KeyBlocks(mp, ents) /\ o \in Q
    BY <1>2 DEF MapBlocks, ents
  <2> QED
    BY <1>3, <1>11, <2>1
<1>14. r.mp = grown /\ r.h = g /\ r.ok = TRUE
  BY <1>1
<1> QED
  BY <1>4, <1>5, <1>8, <1>10, <1>12, <1>13, <1>14 DEF Regrown, Done, MapHeld, SameIndex

\* There is room for one entry more, or the map is as it was.
Reserved(r, mp, h, st, V, R) ==
  /\ Done(r, mp, h, st, V, R) /\ SameIndex(r, mp, h)
  /\ r.ok => mp.len + 1 <= r.mp.cap

\* Room for entries was there, or was refused: nothing changed.
LEMMA ReservedNothing ==
  ASSUME NEW mp, NEW h, NEW st, NEW V, NEW R, MapHeld(mp, h, st, V, R), NEW r,
         r.mp = mp, r.h = h, r.ok \in BOOLEAN, r.ok => mp.len + 1 <= mp.cap
  PROVE  Reserved(r, mp, h, st, V, R)
<1>1. Done(r, mp, h, st, V, R)
  BY DoneNothing
<1> QED
  BY <1>1 DEF Reserved, SameIndex

\* The entries a block of whole entries has room for.
LEMMA DivTimes ==
  \A n \in Nat : (n * 32) \div 32 = n
OBVIOUS

\* map_reserve makes room for one entry more or refuses; the map stays the same map.
LEMMA ReserveHeld ==
  ASSUME NEW mp, NEW h, NEW st, NEW V, NEW R, MapHeld(mp, h, st, V, R), NEW grows \in BOOLEAN,
         NEW r, r = map_reserve(mp, h, mp.len + 1, grows)
  PROVE  Reserved(r, mp, h, st, V, R)
<1> DEFINE first == IF mp.cap = 0 THEN EntriesFirst ELSE mp.cap * 2
           needed == mp.len + 1
           next == Min({n \in Doublings(first) : n >= needed})
           old == mp.cap * mapEntrySize
           size == next * mapEntrySize
           moved == allocator_realloc(mp.by, h, mp.entries, old, size, mapEntrySize, grows)
           O == R \cup MapBlocks(mp, h)
           Q == (R \cup IndexBlock(mp)) \cup KeyBlocks(mp, Entries(h, mp))
<1>1. r = IF needed <= mp.cap THEN [mp |-> mp, h |-> h, ok |-> TRUE]
          ELSE IF next > EntriesLimit \div mapEntrySize THEN [mp |-> mp, h |-> h, ok |-> FALSE]
          ELSE map_reserved(mp, h, moved, next)
  BY DEF map_reserve
<1>2. /\ mp.len \in Nat /\ mp.cap \in Nat /\ mp.len <= mp.cap /\ mp.entries \in Nat
      /\ mp.by \in {"page", "fixed", "user"} /\ Holding(h, O) /\ (mp.entries = 0 <=> mp.cap = 0)
      /\ Entries(h, mp) \in Seq(Entry(V)) /\ Len(Entries(h, mp)) = mp.len
      /\ \A o \in R : o \notin MapBlocks(mp, h)
  BY MapFacts DEF MapHeld, MapOk
<1>3. CASE needed <= mp.cap
  <2>1. r.mp = mp /\ r.h = h /\ r.ok = TRUE
    BY <1>1, <1>3
  <2> QED
    BY <1>3, <2>1, ReservedNothing
<1>4. CASE r = [mp |-> mp, h |-> h, ok |-> FALSE]
  <2>1. r.mp = mp /\ r.h = h /\ r.ok = FALSE
    BY <1>4
  <2> QED
    BY <2>1, ReservedNothing
<1>5. CASE ~(needed <= mp.cap) /\ r = map_reserved(mp, h, moved, next)
  <2>1. next \in Nat /\ next >= needed
    <3> DEFINE len == mp.len
               cap == mp.cap
               T == {n \in Doublings(first) : n >= needed}
    <3>1. len \in Nat /\ cap \in Nat /\ len <= cap /\ ~(len + 1 <= cap)
      BY <1>2, <1>5
    <3>2. first = IF cap = 0 THEN EntriesFirst ELSE cap * 2
      OBVIOUS
    <3>3. next = Min(T) /\ needed = len + 1
      OBVIOUS
    <3> HIDE DEF len, cap, first
    <3>4. first \in Nat /\ first >= needed /\ needed \in Nat
      BY <3>1, <3>2, <3>3, ContainerAssumption
    <3>5. T \subseteq Nat /\ first * 1 \in T
      <4> HIDE DEF needed
      <4> QED
        BY <3>4 DEF Doublings
    <3> HIDE DEF T, next
    <3>6. next \in T
      BY <3>3, <3>5, MinLeast
    <3> QED
      BY <3>5, <3>6 DEF T
  <2> HIDE DEF next
  <2>2. /\ size \in Nat /\ old \in Nat /\ size > 0 /\ size >= old /\ mapEntrySize \in Nat
        /\ mapEntrySize > 0 /\ next >= mp.len + 1
    BY <1>2, <1>5, <2>1 DEF mapEntrySize
  <2>3. Q \subseteq O /\ \A o \in Q : o \notin EntriesBlock(mp)
    BY <1>2, Roles DEF MapBlocks
  <2>4. ASSUME moved.p = 0 PROVE Reserved(r, mp, h, st, V, R)
    <3> HIDE DEF moved
    <3>1. r.mp = mp /\ r.h = h /\ r.ok = FALSE
      BY <1>5, <2>4 DEF map_reserved
    <3> QED
      BY <3>1, ReservedNothing
  <2>5. ASSUME moved.p \in Nat, moved.p # 0, Kept(moved.h, h, Q),
               moved.h.data[moved.p] = Entries(h, mp), \A o \in Q : o.p # moved.p,
               Holding(moved.h, Q \cup {Owner("entries", mp.by, moved.p, size)})
        PROVE  Reserved(r, mp, h, st, V, R)
    <3>0. size = next * mapEntrySize /\ Q = (R \cup IndexBlock(mp)) \cup KeyBlocks(mp, Entries(h, mp))
      OBVIOUS
    <3> HIDE DEF moved, size, Q
    <3>1. Regrown(r, mp, h, st, V, R, next)
      BY <1>5, <2>1, <2>2, <2>5, <3>0, EntriesMoved
    <3> QED
      BY <2>2, <3>1 DEF Regrown, Reserved
  <2>6. CASE mp.entries = 0
    <3>0. old = 0
      BY <1>2, <2>6 DEF mapEntrySize
    <3>1. EntriesBlock(mp) = {} /\ Entries(h, mp) = <<>> /\ old = 0
      BY <2>6, <3>0 DEF EntriesBlock, Block, Entries
    <3>2. O = Q
      BY <3>1 DEF MapBlocks
    <3> HIDE DEF size, old, Q, O
    <3>3. Granted(moved, h, Q, "entries", mp.by, size)
      BY <1>2, <2>2, <2>6, <3>1, <3>2, HeldFirst
    <3> HIDE DEF moved
    <3>4. ASSUME moved.p # 0 PROVE Got(moved, h, Q, "entries", mp.by, size)
      BY <1>2, <3>2, <3>3, <3>4, AllocKeeps
    <3> QED
      BY <2>4, <2>5, <3>1, <3>4 DEF Got
  <2>7. CASE mp.entries # 0
    <3> DEFINE o == Owner("entries", mp.by, mp.entries, old)
    <3>1. EntriesBlock(mp) = {o} /\ Entries(h, mp) = h.data[mp.entries]
      BY <2>7 DEF EntriesBlock, Block, Entries
    <3>2. o.role = "entries" /\ o.by = mp.by /\ o.p = mp.entries /\ o.size = old
      BY OwnerIs
    <3> HIDE DEF o
    <3>3. o \in O /\ O \ {o} = Q
      BY <2>3, <3>1 DEF MapBlocks
    <3>4. h.data[o.p] \in Seq(Entry(V)) /\ Len(h.data[o.p]) <= o.size \div mapEntrySize
      <4>1. old \div mapEntrySize = mp.cap
        BY <1>2, DivTimes DEF mapEntrySize
      <4> HIDE DEF old
      <4> QED
        BY <1>2, <3>1, <3>2, <4>1
    <3>5. moved = allocator_realloc(o.by, h, o.p, o.size, size, mapEntrySize, grows)
      BY <3>2
    <3> HIDE DEF size, old, O, moved
    <3>6. Regranted(moved, h, O, o, size)
      <4>1. size >= o.size
        BY <2>2, <3>2
      <4> QED
        BY <1>2, <2>2, <3>3, <3>4, <3>5, <4>1, HeldRealloc
    <3>7. ASSUME moved.p # 0 PROVE Regot(moved, h, O, o, size)
      BY <1>2, <3>3, <3>6, <3>7, ReallocKeeps
    <3> HIDE DEF Q
    <3> QED
      BY <2>4, <2>5, <3>1, <3>2, <3>3, <3>7 DEF Regot
  <2> QED
    BY <2>6, <2>7
<1> QED
  BY <1>1, <1>3, <1>4, <1>5

-----------------------------------------------------------------------------
(* A value is replaced                                                     *)

\* Where entries are filed depends on their hashes only.
LEMMA FiledHash ==
  ASSUME NEW mp, NEW idx, NEW ents, NEW n, Filed(idx, ents, n, mp), NEW more,
         \A i \in 1 .. n : more[i].hash = ents[i].hash
  PROVE  Filed(idx, more, n, mp)
<1>1. \A s \in Slots(mp) : idx[s].control # 128 =>
        /\ idx[s].number + 1 \in 1 .. n
        /\ idx[s].control = Tag(more[idx[s].number + 1].hash)
  BY DEF Filed
<1>2. \A i \in 1 .. n : \E d \in 0 .. mp.icap - 1 :
        /\ idx[SlotAt(mp, more[i].hash, d)].control # 128
        /\ idx[SlotAt(mp, more[i].hash, d)].number = i - 1
        /\ \A x \in 0 .. d - 1 : idx[SlotAt(mp, more[i].hash, x)].control # 128
  <2> TAKE i \in 1 .. n
  <2>1. more[i].hash = ents[i].hash
    OBVIOUS
  <2> DEFINE hash == more[i].hash
  <2>2. \E d \in 0 .. mp.icap - 1 :
          /\ idx[SlotAt(mp, hash, d)].control # 128
          /\ idx[SlotAt(mp, hash, d)].number = i - 1
          /\ \A x \in 0 .. d - 1 : idx[SlotAt(mp, hash, x)].control # 128
    BY <2>1 DEF Filed
  <2> QED
    BY <2>2
<1> QED
  BY <1>1, <1>2 DEF Filed

\* Entries with the same keys own the same key copies.
LEMMA KeyBlocksSame ==
  ASSUME NEW mp, NEW ents, NEW more, Len(more) = Len(ents),
         \A i \in 1 .. Len(ents) : more[i].key = ents[i].key /\ more[i].len = ents[i].len
  PROVE  KeyBlocks(mp, more) = KeyBlocks(mp, ents)
<1> DEFINE n == Len(ents)
<1>1. \A i \in 1 .. n : KeyBlock(mp, more[i]) = KeyBlock(mp, ents[i])
                        /\ (more[i].len > 8 <=> ents[i].len > 8)
  BY DEF KeyBlock
<1>2. KeyBlocks(mp, ents) = {KeyBlock(mp, ents[i]) : i \in {j \in 1 .. n : ents[j].len > 8}}
      /\ KeyBlocks(mp, more) = {KeyBlock(mp, more[i]) : i \in {j \in 1 .. n : more[j].len > 8}}
  BY DEF KeyBlocks
<1> HIDE DEF n
<1>3. ASSUME NEW o PROVE o \in KeyBlocks(mp, more) <=> o \in KeyBlocks(mp, ents)
  BY <1>1, <1>2
<1> QED
  BY <1>3

\* What the key of an entry is compared with is the same where its copy is.
LEMMA BearsSame ==
  ASSUME NEW h, NEW g, NEW e, NEW f, NEW k \in Keys, Bears(h, e, k),
         f.hash = e.hash, f.len = e.len, f.key = e.key,
         e.len > 8 => g.data[e.key] = h.data[e.key]
  PROVE  Bears(g, f, k)
<1>1. KeyLen[k] \in Nat
  BY KeyFacts
<1> QED
  BY <1>1 DEF Bears, ShortKey

Revalued(h, p, i, v) == [h EXCEPT !.data[p][i].value = v]

EntryEdit(more, ents, i, v, V) ==
  /\ more \in Seq(Entry(V)) /\ Len(more) = Len(ents)
  /\ \A j \in 1 .. Len(ents) :
       /\ more[j].hash = ents[j].hash /\ more[j].len = ents[j].len
       /\ more[j].key = ents[j].key
       /\ more[j].value = IF j = i THEN v ELSE ents[j].value

StoredEdit(more, st, i, v, V) ==
  /\ more \in Seq([key : Keys, value : V]) /\ Len(more) = Len(st)
  /\ \A j \in 1 .. Len(st) :
       more[j].key = st[j].key /\ more[j].value = IF j = i THEN v ELSE st[j].value

\* An entry whose value changed is an entry, and the others are the same.
LEMMA EntryEdited ==
  ASSUME NEW V, NEW ents \in Seq(Entry(V)), NEW i \in 1 .. Len(ents), NEW v \in V,
         NEW more, more = [ents EXCEPT ![i].value = v]
  PROVE  EntryEdit(more, ents, i, v, V)
<1> DEFINE E == Entry(V)
           new == [ents[i] EXCEPT !.value = v]
<1>1. \A j \in 1 .. Len(ents) : ents[j] \in E
  <2> HIDE DEF E
  <2>1. ents \in Seq(E)
    BY DEF E
  <2> QED
    BY <2>1
<1>2. new \in E /\ new.hash = ents[i].hash /\ new.len = ents[i].len /\ new.key = ents[i].key
      /\ new.value = v
  BY <1>1 DEF Entry
<1> HIDE DEF E, new
<1>3. more = [ents EXCEPT ![i] = new] /\ ents \in Seq(E)
  BY DEF new, E
<1>4. more \in Seq(E) /\ Len(more) = Len(ents)
      /\ \A j \in 1 .. Len(ents) : more[j] = IF j = i THEN new ELSE ents[j]
  BY <1>2, <1>3
<1> QED
  BY <1>2, <1>4 DEF E, EntryEdit

\* The blocks R of others and K of key copies beside those of a header.
Parts(mp, R, K) ==
  /\ \A o \in R : o \notin EntriesBlock(mp) /\ o \notin IndexBlock(mp)
  /\ \A o \in K : o.role = "key"

EntriesWritten(g, h, mp, R, K, new) ==
  /\ Holding(g, R \cup ((EntriesBlock(mp) \cup IndexBlock(mp)) \cup K))
  /\ Kept(g, h, R) /\ Kept(g, h, IndexBlock(mp)) /\ Kept(g, h, K)
  /\ Entries(g, mp) = new /\ mp.entries \in DOMAIN h.data

IndexWritten(g, h, mp, R, K, new) ==
  /\ Holding(g, R \cup ((EntriesBlock(mp) \cup IndexBlock(mp)) \cup K))
  /\ Kept(g, h, R) /\ Kept(g, h, EntriesBlock(mp)) /\ Kept(g, h, K)
  /\ Index(g, mp) = new /\ mp.index \in DOMAIN h.data

\* A write to the entries leaves the map's other blocks as they were.
LEMMA WriteEntries ==
  ASSUME NEW mp, NEW R, NEW K, Parts(mp, R, K), mp.entries # 0,
         NEW h, Holding(h, R \cup ((EntriesBlock(mp) \cup IndexBlock(mp)) \cup K)),
         NEW new, NEW g, g = Written(h, mp.entries, new)
  PROVE  EntriesWritten(g, h, mp, R, K, new)
<1> DEFINE o == Owner("entries", mp.by, mp.entries, mp.cap * mapEntrySize)
           O == R \cup ((EntriesBlock(mp) \cup IndexBlock(mp)) \cup K)
<1>1. EntriesBlock(mp) = {o} /\ o.p = mp.entries /\ o.role = "entries"
  BY OwnerIs DEF EntriesBlock, Block
<1> HIDE DEF o
<1>2. /\ o \in O /\ R \subseteq O \ {o} /\ IndexBlock(mp) \subseteq O \ {o} /\ K \subseteq O \ {o}
  BY <1>1, Roles DEF Parts
<1>3. Holding(h, O) /\ g = Written(h, o.p, new)
  BY <1>1
<1> HIDE DEF O
<1>4. Wrote(g, h, O, o, new)
  BY <1>2, <1>3, WriteKeeps
<1>5. o.p \in DOMAIN h.data
  BY <1>2, <1>3, OwnersAt
<1>6. Kept(g, h, R) /\ Kept(g, h, IndexBlock(mp)) /\ Kept(g, h, K)
  BY <1>2, <1>4 DEF Wrote, Kept
<1>7. Entries(g, mp) = new
  BY <1>1, <1>4 DEF Wrote, Entries
<1>8. Holding(g, O)
  BY <1>4 DEF Wrote
<1> QED
  BY <1>1, <1>5, <1>6, <1>7, <1>8 DEF EntriesWritten, O

\* A write to the index leaves the map's other blocks as they were.
LEMMA WriteIndex ==
  ASSUME NEW mp, NEW R, NEW K, Parts(mp, R, K), mp.index # 0,
         NEW h, Holding(h, R \cup ((EntriesBlock(mp) \cup IndexBlock(mp)) \cup K)),
         NEW new, NEW g, g = Written(h, mp.index, new)
  PROVE  IndexWritten(g, h, mp, R, K, new)
<1> DEFINE o == Owner("index", mp.by, mp.index, mp.icap * 5)
           O == R \cup ((EntriesBlock(mp) \cup IndexBlock(mp)) \cup K)
<1>1. IndexBlock(mp) = {o} /\ o.p = mp.index /\ o.role = "index"
  BY OwnerIs DEF IndexBlock, Block
<1> HIDE DEF o
<1>2. /\ o \in O /\ R \subseteq O \ {o} /\ EntriesBlock(mp) \subseteq O \ {o} /\ K \subseteq O \ {o}
  BY <1>1, Roles DEF Parts
<1>3. Holding(h, O) /\ g = Written(h, o.p, new)
  BY <1>1
<1> HIDE DEF O
<1>4. Wrote(g, h, O, o, new)
  BY <1>2, <1>3, WriteKeeps
<1>5. o.p \in DOMAIN h.data
  BY <1>2, <1>3, OwnersAt
<1>6. Kept(g, h, R) /\ Kept(g, h, EntriesBlock(mp)) /\ Kept(g, h, K)
  BY <1>2, <1>4 DEF Wrote, Kept
<1>7. Index(g, mp) = new
  BY <1>1, <1>4 DEF Wrote, Index
<1>8. Holding(g, O)
  BY <1>4 DEF Wrote
<1> QED
  BY <1>1, <1>5, <1>6, <1>7, <1>8 DEF IndexWritten, O

\* The parts of a map's own blocks.
LEMMA PartsOf ==
  ASSUME NEW mp, NEW h, NEW st, NEW V, NEW R, MapHeld(mp, h, st, V, R),
         NEW K, K = KeyBlocks(mp, Entries(h, mp))
  PROVE  /\ Parts(mp, R, K)
         /\ Holding(h, R \cup ((EntriesBlock(mp) \cup IndexBlock(mp)) \cup K))
BY Roles DEF MapHeld, MapBlocks, Parts

\* Where the blocks are kept, so is what they hold.
LEMMA KeptIndex ==
  ASSUME NEW mp, NEW np, np.index = mp.index, NEW h, NEW g, Kept(g, h, IndexBlock(mp)), mp.index # 0
  PROVE  Index(g, np) = Index(h, mp)
<1>1. Owner("index", mp.by, mp.index, mp.icap * 5) \in IndexBlock(mp)
  BY DEF IndexBlock, Block
<1> QED
  BY <1>1, OwnerIs DEF Kept, Index

\* Entries are as they were where their block is.
LEMMA KeptEntries ==
  ASSUME NEW mp, NEW np, np.entries = mp.entries, NEW h, NEW g, Kept(g, h, EntriesBlock(mp))
  PROVE  Entries(g, np) = Entries(h, mp)
<1>1. mp.entries # 0 => Owner("entries", mp.by, mp.entries, mp.cap * mapEntrySize) \in EntriesBlock(mp)
  BY DEF EntriesBlock, Block
<1> QED
  BY <1>1, OwnerIs DEF Kept, Entries

\* A key copy is as it was where its block is.
LEMMA KeptKeys ==
  ASSUME NEW mp, NEW ents, NEW h, NEW g, Kept(g, h, KeyBlocks(mp, ents)),
         NEW i \in 1 .. Len(ents), ents[i].len > 8
  PROVE  g.data[ents[i].key] = h.data[ents[i].key]
<1>1. KeyBlock(mp, ents[i]) \in KeyBlocks(mp, ents)
  BY DEF KeyBlocks
<1> QED
  BY <1>1, OwnerIs DEF Kept, KeyBlock

\* What is stored under one key changed, the rest is the same.
LEMMA StoredEdited ==
  ASSUME NEW V, NEW st \in Seq([key : Keys, value : V]), NEW i \in 1 .. Len(st), NEW v \in V,
         NEW more, more = [st EXCEPT ![i].value = v]
  PROVE  StoredEdit(more, st, i, v, V)
<1> DEFINE E == [key : Keys, value : V]
           new == [st[i] EXCEPT !.value = v]
<1>1. \A j \in 1 .. Len(st) : st[j] \in E
  <2> HIDE DEF E
  <2>1. st \in Seq(E)
    BY DEF E
  <2> QED
    BY <2>1
<1>2. new \in E /\ new.key = st[i].key /\ new.value = v
  BY <1>1
<1> HIDE DEF E, new
<1>3. more = [st EXCEPT ![i] = new] /\ st \in Seq(E)
  BY DEF new, E
<1>4. more \in Seq(E) /\ Len(more) = Len(st)
      /\ \A j \in 1 .. Len(st) : more[j] = IF j = i THEN new ELSE st[j]
  BY <1>2, <1>3
<1> QED
  BY <1>2, <1>4 DEF E, StoredEdit

\* An insertion refused or carried out.
Inserted(r, mp, h, st, more, V, R) ==
  IF r.ok THEN Done(r, mp, h, more, V, R) ELSE Done(r, mp, h, st, V, R)

\* An insertion under a key that is there changes its value (map_replace).
LEMMA ReplaceHeld ==
  ASSUME NEW mp, NEW h, NEW st, NEW V, NEW R, MapHeld(mp, h, st, V, R), NEW v \in V,
         NEW i \in 1 .. mp.len, NEW slot, Index(h, mp)[slot].number + 1 = i,
         NEW more, StoredEdit(more, st, i, v, V),
         NEW r, r = map_replace(mp, h, slot, v)
  PROVE  Inserted(r, mp, h, st, more, V, R)
<1> DEFINE ents == Entries(h, mp)
           p == mp.entries
           new == [ents EXCEPT ![i].value = v]
           g == Written(h, p, new)
           K == KeyBlocks(mp, ents)
<1>1. /\ MapOk(mp, h, st, V) /\ mp.len \in Nat /\ mp.len # 0 /\ mp.cap \in Nat
      /\ ents \in Seq(Entry(V)) /\ Len(ents) = mp.len /\ mp.len <= mp.cap
      /\ (mp.entries = 0 <=> mp.cap = 0)
      /\ st \in Seq([key : Keys, value : V]) /\ Len(st) = mp.len
      /\ \A o \in R : o \notin MapBlocks(mp, h)
  BY MapFacts DEF MapHeld, MapOk
<1>2. p # 0 /\ ents = h.data[p] /\ i \in 1 .. Len(ents) /\ i \in 1 .. Len(st)
  BY <1>1 DEF Entries
<1>3. IsHeap(h)
  BY OwnersAt DEF MapHeld
<1>4. Parts(mp, R, K) /\ Holding(h, R \cup ((EntriesBlock(mp) \cup IndexBlock(mp)) \cup K))
  BY PartsOf
<1>n. new = [ents EXCEPT ![i].value = v]
  OBVIOUS
<1> HIDE DEF ents, new
<1>e. EntryEdit(new, ents, i, v, V)
  BY <1>1, <1>2, <1>n, EntryEdited
<1>5. /\ new \in Seq(Entry(V)) /\ Len(new) = Len(ents)
      /\ \A j \in 1 .. Len(ents) :
           /\ new[j].hash = ents[j].hash /\ new[j].len = ents[j].len /\ new[j].key = ents[j].key
           /\ new[j].value = IF j = i THEN v ELSE ents[j].value
  BY <1>e DEF EntryEdit
<1>6. /\ more \in Seq([key : Keys, value : V]) /\ Len(more) = Len(st)
      /\ \A j \in 1 .. Len(st) :
            more[j].key = st[j].key /\ more[j].value = IF j = i THEN v ELSE st[j].value
  BY DEF StoredEdit
<1> HIDE DEF K
<1>7. EntriesWritten(g, h, mp, R, K, new)
  <2>1. g = Written(h, mp.entries, new)
    OBVIOUS
  <2> HIDE DEF g
  <2> QED
    BY <1>2, <1>4, <2>1, WriteEntries
<1>8. r = [mp |-> mp, ok |-> TRUE, h |-> g]
  <2>1. p \in DOMAIN h.data
    BY <1>7 DEF EntriesWritten
  <2>2. Revalued(h, p, i, v) = g
    <3> HIDE DEF p
    <3> QED
      BY <1>2, <1>n DEF Revalued, Written
  <2>3. r = [mp |-> mp, ok |-> TRUE,
             h |-> [h EXCEPT !.data[mp.entries][Index(h, mp)[slot].number + 1].value = v]]
    BY DEF map_replace
  <2> QED
    BY <2>2, <2>3 DEF Revalued
<1> HIDE DEF g
<1>9. /\ Kept(g, h, R) /\ Kept(g, h, IndexBlock(mp)) /\ Kept(g, h, K) /\ Entries(g, mp) = new
      /\ Holding(g, R \cup ((EntriesBlock(mp) \cup IndexBlock(mp)) \cup K))
  BY <1>7 DEF EntriesWritten
<1>10. KeyBlocks(mp, new) = K
  BY <1>5, KeyBlocksSame DEF K
<1>11. MapBlocks(mp, g) = MapBlocks(mp, h)
  BY <1>9, <1>10 DEF MapBlocks, K, ents
<1>12. mp.index # 0 => Index(g, mp) = Index(h, mp)
  BY <1>9, KeptIndex
<1>13. mp.index # 0 => Filed(Index(g, mp), new, mp.len, mp)
  <2>1. mp.index # 0 => Filed(Index(g, mp), ents, mp.len, mp)
    BY <1>1, <1>12 DEF MapOk, ents
  <2> QED
    BY <1>1, <1>5, <2>1, FiledHash
<1>14. ASSUME NEW j \in 1 .. mp.len
       PROVE  Bears(g, new[j], more[j].key) /\ new[j].value = more[j].value
  <2>1. Bears(h, ents[j], st[j].key) /\ ents[j].value = st[j].value /\ st[j].key \in Keys
    BY <1>1, MapFacts DEF MapOk, ents
  <2>2. ents[j].len > 8 => g.data[ents[j].key] = h.data[ents[j].key]
    BY <1>1, <1>9, KeptKeys DEF K
  <2> DEFINE e == ents[j]
             f == new[j]
             k == st[j].key
  <2>3. f.hash = e.hash /\ f.len = e.len /\ f.key = e.key
    BY <1>1, <1>5
  <2>4. Bears(h, e, k) /\ k \in Keys /\ (e.len > 8 => g.data[e.key] = h.data[e.key])
    BY <2>1, <2>2
  <2> HIDE DEF e, f, k
  <2>5. Bears(g, f, k)
    BY <2>3, <2>4, BearsSame
  <2>6. more[j].key = k
    BY <1>1, <1>6 DEF k
  <2>7. new[j].value = more[j].value
    BY <1>1, <1>5, <1>6, <2>1
  <2> QED
    BY <2>5, <2>6, <2>7 DEF f
<1>15. \A a, b \in 1 .. mp.len : more[a].key = more[b].key => a = b
  BY <1>1, <1>6 DEF MapOk
<1>16. MapOk(mp, g, more, V)
  <2>1. /\ mp \in MapHeader /\ mp.len <= mp.cap /\ (mp.entries = 0 <=> mp.cap = 0)
        /\ (mp.index = 0 <=> mp.icap = 0) /\ mp.len <= (mp.icap * 3) \div 4
    BY <1>1 DEF MapOk
  <2>2. Len(more) = mp.len /\ Len(new) = mp.len
    BY <1>1, <1>5, <1>6
  <2>3. \A j \in 1 .. mp.len : Bears(g, new[j], more[j].key) /\ new[j].value = more[j].value
    BY <1>14
  <2> QED
    BY <1>5, <1>6, <1>9, <1>13, <1>15, <2>1, <2>2, <2>3 DEF MapOk
<1>17. Holding(g, R \cup MapBlocks(mp, g))
  BY <1>9, <1>11 DEF MapBlocks, K, ents
<1>18. r.mp = mp /\ r.h = g /\ r.ok = TRUE
  BY <1>8
<1> QED
  BY <1>1, <1>9, <1>11, <1>16, <1>17, <1>18 DEF Inserted, Done, MapHeld

-----------------------------------------------------------------------------
(* An entry is written behind the others                                   *)

Appended(new, s, n, e, E) ==
  /\ new \in Seq(E) /\ Len(new) = n + 1 /\ new[n + 1] = e /\ \A j \in 1 .. n : new[j] = s[j]

\* A list with one element behind the others.
LEMMA AppendedIs ==
  ASSUME NEW E, NEW s \in Seq(E), NEW n \in Nat, Len(s) = n, NEW e \in E
  PROVE  Appended(SubSeq(s, 1, n) \o <<e>>, s, n, e, E) /\ Appended(Append(s, e), s, n, e, E)
<1>1. SubSeq(s, 1, n) = s
  OBVIOUS
<1>2. s \o <<e>> = Append(s, e)
  OBVIOUS
<1>3. Appended(Append(s, e), s, n, e, E)
  BY DEF Appended
<1> QED
  BY <1>1, <1>2, <1>3

\* A new entry brings its key copy, if its key is long.
LEMMA KeyBlocksMore ==
  ASSUME NEW mp, NEW ents, NEW n \in Nat, Len(ents) = n, NEW new, NEW e, NEW E, Appended(new, ents, n, e, E)
  PROVE  KeyBlocks(mp, new) = KeyBlocks(mp, ents) \cup (IF e.len > 8 THEN {KeyBlock(mp, e)} ELSE {})
<1> DEFINE m == n + 1
           A == {KeyBlock(mp, ents[i]) : i \in {j \in 1 .. n : ents[j].len > 8}}
           B == {KeyBlock(mp, new[i]) : i \in {j \in 1 .. m : new[j].len > 8}}
           C == IF e.len > 8 THEN {KeyBlock(mp, e)} ELSE {}
<1>1. KeyBlocks(mp, ents) = A /\ KeyBlocks(mp, new) = B
  BY DEF KeyBlocks, Appended
<1>2. m \in 1 .. m /\ new[m] = e /\ \A i \in 1 .. n : i \in 1 .. m /\ new[i] = ents[i]
  BY DEF Appended
<1>3. \A i \in 1 .. m : i = m \/ i \in 1 .. n
  OBVIOUS
<1> HIDE DEF m
<1>4. ASSUME NEW o \in B PROVE o \in A \cup C
  <2>1. PICK i \in 1 .. m : new[i].len > 8 /\ o = KeyBlock(mp, new[i])
    BY <1>4
  <2>2. CASE i = m
    BY <1>2, <2>1, <2>2
  <2>3. CASE i \in 1 .. n
    BY <1>2, <2>1, <2>3
  <2> QED
    BY <1>3, <2>2, <2>3
<1>5. ASSUME NEW o \in A \cup C PROVE o \in B
  <2>1. CASE o \in A
    BY <1>2, <2>1
  <2>2. CASE o \in C
    BY <1>2, <2>2
  <2> QED
    BY <2>1, <2>2
<1>6. B = A \cup C
  <2> HIDE DEF A, B, C
  <2> QED
    BY <1>4, <1>5
<1> QED
  BY <1>1, <1>6

\* The copy of a long key is one of the blocks beside the map, until its entry
\* is written; a short key needs none.
KeyReady(mp, h, R, S, k, word) ==
  \/ ShortKey(k) /\ word = k /\ S = R
  \/ /\ ~ShortKey(k) /\ word \in Nat /\ h.data[word] = <<k>>
     /\ Owner("key", mp.by, word, KeyLen[k]) \in R
     /\ S = R \ {Owner("key", mp.by, word, KeyLen[k])}

NewEntry(k, word, v) == [hash |-> KeyHash[k], len |-> KeyLen[k], key |-> word, value |-> v]

KeysMoved(R, S, B, K, new) ==
  /\ S \cup (B \cup new) = R \cup (B \cup K)
  /\ \A o \in S : o \notin B \cup new
  /\ S \subseteq R

\* The copy made of a long key becomes the block of the entry that points to it.
LEMMA NewKeyBlocks ==
  ASSUME NEW mp, NEW h, NEW st, NEW V, NEW R, MapHeld(mp, h, st, V, R), NEW k \in Keys, NEW v,
         NEW word, NEW S, KeyReady(mp, h, R, S, k, word), NEW e, e = NewEntry(k, word, v),
         NEW K, K = KeyBlocks(mp, Entries(h, mp)),
         NEW new, NEW n \in Nat, Len(Entries(h, mp)) = n, NEW E, Appended(new, Entries(h, mp), n, e, E),
         NEW B, B = EntriesBlock(mp) \cup IndexBlock(mp)
  PROVE  KeysMoved(R, S, B, K, KeyBlocks(mp, new))
<1>1. KeyBlocks(mp, new) = K \cup (IF e.len > 8 THEN {KeyBlock(mp, e)} ELSE {})
  BY KeyBlocksMore
<1>2. e.len = KeyLen[k] /\ e.key = word /\ KeyLen[k] \in Nat
  BY KeyFacts DEF NewEntry
<1>3. \A o \in R : o \notin B \cup K
  BY DEF MapHeld, MapBlocks
<1>4. CASE ShortKey(k)
  <2>1. S = R /\ ~(e.len > 8)
    BY <1>2, <1>4 DEF KeyReady, ShortKey
  <2> QED
    BY <1>1, <1>3, <2>1 DEF KeysMoved
<1>5. CASE ~ShortKey(k)
  <2> DEFINE o == KeyBlock(mp, e)
  <2>1. o \in R /\ S = R \ {o} /\ e.len > 8
    BY <1>2, <1>5 DEF KeyReady, ShortKey, KeyBlock
  <2> HIDE DEF o
  <2>2. KeyBlocks(mp, new) = K \cup {o}
    BY <1>1, <2>1 DEF o
  <2> QED
    BY <1>3, <2>1, <2>2 DEF KeysMoved
<1> QED
  BY <1>4, <1>5

Slotted(idx, slot, hash, n) == [idx EXCEPT ![slot] = [control |-> Tag(hash), number |-> n]]
Extended(s, n, e) == SubSeq(s, 1, n) \o <<e>>

EntryPut(h, p, q, n, e, slot, hash) ==
  [h EXCEPT !.data[p] = SubSeq(@, 1, n) \o <<e>>,
            !.data[q][slot] = [control |-> Tag(hash), number |-> n]]

\* Writing the entry and its slot is two writes to two blocks.
LEMMA EntryAndSlot ==
  ASSUME NEW h, IsHeap(h), NEW p \in DOMAIN h.data, NEW q \in DOMAIN h.data, p # q,
         NEW n, NEW e, NEW slot, NEW hash
  PROVE  EntryPut(h, p, q, n, e, slot, hash)
           = Written(Written(h, p, Extended(h.data[p], n, e)), q, Slotted(h.data[q], slot, hash, n))
<1> DEFINE t == [control |-> Tag(hash), number |-> n]
           x == SubSeq(h.data[p], 1, n) \o <<e>>
           y == [h.data[q] EXCEPT ![slot] = t]
<1>1. h = [end |-> h.end, pages |-> h.pages, free |-> h.free, cap |-> h.cap, used |-> h.used,
           data |-> h.data]
  BY DEF IsHeap
<1> HIDE DEF t
<1>2. [h EXCEPT !.data[p] = SubSeq(@, 1, n) \o <<e>>, !.data[q][slot] = t]
        = [[h EXCEPT !.data[p] = x] EXCEPT !.data[q] = y]
  BY <1>1
<1> QED
  BY <1>2 DEF EntryPut, Written, Extended, Slotted, t

\* A new entry goes behind the others and its slot into the index
\* (writeMapInsertEntry).
LEMMA WriteEntryHeld ==
  ASSUME NEW mp, NEW h, NEW st, NEW V, NEW R, MapHeld(mp, h, st, V, R),
         mp.len + 1 <= mp.cap, mp.len + 1 <= (mp.icap * 3) \div 4,
         NEW k \in Keys, NEW v \in V, ~Holds(st, k),
         NEW d, FirstFree(Index(h, mp), mp, KeyHash[k], d),
         NEW slot, slot = SlotAt(mp, KeyHash[k], d),
         NEW word, NEW S, KeyReady(mp, h, R, S, k, word),
         NEW more, more = Append(st, [key |-> k, value |-> v]),
         NEW r, r = map_write_entry(mp, h, slot, k, word, v)
  PROVE  Done(r, mp, h, more, V, S) /\ r.ok = TRUE
<1> DEFINE ents == Entries(h, mp)
           idx == Index(h, mp)
           p == mp.entries
           q == mp.index
           n == mp.len
           hash == KeyHash[k]
           e == NewEntry(k, word, v)
           new == Extended(h.data[p], n, e)
           filed == Slotted(idx, slot, hash, n)
           w == Written(h, p, new)
           g == Written(w, q, filed)
           np == [mp EXCEPT !.len = @ + 1]
           K == KeyBlocks(mp, ents)
           B == EntriesBlock(mp) \cup IndexBlock(mp)
<1>1. /\ MapOk(mp, h, st, V) /\ mp \in MapHeader /\ n \in Nat /\ mp.cap \in Nat /\ mp.icap \in Nat
      /\ ents \in Seq(Entry(V)) /\ Len(ents) = n
      /\ (mp.entries = 0 <=> mp.cap = 0) /\ (mp.index = 0 <=> mp.icap = 0)
      /\ st \in Seq([key : Keys, value : V]) /\ Len(st) = n
      /\ DOMAIN st = 1 .. n
  BY MapFacts DEF MapHeld, MapOk
<1>2. mp.icap # 0 /\ mp.icap > 0
  <2>1. n + 1 <= mp.icap
    BY <1>1, QuarterSums
  <2> QED
    BY <1>1, <2>1
<1>3. p # 0 /\ q # 0 /\ ents = h.data[p] /\ idx = h.data[q]
  BY <1>1, <1>2 DEF Entries, Index
<1>4. IsHeap(h)
  BY OwnersAt DEF MapHeld
<1>5. Parts(mp, R, K) /\ Holding(h, R \cup (B \cup K))
  BY PartsOf
<1>6. /\ e \in Entry(V) /\ e.hash = hash /\ e.len = KeyLen[k] /\ e.key = word /\ e.value = v
      /\ hash \in Nat /\ KeyLen[k] \in Nat /\ Tag(hash) \in Nat /\ Tag(hash) # 128
  BY KeyFacts DEF KeyReady, NewEntry, Entry
<1>7. new = Extended(ents, n, e)
  BY <1>3
<1> HIDE DEF new, e, ents, filed, K, B, w, g
<1>8. Appended(new, ents, n, e, Entry(V))
  BY <1>1, <1>6, <1>7, AppendedIs DEF Extended
<1>9. Appended(more, st, n, [key |-> k, value |-> v], [key : Keys, value : V])
  <2> DEFINE E == [key : Keys, value : V]
             x == [key |-> k, value |-> v]
  <2>1. x \in E /\ st \in Seq(E) /\ more = Append(st, x)
    BY <1>1
  <2> HIDE DEF E, x
  <2> QED
    BY <1>1, <2>1, AppendedIs
<1>10. EntriesWritten(w, h, mp, R, K, new)
  BY <1>3, <1>5, WriteEntries DEF w, B
<1>11. IndexWritten(g, w, mp, R, K, filed)
  <2>1. Holding(w, R \cup ((EntriesBlock(mp) \cup IndexBlock(mp)) \cup K))
    BY <1>10 DEF EntriesWritten
  <2> QED
    BY <1>3, <1>5, <2>1, WriteIndex DEF g
<1>12. /\ Holding(g, R \cup (B \cup K)) /\ Kept(g, h, R) /\ Kept(g, h, K)
       /\ Index(g, mp) = filed
  BY <1>10, <1>11, KeptAgain DEF EntriesWritten, IndexWritten, B
<1>13. Entries(g, mp) = new
  BY <1>10, <1>11, KeptEntries DEF EntriesWritten, IndexWritten
<1>14. r = [mp |-> np, h |-> g, ok |-> TRUE]
  <2>1. p \in DOMAIN h.data
    BY <1>10 DEF EntriesWritten
  <2>2. q \in DOMAIN h.data
    <3>1. Owner("index", mp.by, q, mp.icap * 5) \in R \cup (B \cup K)
      BY <1>3 DEF B, IndexBlock, Block
    <3> QED
      BY <1>5, <3>1, OwnersAt, OwnerIs
  <2>3. p # q
    <3>1. Owner("index", mp.by, q, mp.icap * 5) \in R \cup (B \cup K)
          /\ Owner("entries", mp.by, p, mp.cap * mapEntrySize) \in R \cup (B \cup K)
      BY <1>3 DEF B, IndexBlock, EntriesBlock, Block
    <3>2. Owner("index", mp.by, q, mp.icap * 5) # Owner("entries", mp.by, p, mp.cap * mapEntrySize)
      BY DEF Owner
    <3> QED
      BY <1>5, <3>1, <3>2, OwnersAt, OwnerIs
  <2> DEFINE a == p
             b == q
             c == n
             x == hash
  <2>4. a \in DOMAIN h.data /\ b \in DOMAIN h.data /\ a # b
    BY <2>1, <2>2, <2>3
  <2>5. g = Written(Written(h, a, Extended(h.data[a], c, e)), b, Slotted(h.data[b], slot, x, c))
    BY <1>3 DEF g, w, new, filed
  <2> HIDE DEF a, b, c, x
  <2>6. EntryPut(h, a, b, c, e, slot, x) = g
    BY <1>4, <2>4, <2>5, EntryAndSlot
  <2>7. r = [mp |-> np, h |-> EntryPut(h, a, b, c, e, slot, x), ok |-> TRUE]
    BY DEF map_write_entry, EntryPut, e, NewEntry, a, b, c, x
  <2> HIDE DEF np
  <2> QED
    BY <2>6, <2>7
<1>15. np.index = mp.index /\ np.icap = mp.icap /\ np.entries = mp.entries
       /\ np.len = n + 1 /\ np.cap = mp.cap /\ np.by = mp.by /\ np.live = mp.live
       /\ np.words = mp.words /\ np \in MapHeader
  <2> DEFINE m == n + 1
  <2>1. m \in Nat /\ np = [mp EXCEPT !.len = m]
    BY <1>1
  <2> HIDE DEF m, np
  <2>2. np.index = mp.index /\ np.icap = mp.icap /\ np.entries = mp.entries
        /\ np.len = m /\ np.cap = mp.cap /\ np.by = mp.by /\ np.live = mp.live
        /\ np.words = mp.words /\ np \in MapHeader
    BY <1>1, <2>1 DEF MapHeader
  <2> QED
    BY <2>2 DEF m
<1> HIDE DEF np
<1>16. Entries(g, np) = new /\ Index(g, np) = filed
  BY <1>12, <1>13, <1>15 DEF Entries, Index
<1>17. Filed(filed, new, n + 1, np)
  <2>1. Filed(idx, ents, n, mp)
    BY <1>1, <1>3 DEF MapOk, ents
  <2>2. new[n + 1].hash = hash /\ \A i \in 1 .. n : new[i].hash = ents[i].hash
    BY <1>6, <1>8 DEF Appended
  <2>3. FirstFree(idx, mp, hash, d) /\ slot = SlotAt(mp, hash, d)
        /\ filed = [idx EXCEPT ![slot] = [control |-> Tag(hash), number |-> n]]
    BY DEF filed, Slotted
  <2> HIDE DEF idx, hash, n
  <2>4. Filed(filed, new, n + 1, mp)
    BY ZenonT(40), <1>1, <1>6, <2>1, <2>2, <2>3, FilesOneMore
  <2> QED
    BY <1>15, <2>4, FiledSame
<1>18. ASSUME NEW i \in 1 .. n
       PROVE  Bears(g, new[i], more[i].key) /\ new[i].value = more[i].value
  <2>1. Bears(h, ents[i], st[i].key) /\ ents[i].value = st[i].value /\ st[i].key \in Keys
    BY <1>1, MapFacts DEF MapOk, ents
  <2>2. ents[i].len > 8 => g.data[ents[i].key] = h.data[ents[i].key]
    BY <1>1, <1>12, KeptKeys DEF K
  <2>3. new[i] = ents[i] /\ more[i] = st[i]
    BY <1>8, <1>9 DEF Appended
  <2> DEFINE x == ents[i]
             y == st[i].key
  <2>4. Bears(h, x, y) /\ y \in Keys /\ (x.len > 8 => g.data[x.key] = h.data[x.key])
    BY <2>1, <2>2
  <2> HIDE DEF x, y
  <2>5. Bears(g, x, y)
    BY <2>4, BearsSame
  <2> QED
    BY <2>1, <2>3, <2>5 DEF x, y
<1>19. Bears(g, new[n + 1], more[n + 1].key) /\ new[n + 1].value = more[n + 1].value
       /\ more[n + 1].key = k
  <2>1. new[n + 1] = e /\ more[n + 1].key = k /\ more[n + 1].value = v
    BY <1>8, <1>9 DEF Appended
  <2>2. ~ShortKey(k) => word \in Nat /\ g.data[word] = <<k>>
    <3> SUFFICES ASSUME ~ShortKey(k) PROVE word \in Nat /\ g.data[word] = <<k>>
      OBVIOUS
    <3>1. word \in Nat /\ h.data[word] = <<k>> /\ Owner("key", mp.by, word, KeyLen[k]) \in R
      BY DEF KeyReady
    <3>2. g.data[word] = h.data[word]
      BY <1>12, <3>1, OwnerIs DEF Kept
    <3> QED
      BY <3>1, <3>2
  <2>3. ShortKey(k) => word = k
    BY DEF KeyReady
  <2>4. Bears(g, e, k)
    BY <1>6, <2>2, <2>3 DEF Bears
  <2> QED
    BY <1>6, <2>1, <2>4
<1>20. \A a, b \in 1 .. n + 1 : more[a].key = more[b].key => a = b
  <2>1. \A a \in 1 .. n : more[a] = st[a] /\ st[a].key # k
    <3> TAKE a \in 1 .. n
    <3>1. st[a].key # k
      BY <1>1 DEF Holds
    <3> QED
      BY <1>9, <3>1 DEF Appended
  <2>2. \A a, b \in 1 .. n : st[a].key = st[b].key => a = b
    BY <1>1 DEF MapOk
  <2> DEFINE m == n + 1
  <2>3. \A a \in 1 .. m : a \in 1 .. n \/ a = m
    BY <1>1
  <2>4. more[m].key = k
    BY <1>19
  <2> HIDE DEF m
  <2>5. ASSUME NEW a \in 1 .. m, NEW b \in 1 .. m, more[a].key = more[b].key PROVE a = b
    <3>1. CASE a \in 1 .. n /\ b \in 1 .. n
      <4>1. st[a].key = st[b].key
        BY <2>1, <2>5, <3>1
      <4> QED
        BY <2>2, <3>1, <4>1
    <3>2. CASE a = m /\ b \in 1 .. n
      <4>1. more[b].key = st[b].key /\ st[b].key # k
        BY <2>1, <3>2
      <4> QED
        BY <2>4, <2>5, <3>2, <4>1
    <3>3. CASE b = m /\ a \in 1 .. n
      <4>1. more[a].key = st[a].key /\ st[a].key # k
        BY <2>1, <3>3
      <4> QED
        BY <2>4, <2>5, <3>3, <4>1
    <3> QED
      BY <2>3, <3>1, <3>2, <3>3
  <2> QED
    BY <2>5 DEF m
<1>21. MapOk(np, g, more, V)
  <2>1. /\ np.len <= np.cap /\ (np.entries = 0 <=> np.cap = 0)
        /\ (np.index = 0 <=> np.icap = 0) /\ np.len <= (np.icap * 3) \div 4
    BY <1>1, <1>15
  <2>2. /\ Len(more) = np.len /\ Len(new) = np.len /\ new \in Seq(Entry(V))
        /\ more \in Seq([key : Keys, value : V])
    BY <1>8, <1>9, <1>15 DEF Appended
  <2>3. \A i \in 1 .. np.len : i \in 1 .. n \/ i = n + 1
    BY <1>1, <1>15
  <2>4. \A i \in 1 .. np.len : Bears(g, new[i], more[i].key) /\ new[i].value = more[i].value
    BY <1>18, <1>19, <2>3
  <2>5. \A a, b \in 1 .. np.len : more[a].key = more[b].key => a = b
    BY <1>15, <1>20
  <2>6. Filed(Index(g, np), Entries(g, np), np.len, np)
    BY <1>15, <1>16, <1>17
  <2> QED
    BY <1>15, <1>16, <2>1, <2>2, <2>4, <2>5, <2>6 DEF MapOk
<1>22. /\ S \cup (B \cup KeyBlocks(mp, new)) = R \cup (B \cup K)
       /\ \A o \in S : o \notin B \cup KeyBlocks(mp, new)
       /\ S \subseteq R
  <2> DEFINE c == n
  <2>1. Appended(new, Entries(h, mp), c, e, Entry(V)) /\ c \in Nat /\ Len(Entries(h, mp)) = c
    BY <1>1, <1>8 DEF ents
  <2> HIDE DEF c
  <2>2. e = NewEntry(k, word, v) /\ K = KeyBlocks(mp, Entries(h, mp))
        /\ B = EntriesBlock(mp) \cup IndexBlock(mp)
    BY DEF e, K, B, ents
  <2>3. KeysMoved(R, S, B, K, KeyBlocks(mp, new))
    BY <2>1, <2>2, NewKeyBlocks
  <2> QED
    BY <2>3 DEF KeysMoved
<1>23. MapBlocks(np, g) = B \cup KeyBlocks(mp, new)
  <2>1. EntriesBlock(np) = EntriesBlock(mp) /\ IndexBlock(np) = IndexBlock(mp)
    BY <1>15 DEF EntriesBlock, IndexBlock
  <2>2. KeyBlocks(np, new) = KeyBlocks(mp, new)
    BY <1>15 DEF KeyBlocks, KeyBlock
  <2> QED
    BY <1>16, <2>1, <2>2 DEF MapBlocks, B
<1>24. MapHeld(np, g, more, V, S)
  BY <1>12, <1>21, <1>22, <1>23 DEF MapHeld
<1>25. Kept(g, h, S)
  BY <1>12, <1>22 DEF Kept
<1>26. r.mp = np /\ r.h = g /\ r.ok = TRUE
  BY <1>14
<1> QED
  BY <1>15, <1>24, <1>25, <1>26 DEF Done

-----------------------------------------------------------------------------
(* Insertion                                                               *)

\* Two operations in a row on a map that is as it should be.
LEMMA DoneAgain ==
  ASSUME NEW mp, NEW h, NEW st, NEW V, NEW R, NEW s, Done(s, mp, h, st, V, R),
         NEW r, NEW more, NEW S, Done(r, s.mp, s.h, more, V, S), S \subseteq R
  PROVE  Done(r, mp, h, more, V, S)
BY DEF Done, Kept

\* What map_reserve answers.
LEMMA ReserveShape ==
  ASSUME NEW mp, NEW h, NEW needed, NEW grows, NEW r, r = map_reserve(mp, h, needed, grows)
  PROVE  r = [mp |-> r.mp, h |-> r.h, ok |-> r.ok]
<1> DEFINE first == IF mp.cap = 0 THEN EntriesFirst ELSE mp.cap * 2
           next == Min({n \in Doublings(first) : n >= needed})
           moved == allocator_realloc(mp.by, h, mp.entries, mp.cap * mapEntrySize,
                                      next * mapEntrySize, mapEntrySize, grows)
           np == [mp EXCEPT !.entries = moved.p, !.cap = next]
<1>1. \/ r = [mp |-> mp, h |-> h, ok |-> TRUE]
      \/ r = [mp |-> mp, h |-> h, ok |-> FALSE]
      \/ r = [mp |-> np, h |-> moved.h, ok |-> TRUE]
  BY DEF map_reserve, map_reserved
<1> HIDE DEF np, moved
<1> QED
  BY <1>1

\* The copy of a key is given back.
LEMMA CopyFreed ==
  ASSUME NEW mp, NEW h, NEW st, NEW V, NEW R, MapHeld(mp, h, st, V, R), NEW o \in R, o.by = mp.by,
         NEW g, g = allocator_free(o.by, h, o.p), NEW r, r = [mp |-> mp, h |-> g, ok |-> FALSE]
  PROVE  Done(r, mp, h, st, V, R \ {o}) /\ r.ok = FALSE
<1> DEFINE B == MapBlocks(mp, h)
           O == R \cup B
<1>1. Holding(h, O) /\ o \in O /\ MapOk(mp, h, st, V) /\ \A q \in R : q \notin B
  BY DEF MapHeld
<1> HIDE DEF O
<1>2. Kept(g, h, O \ {o}) /\ Holding(g, O \ {o})
  BY <1>1, FreeKeeps
<1>3. O \ {o} = (R \ {o}) \cup B
  BY <1>1 DEF O
<1>4. Kept(g, h, R \ {o}) /\ Kept(g, h, B)
  BY <1>2, <1>3 DEF Kept
<1>5. MapOk(mp, g, st, V) /\ MapBlocks(mp, g) = B
  BY <1>1, <1>4, MapKept
<1>6. MapHeld(mp, g, st, V, R \ {o})
  BY <1>1, <1>2, <1>3, <1>5 DEF MapHeld
<1>7. r.mp = mp /\ r.h = g /\ r.ok = FALSE
  OBVIOUS
<1> QED
  BY <1>4, <1>6, <1>7 DEF Done

OneMore(st, k, v) == Append(st, [key |-> k, value |-> v])

\* A new entry is written when there is room, and its key copy goes back when
\* there is none (map_insert_entry).
LEMMA InsertEntryHeld ==
  ASSUME NEW mp, NEW h, NEW st, NEW V, NEW R, MapHeld(mp, h, st, V, R), NEW grows \in BOOLEAN,
         mp.len + 1 <= (mp.icap * 3) \div 4,
         NEW k \in Keys, NEW v \in V, ~Holds(st, k),
         NEW d, FirstFree(Index(h, mp), mp, KeyHash[k], d),
         NEW slot, slot = SlotAt(mp, KeyHash[k], d),
         NEW copy, NEW S, KeyReady(mp, h, R, S, k, IF ShortKey(k) THEN k ELSE copy),
         NEW room, room = map_reserve(mp, h, mp.len + 1, grows),
         NEW r, r = map_insert_entry(room, slot, k, copy, v)
  PROVE  Inserted(r, mp, h, st, OneMore(st, k, v), V, S)
<1> DEFINE word == IF ShortKey(k) THEN k ELSE copy
<1>1. Reserved(room, mp, h, st, V, R)
  BY ReserveHeld
<1>2. /\ Done(room, mp, h, st, V, R) /\ SameIndex(room, mp, h)
      /\ room.ok => mp.len + 1 <= room.mp.cap
      /\ room.mp.by = mp.by /\ Kept(room.h, h, R) /\ MapHeld(room.mp, room.h, st, V, R)
      /\ room.mp.len = mp.len /\ room.mp.icap = mp.icap /\ room.ok \in BOOLEAN
  BY <1>1 DEF Reserved, Done, SameIndex
<1>3. S \subseteq R
  BY DEF KeyReady
<1>4. room = [mp |-> room.mp, h |-> room.h, ok |-> room.ok]
  BY ReserveShape
<1>k. KeyReady(mp, h, R, S, k, word)
  OBVIOUS
<1>5. CASE room.ok
  <2> DEFINE nm == room.mp
             nh == room.h
             more == OneMore(st, k, v)
  <2>1. r = map_write_entry(nm, nh, slot, k, word, v)
    BY <1>5 DEF map_insert_entry
  <2>2. KeyReady(nm, nh, R, S, k, word)
    <3>1. Owner("key", mp.by, word, KeyLen[k]) \in R => nh.data[word] = h.data[word]
      BY <1>2, OwnerIs DEF Kept
    <3> HIDE DEF word
    <3> QED
      BY <1>2, <1>k, <3>1 DEF KeyReady
  <2>3. mp.index # 0
    <3>1. mp.len \in Nat /\ mp.icap \in Nat /\ (mp.index = 0 <=> mp.icap = 0)
      BY MapFacts DEF MapHeld, MapOk
    <3>2. mp.icap # 0
      BY <3>1, QuarterSums
    <3> QED
      BY <3>1, <3>2
  <2>4. FirstFree(Index(nh, nm), nm, KeyHash[k], d) /\ slot = SlotAt(nm, KeyHash[k], d)
    <3>1. Index(nh, nm) = Index(h, mp) /\ nm.icap = mp.icap
      BY <1>2, <2>3 DEF SameIndex
    <3>2. \A hash, x : SlotAt(nm, hash, x) = SlotAt(mp, hash, x)
      BY <3>1 DEF SlotAt
    <3> HIDE DEF nh, nm
    <3> QED
      BY <3>1, <3>2 DEF FirstFree
  <2>5. /\ nm.len + 1 <= nm.cap /\ nm.len + 1 <= (nm.icap * 3) \div 4 /\ MapHeld(nm, nh, st, V, R)
        /\ more = Append(st, [key |-> k, value |-> v])
    BY <1>2, <1>5 DEF OneMore
  <2> HIDE DEF nm, nh, more, word
  <2>6. Done(r, nm, nh, more, V, S) /\ r.ok = TRUE
    BY <2>1, <2>2, <2>4, <2>5, WriteEntryHeld
  <2>7. Done(r, mp, h, more, V, S)
    BY <1>2, <1>3, <2>6, DoneAgain DEF nm, nh
  <2> QED
    BY <2>6, <2>7 DEF Inserted, more
<1>6. CASE ~room.ok
  <2>1. CASE ShortKey(k)
    <3>1. S = R
      BY <2>1 DEF KeyReady
    <3>2. r = [room EXCEPT !.h = room.h]
      BY <1>6, <2>1 DEF map_insert_entry
    <3>3. r = room
      BY <1>4, <3>2
    <3> QED
      BY <1>2, <1>6, <3>1, <3>3 DEF Inserted
  <2>2. CASE ~ShortKey(k)
    <3> DEFINE o == Owner("key", mp.by, copy, KeyLen[k])
               g == allocator_free(o.by, room.h, o.p)
    <3>1. o \in R /\ S = R \ {o} /\ o.by = room.mp.by /\ o.p = copy
      BY <1>2, <2>2, OwnerIs DEF KeyReady
    <3>2. r = [room EXCEPT !.h = g]
      BY <1>6, <2>2, <3>1 DEF map_insert_entry
    <3> HIDE DEF o
    <3>g. g = allocator_free(o.by, room.h, o.p)
      OBVIOUS
    <3> HIDE DEF g
    <3>3. r = [mp |-> room.mp, h |-> g, ok |-> FALSE]
      BY <1>2, <1>4, <1>6, <3>2
    <3> DEFINE nm == room.mp
               nh == room.h
    <3>4. MapHeld(nm, nh, st, V, R) /\ o.by = nm.by /\ g = allocator_free(o.by, nh, o.p)
          /\ r = [mp |-> nm, h |-> g, ok |-> FALSE]
      BY <1>2, <3>1, <3>3, <3>g
    <3> HIDE DEF nm, nh
    <3>5. Done(r, nm, nh, st, V, R \ {o}) /\ r.ok = FALSE
      BY ZenonT(30), <3>1, <3>4, CopyFreed
    <3>6. Done(r, mp, h, st, V, S)
      BY <1>2, <3>1, <3>5, DoneAgain DEF nm, nh
    <3> QED
      BY <3>5, <3>6 DEF Inserted
  <2> QED
    BY <2>1, <2>2
<1> QED
  BY <1>2, <1>5, <1>6

\* A long key is copied first.
LEMMA InsertKeyedHeld ==
  ASSUME NEW mp, NEW h, NEW st, NEW V, NEW R, MapHeld(mp, h, st, V, R), NEW grows \in BOOLEAN,
         mp.len + 1 <= (mp.icap * 3) \div 4, mp.index # 0,
         NEW k \in Keys, NEW v \in V, ~Holds(st, k), ~ShortKey(k),
         NEW d, FirstFree(Index(h, mp), mp, KeyHash[k], d),
         NEW slot, slot = SlotAt(mp, KeyHash[k], d),
         NEW r, r = map_insert_keyed(mp, allocator_alloc(mp.by, h, KeyLen[k], grows), slot, k, v, grows)
  PROVE  Inserted(r, mp, h, st, OneMore(st, k, v), V, R)
<1> DEFINE size == KeyLen[k]
           c == allocator_alloc(mp.by, h, size, grows)
           B == MapBlocks(mp, h)
           O == R \cup B
<1>1. /\ Holding(h, O) /\ MapOk(mp, h, st, V) /\ mp.by \in {"page", "fixed", "user"}
      /\ \A o \in R : o \notin B
      /\ size \in Nat /\ size > 0
  BY MapFacts, KeyFacts DEF MapHeld, ShortKey
<1>r. r = map_insert_keyed(mp, c, slot, k, v, grows)
  OBVIOUS
<1> HIDE DEF size, O
<1>2. Granted(c, h, O, "key", mp.by, size)
  BY <1>1, HeldAlloc
<1> HIDE DEF c
<1>3. CASE c.p = 0
  <2>1. c.h = h
    BY <1>2, <1>3 DEF Granted
  <2>2. r.mp = mp /\ r.h = h /\ r.ok = FALSE
    BY <1>r, <1>3, <2>1 DEF map_insert_keyed
  <2>3. Done(r, mp, h, st, V, R)
    BY <2>2, DoneNothing
  <2> QED
    BY <2>2, <2>3 DEF Inserted
<1>4. CASE c.p # 0
  <2> DEFINE o == Owner("key", mp.by, c.p, size)
             x == <<k>>
             g == Written(c.h, c.p, x)
             N == O \cup {o}
             R2 == R \cup {o}
  <2>1. Got(c, h, O, "key", mp.by, size)
    BY <1>1, <1>2, <1>4, AllocKeeps
  <2>2. o.p = c.p /\ o \notin O /\ c.p \in Nat /\ Kept(c.h, h, O) /\ Holding(c.h, N)
    BY <2>1, OwnerIs DEF Got
  <2>g. g = Written(c.h, o.p, x) /\ o \in N
    BY <2>2
  <2>o. o = Owner("key", mp.by, c.p, size)
    OBVIOUS
  <2>w. r = map_insert_entry(map_reserve(mp, g, mp.len + 1, grows), slot, k, c.p, v)
    BY <1>r, <1>4 DEF map_insert_keyed, Written
  <2> HIDE DEF o, x, g, N
  <2>3. Wrote(g, c.h, N, o, x)
    BY <2>2, <2>g, WriteKeeps
  <2>4. Holding(g, N) /\ Kept(g, h, O) /\ g.data[c.p] = <<k>>
    BY <2>2, <2>3 DEF Wrote, Kept, N, x
  <2>5. Kept(g, h, R) /\ Kept(g, h, B)
    BY <2>4 DEF Kept, O
  <2>6. /\ MapOk(mp, g, st, V) /\ MapBlocks(mp, g) = B /\ Index(g, mp) = Index(h, mp)
    BY <1>1, <2>5, MapKept
  <2>7. MapHeld(mp, g, st, V, R2)
    BY <1>1, <2>2, <2>4, <2>6 DEF MapHeld, N, O
  <2>8. KeyReady(mp, g, R2, R, k, IF ShortKey(k) THEN k ELSE c.p)
    <3>1. R = R2 \ {o}
      BY <2>2 DEF O
    <3> QED
      BY <2>2, <2>4, <2>o, <3>1 DEF KeyReady, size
  <2>9. FirstFree(Index(g, mp), mp, KeyHash[k], d)
    BY <2>6
  <2> DEFINE room == map_reserve(mp, g, mp.len + 1, grows)
             copy == c.p
  <2>10. r = map_insert_entry(room, slot, k, copy, v) /\ room = map_reserve(mp, g, mp.len + 1, grows)
    BY <2>w
  <2>11. KeyReady(mp, g, R2, R, k, IF ShortKey(k) THEN k ELSE copy)
    BY <2>8
  <2> HIDE DEF room, copy, R2
  <2>12. Inserted(r, mp, g, st, OneMore(st, k, v), V, R)
    BY <2>7, <2>9, <2>10, <2>11, InsertEntryHeld
  <2> QED
    BY <2>5, <2>12 DEF Inserted, Done, Kept
<1> QED
  BY <1>3, <1>4

\* What the program is told it stored.
After(st, k, v) ==
  IF Holds(st, k) THEN [st EXCEPT ![Position(st, k)].value = v] ELSE OneMore(st, k, v)

\* An insertion into an index with room, whether or not the key is there
\* (map_insert_at).
LEMMA InsertAtHeld ==
  ASSUME NEW mp, NEW h, NEW st, NEW V, NEW R, MapHeld(mp, h, st, V, R), NEW grows \in BOOLEAN,
         mp.len + 1 <= (mp.icap * 3) \div 4, NEW k \in Keys, NEW v \in V,
         NEW r, r = map_insert_at(mp, h, map_slot(h, mp, k), k, v, grows)
  PROVE  Inserted(r, mp, h, st, After(st, k, v), V, R)
<1> DEFINE slot == map_slot(h, mp, k)
<1>1. MapOk(mp, h, st, V) /\ mp.icap # 0 /\ mp.index # 0
  <2>1. MapOk(mp, h, st, V) /\ mp.icap \in Nat /\ mp.len \in Nat
    BY MapFacts DEF MapHeld
  <2>2. mp.icap # 0
    BY <2>1, QuarterSums
  <2> QED
    BY <2>1, <2>2 DEF MapOk
<1>2. PICK d : slot = SlotAt(mp, KeyHash[k], d) /\ Found(mp, h, st, k, d)
  BY <1>1, SlotFinds
<1> DEFINE s == Index(h, mp)[slot]
<1>3. \/ s.control = 128 /\ ~Holds(st, k) /\ FirstFree(Index(h, mp), mp, KeyHash[k], d)
      \/ s.control # 128 /\ s.number + 1 \in 1 .. mp.len /\ st[s.number + 1].key = k
  BY <1>2 DEF Found
<1>r. r = map_insert_at(mp, h, slot, k, v, grows)
  OBVIOUS
<1> HIDE DEF slot
<1>4. CASE s.control # 128 /\ s.number + 1 \in 1 .. mp.len /\ st[s.number + 1].key = k
  <2> DEFINE i == s.number + 1
             more == [st EXCEPT ![i].value = v]
  <2>1. i \in 1 .. mp.len /\ Index(h, mp)[slot].number + 1 = i /\ st[i].key = k
    BY <1>4
  <2>2. r = map_replace(mp, h, slot, v)
    BY <1>r, <1>4 DEF map_insert_at
  <2> HIDE DEF i
  <2>3. Holds(st, k) /\ Position(st, k) = i
    BY <1>1, <2>1, PositionIs
  <2>4. more = After(st, k, v) /\ more = [st EXCEPT ![i].value = v]
    BY <2>3 DEF After
  <2> HIDE DEF more
  <2>5. st \in Seq([key : Keys, value : V]) /\ i \in 1 .. Len(st)
    BY <1>1, <2>1 DEF MapOk
  <2>6. StoredEdit(more, st, i, v, V)
    BY <2>4, <2>5, StoredEdited
  <2>7. Inserted(r, mp, h, st, more, V, R)
    BY <2>1, <2>2, <2>6, ReplaceHeld
  <2> QED
    BY <2>4, <2>7
<1>5. CASE s.control = 128 /\ ~Holds(st, k) /\ FirstFree(Index(h, mp), mp, KeyHash[k], d)
  <2>1. After(st, k, v) = OneMore(st, k, v)
    BY <1>5 DEF After
  <2>2. CASE ShortKey(k)
    <3> DEFINE copy == 0
               room == map_reserve(mp, h, mp.len + 1, grows)
    <3>1. r = map_insert_entry(room, slot, k, copy, v)
      BY <1>r, <1>5, <2>2 DEF map_insert_at
    <3>2. KeyReady(mp, h, R, R, k, IF ShortKey(k) THEN k ELSE copy)
      BY <2>2 DEF KeyReady
    <3>3. room = map_reserve(mp, h, mp.len + 1, grows)
      OBVIOUS
    <3> HIDE DEF copy, room
    <3>4. Inserted(r, mp, h, st, OneMore(st, k, v), V, R)
      BY <1>2, <1>5, <3>1, <3>2, <3>3, InsertEntryHeld
    <3> QED
      BY <2>1, <3>4
  <2>3. CASE ~ShortKey(k)
    <3>1. r = map_insert_keyed(mp, allocator_alloc(mp.by, h, KeyLen[k], grows), slot, k, v, grows)
      BY <1>r, <1>5, <2>3 DEF map_insert_at
    <3>2. Inserted(r, mp, h, st, OneMore(st, k, v), V, R)
      BY <1>1, <1>2, <1>5, <2>3, <3>1, InsertKeyedHeld
    <3> QED
      BY <2>1, <3>2
  <2> QED
    BY <2>2, <2>3
<1> QED
  BY <1>3, <1>4, <1>5

\* An insertion after the index has grown.
LEMMA InsertedAfter ==
  ASSUME NEW mp, NEW h, NEW st, NEW V, NEW R, NEW s, Done(s, mp, h, st, V, R), NEW more,
         NEW r, Inserted(r, s.mp, s.h, st, more, V, R)
  PROVE  Inserted(r, mp, h, st, more, V, R)
<1>1. CASE r.ok
  <2>1. Done(r, s.mp, s.h, more, V, R)
    BY <1>1 DEF Inserted
  <2>2. Done(r, mp, h, more, V, R)
    BY <2>1, DoneAgain
  <2> QED
    BY <1>1, <2>2 DEF Inserted
<1>2. CASE ~r.ok
  <2>1. Done(r, s.mp, s.h, st, V, R)
    BY <1>2 DEF Inserted
  <2>2. Done(r, mp, h, st, V, R)
    BY <2>1, DoneAgain
  <2> QED
    BY <1>2, <2>2 DEF Inserted
<1> QED
  BY <1>1, <1>2

\* map_insert stores the value under the key, or refuses and leaves the map with
\* what it held.
LEMMA InsertHeld ==
  ASSUME NEW mp, NEW h, NEW st, NEW V, NEW R, MapHeld(mp, h, st, V, R), NEW grows \in BOOLEAN,
         NEW k \in Keys, NEW v \in V, NEW r, r = map_insert(mp, h, k, v, grows)
  PROVE  Inserted(r, mp, h, st, After(st, k, v), V, R)
<1> DEFINE s == map_reindex(mp, h, mp.len + 1, grows)
<1>1. /\ Done(s, mp, h, st, V, R) /\ s.mp.len = mp.len
      /\ s.ok => mp.len + 1 <= (s.mp.icap * 3) \div 4
  BY ReindexHeld
<1>2. r = map_insert_indexed(s, k, v, grows)
  BY DEF map_insert
<1> HIDE DEF s
<1>3. CASE s.ok
  <2> DEFINE nm == s.mp
             nh == s.h
  <2>1. r = map_insert_at(nm, nh, map_slot(nh, nm, k), k, v, grows)
    BY <1>2, <1>3 DEF map_insert_indexed
  <2>2. MapHeld(nm, nh, st, V, R) /\ nm.len + 1 <= (nm.icap * 3) \div 4
    BY <1>1, <1>3 DEF Done
  <2> HIDE DEF nm, nh
  <2>3. Inserted(r, nm, nh, st, After(st, k, v), V, R)
    BY <2>1, <2>2, InsertAtHeld
  <2> QED
    BY <1>1, <2>3, InsertedAfter DEF nm, nh
<1>4. CASE ~s.ok
  <2>1. r = s
    BY <1>2, <1>4 DEF map_insert_indexed
  <2> QED
    BY <1>1, <1>4, <2>1 DEF Inserted
<1> QED
  BY <1>3, <1>4

\* The test of __map_insert_word is that of the index: it has room for one more.
LEMMA WordRoom ==
  \A n, c \in Nat : ~((n + 1) * 4 > c * 3) => n + 1 <= (c * 3) \div 4
OBVIOUS

\* map_insert_word stores the value under the key, or refuses and leaves the map
\* with what it held.
THEOREM InsertWordHeld ==
  ASSUME NEW mp, NEW h, NEW st, NEW V, NEW R, MapHeld(mp, h, st, V, R), NEW grows \in BOOLEAN,
         NEW k \in Keys, NEW v \in V, NEW r, r = map_insert_word(mp, h, k, v, grows)
  PROVE  Inserted(r, mp, h, st, After(st, k, v), V, R)
<1>1. CASE (mp.len + 1) * 4 > mp.icap * 3
  <2>1. r = map_insert(mp, h, k, v, grows)
    BY <1>1 DEF map_insert_word, map_insert
  <2> QED
    BY <2>1, InsertHeld
<1>2. CASE ~((mp.len + 1) * 4 > mp.icap * 3)
  <2>1. r = map_insert_at(mp, h, map_slot(h, mp, k), k, v, grows)
    BY <1>2 DEF map_insert_word
  <2>2. mp.len + 1 <= (mp.icap * 3) \div 4
    <3>1. mp.len \in Nat /\ mp.icap \in Nat
      BY MapFacts DEF MapHeld
    <3> QED
      BY <1>2, <3>1, WordRoom
  <2> QED
    BY <2>1, <2>2, InsertAtHeld
<1> QED
  BY <1>1, <1>2

-----------------------------------------------------------------------------
(* Removal                                                                 *)

Removed(new, s, n, E) ==
  /\ new \in Seq(E) /\ Len(new) + 1 = Len(s)
  /\ \A j \in 1 .. Len(new) : new[j] = s[IF j < n THEN j ELSE j + 1]

\* A list without one of its elements.
LEMMA RemovedIs ==
  ASSUME NEW E, NEW s \in Seq(E), NEW n \in 1 .. Len(s), NEW new, new = RemoveAt(s, n)
  PROVE  Removed(new, s, n, E)
<1> DEFINE a == SubSeq(s, 1, n - 1)
           b == SubSeq(s, n + 1, Len(s))
<1>1. n \in Nat /\ n >= 1 /\ n <= Len(s) /\ Len(s) \in Nat
  OBVIOUS
<1>2. a \in Seq(E) /\ Len(a) = n - 1 /\ \A j \in 1 .. n - 1 : a[j] = s[j]
  <2>1. \A j \in 1 .. n - 1 : s[j] \in E
    BY <1>1
  <2> QED
    BY <1>1, <2>1
<1>3. b \in Seq(E) /\ Len(b) = Len(s) - n /\ \A j \in 1 .. Len(s) - n : b[j] = s[n + j]
  <2>1. \A j \in 1 .. Len(s) : s[j] \in E
    BY <1>1
  <2>2. Len(b) = Len(s) - n
    BY <1>1
  <2>3. \A j \in 1 .. Len(s) - n : b[j] = s[n + j]
    BY <1>1
  <2> QED
    BY <1>1, <2>1, <2>2, <2>3
<1>4. new = a \o b
  BY DEF RemoveAt
<1> HIDE DEF a, b
<1>5. new \in Seq(E) /\ Len(new) = Len(s) - 1
  BY <1>1, <1>2, <1>3, <1>4
<1>6. ASSUME NEW j \in 1 .. Len(new) PROVE new[j] = s[IF j < n THEN j ELSE j + 1]
  <2>1. CASE j < n
    BY <1>1, <1>2, <1>3, <1>4, <1>5, <2>1
  <2>2. CASE ~(j < n)
    <3>1. j - (n - 1) \in 1 .. Len(s) - n /\ n + (j - (n - 1)) = j + 1
      BY <1>1, <1>5, <2>2
    <3>2. new[j] = b[j - (n - 1)]
      BY <1>1, <1>2, <1>3, <1>4, <1>5, <2>2
    <3> QED
      BY <1>3, <2>2, <3>1, <3>2
  <2> QED
    BY <2>1, <2>2
<1> QED
  BY <1>1, <1>5, <1>6 DEF Removed

\* The copies of two keys are two blocks, for they hold two keys.
LEMMA KeysApart ==
  ASSUME NEW mp, NEW h, NEW st, NEW V, MapOk(mp, h, st, V), NEW i \in 1 .. mp.len, NEW j \in 1 .. mp.len,
         Entries(h, mp)[i].len > 8, Entries(h, mp)[j].len > 8,
         Entries(h, mp)[i].key = Entries(h, mp)[j].key
  PROVE  i = j
<1> DEFINE a == st[i].key
           b == st[j].key
           e == Entries(h, mp)[i]
           f == Entries(h, mp)[j]
<1>1. Bears(h, e, a) /\ Bears(h, f, b) /\ a \in Keys /\ b \in Keys
  BY MapFacts DEF MapOk
<1>2. e.len > 8 /\ f.len > 8 /\ e.key = f.key
  OBVIOUS
<1> HIDE DEF a, b, e, f
<1>3. <<a>> = <<b>>
  BY <1>1, <1>2, KeyFacts DEF Bears, ShortKey
<1>4. a = b
  BY <1>3
<1> QED
  BY <1>4 DEF MapOk, a, b

\* The block of an entry's key copy, if it has one.
KeyOf(mp, e) == IF e.len > 8 THEN {KeyBlock(mp, e)} ELSE {}

\* A removed entry takes its key copy with it.
LEMMA KeyBlocksLess ==
  ASSUME NEW mp, NEW h, NEW st, NEW V, MapOk(mp, h, st, V), NEW n \in 1 .. mp.len,
         NEW ents, ents = Entries(h, mp), NEW left, Removed(left, ents, n, Entry(V))
  PROVE  /\ KeyBlocks(mp, left) = KeyBlocks(mp, ents) \ KeyOf(mp, ents[n])
         /\ KeyOf(mp, ents[n]) \subseteq KeyBlocks(mp, ents)
<1> DEFINE A == KeyBlocks(mp, ents)
           B == KeyBlocks(mp, left)
           C == KeyOf(mp, ents[n])
<1>1. /\ Len(ents) = mp.len /\ mp.len \in Nat /\ n \in 1 .. Len(ents) /\ n \in Nat
      /\ Len(left) \in Nat /\ Len(left) + 1 = Len(ents)
      /\ \A j \in 1 .. Len(left) : left[j] = ents[IF j < n THEN j ELSE j + 1]
  BY MapFacts DEF MapOk, Removed
<1>2. ASSUME NEW i \in 1 .. Len(ents), ents[i].len > 8, ents[n].len > 8,
             KeyBlock(mp, ents[i]) = KeyBlock(mp, ents[n])
      PROVE  i = n
  <2>1. ents[i].key = ents[n].key
    BY <1>2, OwnerIs DEF KeyBlock
  <2> QED
    BY <1>1, <1>2, <2>1, KeysApart
<1>3. ASSUME NEW o \in B PROVE o \in A \ C
  <2>1. PICK j \in 1 .. Len(left) : left[j].len > 8 /\ o = KeyBlock(mp, left[j])
    BY <1>3 DEF KeyBlocks
  <2>2. PICK i \in 1 .. Len(ents) : i # n /\ left[j] = ents[i]
    <3>1. CASE j < n
      <4>1. j \in 1 .. Len(ents) /\ j # n /\ left[j] = ents[j]
        BY <1>1, <3>1
      <4> QED
        BY <4>1
    <3>2. CASE ~(j < n)
      <4> DEFINE m == j + 1
      <4>1. m \in 1 .. Len(ents) /\ m # n /\ left[j] = ents[m]
        BY <1>1, <3>2
      <4> QED
        BY <4>1
    <3> QED
      BY <3>1, <3>2
  <2>3. o \in A
    BY <2>1, <2>2 DEF KeyBlocks
  <2>4. o \notin C
    BY <1>2, <2>1, <2>2 DEF KeyOf
  <2> QED
    BY <2>3, <2>4
<1>4. ASSUME NEW o \in A, o \notin C PROVE o \in B
  <2>1. PICK i \in 1 .. Len(ents) : ents[i].len > 8 /\ o = KeyBlock(mp, ents[i])
    BY <1>4 DEF KeyBlocks
  <2>2. i # n
    BY <1>4, <2>1 DEF KeyOf
  <2>3. PICK j \in 1 .. Len(left) : left[j] = ents[i]
    <3>1. CASE i < n
      <4>1. i \in 1 .. Len(left) /\ left[i] = ents[i]
        BY <1>1, <3>1
      <4> QED
        BY <4>1
    <3>2. CASE ~(i < n)
      <4> DEFINE m == i - 1
      <4>1. m \in 1 .. Len(left) /\ ~(m < n) /\ m + 1 = i
        BY <1>1, <2>2, <3>2
      <4>2. left[m] = ents[m + 1]
        BY <1>1, <4>1
      <4> QED
        BY <4>1, <4>2
    <3> QED
      BY <3>1, <3>2
  <2> QED
    BY <2>1, <2>3 DEF KeyBlocks
<1>5. C \subseteq A
  BY <1>1 DEF KeyOf, KeyBlocks
<1> HIDE DEF A, B, C
<1>6. B = A \ C
  BY <1>3, <1>4
<1> QED
  BY <1>5, <1>6 DEF A, B, C

\* The copy of an entry's key goes back, if it has one.
LEMMA ReleaseKey ==
  ASSUME NEW mp, NEW e, NEW h, NEW O, Holding(h, O), KeyOf(mp, e) \subseteq O,
         NEW g, g = map_release_key(mp, h, e)
  PROVE  Holding(g, O \ KeyOf(mp, e)) /\ Kept(g, h, O \ KeyOf(mp, e))
<1>1. CASE e.len > 8
  <2> DEFINE o == KeyBlock(mp, e)
  <2>1. KeyOf(mp, e) = {o} /\ o \in O /\ o.by = mp.by /\ o.p = e.key
    BY <1>1, OwnerIs DEF KeyOf, KeyBlock
  <2> HIDE DEF o
  <2>2. g = allocator_free(o.by, h, o.p)
    BY <1>1, <2>1 DEF map_release_key
  <2>3. Holding(g, O \ {o}) /\ Kept(g, h, O \ {o})
    BY <2>1, <2>2, FreeKeeps
  <2> QED
    BY <2>1, <2>3
<1>2. CASE ~(e.len > 8)
  <2>1. KeyOf(mp, e) = {} /\ g = h
    BY <1>2 DEF KeyOf, map_release_key
  <2> QED
    BY <2>1 DEF Kept
<1> QED
  BY <1>1, <1>2

BothPut(h, p, q, x, y) == [h EXCEPT !.data[p] = x, !.data[q] = y]

\* Writing the entries and the index is two writes to two blocks.
LEMMA BothPutIs ==
  ASSUME NEW h, IsHeap(h), NEW p \in DOMAIN h.data, NEW q \in DOMAIN h.data, p # q, NEW x, NEW y
  PROVE  BothPut(h, p, q, x, y) = Written(Written(h, p, x), q, y)
BY DEF BothPut, Written

\* A map with an entry has an index.
LEMMA QuarterOfNone ==
  \A n, c \in Nat : n # 0 /\ n <= (c * 3) \div 4 => c # 0
OBVIOUS

\* The map after a removal is that of the other entries.
LEMMA FewerHeld ==
  ASSUME NEW mp, NEW h, NEW st, NEW V, MapOk(mp, h, st, V), NEW n \in 1 .. mp.len,
         NEW left, Removed(left, Entries(h, mp), n, Entry(V)),
         NEW less, Removed(less, st, n, [key : Keys, value : V]),
         NEW np \in MapHeader, np.len + 1 = mp.len, np.cap = mp.cap, np.icap = mp.icap,
         np.entries = mp.entries, np.index = mp.index,
         NEW g, Entries(g, np) = left, Filed(Index(g, np), left, Len(left), np),
         \A i \in 1 .. Len(left) : left[i].len > 8 => g.data[left[i].key] = h.data[left[i].key]
  PROVE  MapOk(np, g, less, V)
<1>1. /\ mp.len \in Nat /\ mp.icap \in Nat /\ np.len \in Nat /\ np.len + 1 = mp.len /\ n \in Nat
      /\ mp.len <= mp.cap /\ (mp.entries = 0 <=> mp.cap = 0) /\ (mp.index = 0 <=> mp.icap = 0)
      /\ mp.len <= (mp.icap * 3) \div 4 /\ mp.cap \in Nat
      /\ Len(Entries(h, mp)) = mp.len /\ Len(st) = mp.len
  BY MapFacts DEF MapOk, MapHeader
<1>2. /\ Len(left) = np.len /\ Len(less) = np.len
      /\ left \in Seq(Entry(V)) /\ less \in Seq([key : Keys, value : V])
  BY <1>1 DEF Removed
<1>3. np.len <= np.cap /\ np.len <= (np.icap * 3) \div 4
  <2>1. (mp.icap * 3) \div 4 \in Nat
    BY <1>1, DivIs
  <2> DEFINE c == (mp.icap * 3) \div 4
  <2>2. c \in Nat /\ mp.len <= c
    BY <1>1, <2>1
  <2> HIDE DEF c
  <2>3. np.len <= c /\ np.len <= np.cap
    BY <1>1, <2>2
  <2> QED
    BY <2>3 DEF c
<1> DEFINE at(i) == IF i < n THEN i ELSE i + 1
<1>4. \A i \in 1 .. np.len : /\ at(i) \in 1 .. mp.len
                             /\ left[i] = Entries(h, mp)[at(i)] /\ less[i] = st[at(i)]
  <2>1. \A i \in 1 .. np.len : at(i) \in 1 .. mp.len
    BY <1>1
  <2>2. \A i \in 1 .. np.len : left[i] = Entries(h, mp)[at(i)]
    BY <1>2 DEF Removed
  <2>3. \A i \in 1 .. np.len : less[i] = st[at(i)]
    BY <1>2 DEF Removed
  <2> QED
    BY <2>1, <2>2, <2>3
<1>5. \A i, j \in 1 .. np.len : at(i) = at(j) => i = j
  BY <1>1
<1> HIDE DEF at
<1>6. \A i \in 1 .. np.len : Bears(g, left[i], less[i].key) /\ left[i].value = less[i].value
  <2> TAKE i \in 1 .. np.len
  <2> DEFINE m == at(i)
             e == left[i]
             k == less[i].key
  <2>1. m \in 1 .. mp.len /\ e = Entries(h, mp)[m] /\ k = st[m].key /\ less[i].value = st[m].value
    BY <1>4
  <2>2. Bears(h, Entries(h, mp)[m], st[m].key) /\ Entries(h, mp)[m].value = st[m].value
        /\ st[m].key \in Keys
    <3> HIDE DEF m, e, k
    <3> QED
      BY <2>1, MapFacts DEF MapOk
  <2>3. Bears(h, e, k) /\ k \in Keys /\ e.value = less[i].value
    BY <2>1, <2>2
  <2>4. e.len > 8 => g.data[e.key] = h.data[e.key]
    BY <1>2
  <2> HIDE DEF m, e, k
  <2>5. Bears(g, e, k)
    BY <2>3, <2>4, BearsSame
  <2> QED
    BY <2>3, <2>5 DEF e, k
<1>7. \A i, j \in 1 .. np.len : less[i].key = less[j].key => i = j
  <2> TAKE i \in 1 .. np.len, j \in 1 .. np.len
  <2> HAVE less[i].key = less[j].key
  <2>1. at(i) = at(j)
    BY SMTT(30), <1>4 DEF MapOk
  <2> QED
    BY <1>5, <2>1
<1> QED
  BY <1>1, <1>2, <1>3, <1>6, <1>7 DEF MapOk

\* A removal that found its entry.
THEOREM RemoveHeld ==
  ASSUME NEW mp, NEW h, NEW st, NEW V, NEW R, MapHeld(mp, h, st, V, R), NEW n \in 1 .. mp.len,
         NEW r, r = map_remove(mp, h, n)
  PROVE  /\ MapHeld(r.mp, r.h, RemoveAt(st, n), V, R) /\ Kept(r.h, h, R)
         /\ r.mp.live = mp.live /\ r.mp.words = mp.words
<1> DEFINE ents == Entries(h, mp)
           e == ents[n]
           left == RemoveAt(ents, n)
           less == RemoveAt(st, n)
           p == mp.entries
           q == mp.index
           idx == map_place(left, mp)
           f == map_release_key(mp, h, e)
           w == Written(f, p, left)
           g == Written(w, q, idx)
           m == mp.len - 1
           np == [mp EXCEPT !.len = m]
           B == EntriesBlock(mp) \cup IndexBlock(mp)
           K == KeyBlocks(mp, ents)
           L == KeyBlocks(mp, left)
<1>1. /\ MapOk(mp, h, st, V) /\ mp \in MapHeader /\ mp.len \in Nat /\ mp.icap \in Nat
      /\ ents \in Seq(Entry(V)) /\ Len(ents) = mp.len
      /\ st \in Seq([key : Keys, value : V]) /\ Len(st) = mp.len
      /\ (mp.entries = 0 <=> mp.cap = 0) /\ (mp.index = 0 <=> mp.icap = 0)
      /\ n \in Nat /\ mp.len # 0 /\ mp.len <= mp.cap /\ mp.cap \in Nat
  BY MapFacts DEF MapHeld, MapOk
<1>2. mp.icap # 0 /\ mp.len < mp.icap
  <2>1. mp.len <= (mp.icap * 3) \div 4
    BY DEF MapHeld, MapOk
  <2>2. mp.icap # 0
    BY <1>1, <2>1, QuarterOfNone
  <2> QED
    BY <1>1, <2>2, MapFacts
<1>3. p # 0 /\ q # 0
  BY <1>1, <1>2
<1>4. Parts(mp, R, K) /\ Holding(h, R \cup (B \cup K)) /\ \A o \in R : o \notin B \cup K
  <2>1. Parts(mp, R, K) /\ Holding(h, R \cup (B \cup K))
    BY PartsOf
  <2> QED
    BY <2>1 DEF MapHeld, MapBlocks
<1>r. r = [mp |-> [mp EXCEPT !.len = @ - 1],
           h |-> BothPut(map_release_key(mp, h, Entries(h, mp)[n]), mp.entries, mp.index,
                         RemoveAt(Entries(h, mp), n), map_place(RemoveAt(Entries(h, mp), n), mp))]
  BY DEF map_remove, BothPut
<1>n. r.mp = np /\ r.h = BothPut(f, p, q, left, idx)
  BY <1>r
<1> DEFINE E == [key : Keys, value : V]
<1>5. Removed(left, ents, n, Entry(V)) /\ Removed(less, st, n, E)
  <2>1. left = RemoveAt(ents, n) /\ less = RemoveAt(st, n) /\ st \in Seq(E)
    BY <1>1
  <2> HIDE DEF ents, E, left, less
  <2> QED
    BY <1>1, <2>1, RemovedIs
<1>o. less = RemoveAt(st, n) /\ ents = Entries(h, mp) /\ e = ents[n]
  OBVIOUS
<1> HIDE DEF ents, e, left, less, idx, E
<1>6. L = K \ KeyOf(mp, e) /\ KeyOf(mp, e) \subseteq K
  BY <1>1, <1>5, KeyBlocksLess DEF ents, e
<1>7. Holding(f, R \cup (B \cup L)) /\ Kept(f, h, R) /\ Kept(f, h, L)
  <2> DEFINE O == R \cup (B \cup K)
  <2>1. Holding(h, O) /\ KeyOf(mp, e) \subseteq O
    BY <1>4, <1>6
  <2>2. O \ KeyOf(mp, e) = R \cup (B \cup L)
    <3>1. \A o \in B : o.role # "key"
      BY Roles
    <3>2. \A o \in KeyOf(mp, e) : o.role = "key"
      BY <1>6, Roles
    <3> HIDE DEF B, K, L
    <3> QED
      BY <1>4, <1>6, <3>1, <3>2
  <2> HIDE DEF O, f
  <2>3. f = map_release_key(mp, h, e)
    BY DEF f
  <2>4. Holding(f, O \ KeyOf(mp, e)) /\ Kept(f, h, O \ KeyOf(mp, e))
    BY <2>1, <2>3, ReleaseKey
  <2> QED
    BY <2>2, <2>4 DEF Kept
<1> HIDE DEF f, K, L
<1>8. Parts(mp, R, L)
  BY <1>4, <1>6 DEF Parts
<1>9. EntriesWritten(w, f, mp, R, L, left)
  BY <1>3, <1>7, <1>8, WriteEntries
<1>10. IndexWritten(g, w, mp, R, L, idx)
  <2>1. Holding(w, R \cup ((EntriesBlock(mp) \cup IndexBlock(mp)) \cup L))
    BY <1>9 DEF EntriesWritten
  <2> HIDE DEF w
  <2> QED
    BY <1>3, <1>8, <2>1, WriteIndex
<1>11. r.h = g
  <2>1. p \in DOMAIN f.data
    BY <1>9 DEF EntriesWritten
  <2>2. Owner("index", mp.by, q, mp.icap * 5) \in R \cup (B \cup L)
        /\ Owner("entries", mp.by, p, mp.cap * mapEntrySize) \in R \cup (B \cup L)
    BY <1>3 DEF B, IndexBlock, EntriesBlock, Block
  <2>3. Owner("index", mp.by, q, mp.icap * 5) # Owner("entries", mp.by, p, mp.cap * mapEntrySize)
    BY DEF Owner
  <2>4. q \in DOMAIN f.data /\ p # q /\ IsHeap(f)
    BY <1>7, <2>2, <2>3, OwnersAt, OwnerIs
  <2> DEFINE a == p
             b == q
  <2>5. a \in DOMAIN f.data /\ b \in DOMAIN f.data /\ a # b
    BY <2>1, <2>4
  <2>6. g = Written(Written(f, a, left), b, idx) /\ r.h = BothPut(f, a, b, left, idx)
    BY <1>n
  <2> HIDE DEF a, b, g
  <2>7. BothPut(f, a, b, left, idx) = Written(Written(f, a, left), b, idx)
    BY <2>4, <2>5, BothPutIs
  <2> QED
    BY <2>6, <2>7
<1> HIDE DEF g, w
<1>12. /\ Holding(g, R \cup (B \cup L)) /\ Kept(g, h, R) /\ Kept(g, h, L) /\ Index(g, mp) = idx
  <2>1. Kept(w, h, R) /\ Kept(w, h, L)
    BY <1>7, <1>9, KeptAgain DEF EntriesWritten
  <2>2. Kept(g, h, R) /\ Kept(g, h, L)
    BY <1>10, <2>1, KeptAgain DEF IndexWritten
  <2> QED
    BY <1>10, <2>2 DEF IndexWritten
<1>13. Entries(g, mp) = left
  BY <1>9, <1>10, KeptEntries DEF EntriesWritten, IndexWritten
<1>14. /\ np.index = mp.index /\ np.icap = mp.icap /\ np.entries = mp.entries /\ np.len = m
       /\ np.cap = mp.cap /\ np.by = mp.by /\ np.live = mp.live /\ np.words = mp.words
       /\ np \in MapHeader /\ m \in Nat /\ m + 1 = mp.len
  <2>1. m \in Nat /\ m + 1 = mp.len
    BY <1>1
  <2> HIDE DEF m
  <2> QED
    BY <1>1, <2>1 DEF MapHeader
<1> HIDE DEF np, m
<1>15. Entries(g, np) = left /\ Index(g, np) = idx
  BY <1>12, <1>13, <1>14 DEF Entries, Index
<1>16. Filed(Index(g, np), left, Len(left), np)
  <2>1. Len(left) \in Nat /\ Len(left) <= mp.icap
    BY <1>1, <1>2, <1>5 DEF Removed
  <2>2. HashesOk(left)
    <3>1. HashesOk(ents)
      BY <1>1, HashesAre DEF ents
    <3>2. \A i \in 1 .. Len(left) : \E j \in 1 .. Len(ents) : left[i] = ents[j]
      <4> TAKE i \in 1 .. Len(left)
      <4> DEFINE j == IF i < n THEN i ELSE i + 1
      <4>1. left[i] = ents[j]
        BY <1>5 DEF Removed
      <4>2. j \in 1 .. Len(ents)
        BY <1>1, <1>5, <2>1 DEF Removed
      <4> QED
        BY <4>1, <4>2
    <3> QED
      BY <3>1, <3>2 DEF HashesOk
  <2>3. Filed(map_place(left, mp), left, Len(left), mp)
    BY <1>1, <2>1, <2>2, PlaceFiles
  <2> QED
    BY <1>14, <1>15, <2>3, FiledSame DEF idx
<1>17. \A i \in 1 .. Len(left) : left[i].len > 8 => g.data[left[i].key] = h.data[left[i].key]
  BY <1>12, KeptKeys DEF L
<1>18. MapOk(np, g, less, V)
  BY <1>1, <1>5, <1>14, <1>15, <1>16, <1>17, FewerHeld DEF ents, E
<1>19. MapBlocks(np, g) = B \cup L
  <2>1. EntriesBlock(np) = EntriesBlock(mp) /\ IndexBlock(np) = IndexBlock(mp)
    BY <1>14 DEF EntriesBlock, IndexBlock
  <2>2. KeyBlocks(np, left) = KeyBlocks(mp, left)
    BY <1>14 DEF KeyBlocks, KeyBlock
  <2> QED
    BY <1>15, <2>1, <2>2 DEF MapBlocks, B, L
<1>20. MapHeld(np, g, less, V, R)
  BY <1>4, <1>6, <1>12, <1>18, <1>19 DEF MapHeld
<1> QED
  BY <1>n, <1>11, <1>12, <1>14, <1>20, <1>o

-----------------------------------------------------------------------------
(* A map is given up                                                       *)

\* A header's block is given back, if it has one.
LEMMA BlockFreed ==
  ASSUME NEW role, NEW by \in Allocators, NEW p, NEW size, NEW Q, NEW h,
         Holding(h, Q \cup Block(role, by, p, size)), \A o \in Q : o \notin Block(role, by, p, size),
         NEW g, g = allocator_free(by, h, p)
  PROVE  Holding(g, Q) /\ Kept(g, h, Q)
<1>1. CASE p = 0
  <2>1. IsHeap(h)
    BY OwnersAt
  <2>2. g = h
    BY <1>1, <2>1, FreeNothing DEF Allocators
  <2>3. Q \cup Block(role, by, p, size) = Q
    BY <1>1 DEF Block
  <2> QED
    BY <2>2, <2>3 DEF Kept
<1>2. CASE p # 0
  <2> DEFINE o == Owner(role, by, p, size)
             O == Q \cup Block(role, by, p, size)
  <2>1. Block(role, by, p, size) = {o}
    BY <1>2 DEF Block
  <2>2. o.by = by /\ o.p = p
    BY OwnerIs
  <2> HIDE DEF o
  <2>3. o \in O /\ O \ {o} = Q /\ g = allocator_free(o.by, h, o.p)
    BY <2>1, <2>2
  <2> HIDE DEF O
  <2>4. Holding(h, O)
    BY DEF O
  <2>5. Holding(g, O \ {o}) /\ Kept(g, h, O \ {o})
    BY <2>3, <2>4, FreeKeeps
  <2> QED
    BY <2>3, <2>5
<1> QED
  BY <1>1, <1>2

\* Giving back the key copies one after another is what the recursion says.
LEMMA ReleasedIs ==
  ASSUME NEW mp, NEW h, NEW N \in Nat, N = Len(Entries(h, mp))
  PROVE  \A n \in 0 .. N :
           map_released(mp, h)[n] =
             IF n = 0 THEN h
             ELSE map_release_key(mp, map_released(mp, h)[n - 1], Entries(h, mp)[n])
<1> DEFINE Step(f, n) == map_release_key(mp, f, Entries(h, mp)[n])
           P(m) == \E g : g = [n \in 0 .. m |-> IF n = 0 THEN h ELSE Step(g[n - 1], n)]
           T == {m \in Nat : ~P(m)}
<1> HIDE DEF Step
<1>1. T = {}
  <2> SUFFICES ASSUME T # {} PROVE FALSE
    OBVIOUS
  <2>1. T \subseteq Nat
    OBVIOUS
  <2>2. PICK m \in T : \A y \in T : m <= y
    <3> HIDE DEF T
    <3> QED
      BY <2>1, Least
  <2>3. CASE m = 0
    <3> DEFINE g == [n \in 0 .. 0 |-> h]
    <3>1. g = [n \in 0 .. 0 |-> IF n = 0 THEN h ELSE Step(g[n - 1], n)]
      OBVIOUS
    <3> HIDE DEF g
    <3> QED
      BY <2>2, <2>3, <3>1
  <2>4. CASE m # 0
    <3>1. m \in Nat /\ m - 1 \in Nat /\ ~(m <= m - 1)
      BY <2>4
    <3>2. P(m - 1)
      BY <2>2, <3>1
    <3> HIDE DEF T
    <3>3. PICK g : g = [n \in 0 .. m - 1 |-> IF n = 0 THEN h ELSE Step(g[n - 1], n)]
      BY <3>2
    <3> DEFINE new == [n \in 0 .. m |-> IF n = m THEN Step(g[m - 1], m) ELSE g[n]]
    <3>4. ASSUME NEW n \in 0 .. m
          PROVE  new[n] = IF n = 0 THEN h ELSE Step(new[n - 1], n)
      <4>1. CASE n = m
        <5>1. m - 1 \in 0 .. m /\ m - 1 # m /\ n # 0
          BY <2>4, <3>1, <4>1
        <5> QED
          BY <4>1, <5>1
      <4>2. CASE n # m
        <5>1. n \in 0 .. m - 1
          BY <3>1, <4>2
        <5>2. new[n] = g[n] /\ g[n] = IF n = 0 THEN h ELSE Step(g[n - 1], n)
          BY <3>3, <4>2, <5>1
        <5>3. n # 0 => n - 1 \in 0 .. m /\ n - 1 # m /\ new[n - 1] = g[n - 1]
          BY <3>1, <5>1
        <5> QED
          BY <5>2, <5>3
      <4> QED
        BY <4>1, <4>2
    <3>5. new = [n \in 0 .. m |-> IF n = 0 THEN h ELSE Step(new[n - 1], n)]
      <4>1. new = [n \in 0 .. m |-> new[n]]
        OBVIOUS
      <4> HIDE DEF new
      <4> QED
        BY <3>4, <4>1
    <3> HIDE DEF new
    <3>6. P(m)
      BY <3>5
    <3> QED
      BY <2>2, <3>6 DEF T
  <2> QED
    BY <2>3, <2>4
<1>2. P(N)
  BY <1>1
<1> DEFINE f == map_released(mp, h)
<1>3. f = [n \in 0 .. N |-> IF n = 0 THEN h ELSE Step(f[n - 1], n)]
  BY <1>2 DEF map_released, Step
<1> HIDE DEF f
<1>4. \A n \in 0 .. N : f[n] = IF n = 0 THEN h ELSE Step(f[n - 1], n)
  BY <1>3
<1> QED
  BY <1>4 DEF f, Step

\* The key copies of the entries behind the first n.
KeysBehind(mp, ents, n) ==
  {KeyBlock(mp, ents[i]) : i \in {j \in n + 1 .. Len(ents) : ents[j].len > 8}}

\* Each step of map_released leaves one key copy fewer.
LEMMA KeysBehindLess ==
  ASSUME NEW mp, NEW h, NEW st, NEW V, MapOk(mp, h, st, V), NEW n \in 1 .. mp.len,
         NEW ents, ents = Entries(h, mp), NEW m, m + 1 = n, m \in Nat
  PROVE  /\ KeysBehind(mp, ents, n) = KeysBehind(mp, ents, m) \ KeyOf(mp, ents[n])
         /\ KeyOf(mp, ents[n]) \subseteq KeysBehind(mp, ents, m)
<1> DEFINE A == KeysBehind(mp, ents, m)
           B == KeysBehind(mp, ents, n)
           C == KeyOf(mp, ents[n])
           N == Len(ents)
<1>1. N = mp.len /\ N \in Nat /\ n \in 1 .. N /\ m \in Nat /\ m + 1 = n
  BY MapFacts DEF MapOk
<1>2. ASSUME NEW i \in 1 .. N, ents[i].len > 8, ents[n].len > 8,
             KeyBlock(mp, ents[i]) = KeyBlock(mp, ents[n])
      PROVE  i = n
  <2>1. ents[i].key = ents[n].key
    BY <1>2, OwnerIs DEF KeyBlock
  <2> QED
    BY <1>1, <1>2, <2>1, KeysApart
<1>3. \A i : i \in m + 1 .. N <=> i = n \/ i \in n + 1 .. N
  BY <1>1
<1>4. \A i \in n + 1 .. N : i \in 1 .. N /\ i # n
  BY <1>1
<1>5. \A o : o \in A <=> \E i \in m + 1 .. N : ents[i].len > 8 /\ o = KeyBlock(mp, ents[i])
  BY DEF KeysBehind
<1>6. \A o : o \in B <=> \E i \in n + 1 .. N : ents[i].len > 8 /\ o = KeyBlock(mp, ents[i])
  BY DEF KeysBehind
<1>7. \A o : o \in C <=> ents[n].len > 8 /\ o = KeyBlock(mp, ents[n])
  BY DEF KeyOf
<1> HIDE DEF A, B, C, N
<1>8. ASSUME NEW o \in B PROVE o \in A \ C
  BY <1>2, <1>3, <1>4, <1>5, <1>6, <1>7
<1>9. ASSUME NEW o \in A, o \notin C PROVE o \in B
  BY <1>3, <1>5, <1>6, <1>7, <1>9
<1>10. C \subseteq A
  BY <1>3, <1>5, <1>7
<1>11. B = A \ C
  BY <1>8, <1>9
<1> QED
  BY <1>10, <1>11 DEF A, B, C

\* After the key copies of the first n entries went back.
KeysGone(f, h, mp, R, Q) == Holding(f, R \cup Q) /\ Kept(f, h, R \cup Q)

\* map_released gives back the key copies of the entries it has passed.
LEMMA KeysGoBack ==
  ASSUME NEW mp, NEW h, NEW st, NEW V, NEW R, MapHeld(mp, h, st, V, R),
         NEW B, B = EntriesBlock(mp) \cup IndexBlock(mp)
  PROVE  \A n \in 0 .. mp.len :
           KeysGone(map_released(mp, h)[n], h, mp, R, B \cup KeysBehind(mp, Entries(h, mp), n))
<1> DEFINE f == map_released(mp, h)
           ents == Entries(h, mp)
           U(n) == B \cup KeysBehind(mp, ents, n)
           T == {n \in 0 .. mp.len : ~KeysGone(f[n], h, mp, R, U(n))}
<1>1. MapOk(mp, h, st, V) /\ Len(ents) = mp.len /\ mp.len \in Nat
      /\ \A o \in R : o \notin B \cup KeyBlocks(mp, ents)
  BY MapFacts DEF MapHeld, MapOk, MapBlocks
<1>2. \A n \in 0 .. mp.len : f[n] = IF n = 0 THEN h ELSE map_release_key(mp, f[n - 1], ents[n])
  BY <1>1, ReleasedIs
<1> HIDE DEF f
<1>3. T = {}
  <2> SUFFICES ASSUME T # {} PROVE FALSE
    OBVIOUS
  <2>1. T \subseteq Nat
    BY <1>1
  <2>2. PICK n \in T : \A y \in T : n <= y
    <3> HIDE DEF T
    <3> QED
      BY <2>1, Least
  <2>3. n \in 0 .. mp.len /\ ~KeysGone(f[n], h, mp, R, U(n))
    OBVIOUS
  <2>4. CASE n = 0
    <3>1. KeysBehind(mp, ents, 0) = KeyBlocks(mp, ents)
      BY DEF KeysBehind, KeyBlocks
    <3>2. f[n] = h
      BY <1>2, <2>3, <2>4
    <3>3. Holding(h, R \cup (B \cup KeyBlocks(mp, ents)))
      BY PartsOf
    <3> QED
      BY <2>3, <2>4, <3>1, <3>2, <3>3 DEF KeysGone, Kept
  <2>5. CASE n # 0
    <3> DEFINE m == n - 1
    <3>1. m \in 0 .. mp.len /\ ~(n <= m) /\ n \in 1 .. mp.len /\ m + 1 = n /\ m \in Nat
      BY <1>1, <2>3, <2>5
    <3>2. KeysGone(f[m], h, mp, R, U(m))
      BY <2>2, <3>1
    <3>3. f[n] = map_release_key(mp, f[m], ents[n])
      BY <1>2, <2>3, <2>5
    <3> HIDE DEF T, m
    <3> DEFINE e == ents[n]
               O == R \cup U(m)
               A == KeysBehind(mp, ents, m)
               C == KeyOf(mp, e)
    <3>4. KeysBehind(mp, ents, n) = A \ C /\ C \subseteq A
      <4> HIDE DEF ents, A, C, e
      <4>1. ents = Entries(h, mp)
        BY DEF ents
      <4> QED
        BY <1>1, <3>1, <4>1, KeysBehindLess DEF A, C, e
    <3>5. A \subseteq KeyBlocks(mp, ents)
      BY <3>1 DEF KeysBehind, KeyBlocks
    <3>6. C \subseteq O /\ O \ C = R \cup U(n)
      <4>1. \A o \in B : o.role # "key"
        BY Roles
      <4>2. \A o \in C : o.role = "key" /\ o \in KeyBlocks(mp, ents)
        BY <3>4, <3>5, Roles
      <4> HIDE DEF A, C, ents, e
      <4>3. R \cup U(n) = R \cup (B \cup (A \ C)) /\ O = R \cup (B \cup A)
        BY <3>4 DEF A
      <4> HIDE DEF U, O
      <4> QED
        BY <1>1, <3>4, <4>1, <4>2, <4>3
    <3> DEFINE a == f[m]
               b == f[n]
    <3>7. Holding(a, O) /\ Kept(a, h, O) /\ b = map_release_key(mp, a, e)
      BY <3>2, <3>3 DEF KeysGone
    <3>8. Holding(b, O \ C) /\ Kept(b, a, O \ C)
      <4> HIDE DEF a, b, e, O
      <4> QED
        BY <3>6, <3>7, ReleaseKey
    <3>9. Kept(b, h, O \ C)
      BY <3>7, <3>8 DEF Kept
    <3> QED
      BY <2>3, <3>6, <3>8, <3>9 DEF KeysGone
  <2> QED
    BY <2>4, <2>5
<1> QED
  BY <1>3 DEF f

\* A map given up leaves nothing behind.
LEMMA DeinitHeld ==
  ASSUME NEW mp, NEW h, NEW st, NEW V, NEW R, MapHeld(mp, h, st, V, R),
         NEW g, g = map_deinit(mp, h)
  PROVE  Holding(g, R) /\ Kept(g, h, R)
<1> DEFINE ents == Entries(h, mp)
           n == mp.len
           B == EntriesBlock(mp) \cup IndexBlock(mp)
           f == map_released(mp, h)[n]
           w == allocator_free(mp.by, f, mp.entries)
           Q == R \cup IndexBlock(mp)
<1>1. n \in Nat /\ Len(ents) = n /\ mp.by \in Allocators /\ \A o \in R : o \notin B
  BY MapFacts DEF MapHeld, MapOk, MapBlocks, Allocators
<1>2. KeysGone(f, h, mp, R, B \cup KeysBehind(mp, ents, n))
  <2>1. B = EntriesBlock(mp) \cup IndexBlock(mp)
    OBVIOUS
  <2> HIDE DEF B
  <2>2. \A m \in 0 .. mp.len :
           KeysGone(map_released(mp, h)[m], h, mp, R, B \cup KeysBehind(mp, Entries(h, mp), m))
    BY <2>1, KeysGoBack
  <2>3. n \in 0 .. mp.len
    BY <1>1
  <2> QED
    BY <2>2, <2>3
<1>3. KeysBehind(mp, ents, n) = {}
  BY <1>1 DEF KeysBehind
<1>4. g = allocator_free(mp.by, w, mp.index)
  BY <1>1 DEF map_deinit
<1> HIDE DEF f, ents, n
<1>5. Holding(f, R \cup B) /\ Kept(f, h, R \cup B)
  BY <1>2, <1>3 DEF KeysGone
<1>6. \A o \in Q : o \notin EntriesBlock(mp)
  BY <1>1, Roles
<1>7. Holding(f, Q \cup EntriesBlock(mp))
  <2>1. Q \cup EntriesBlock(mp) = R \cup B
    OBVIOUS
  <2> QED
    BY <1>5, <2>1
<1> DEFINE s1 == mp.cap * mapEntrySize
           s2 == mp.icap * 5
<1>8. EntriesBlock(mp) = Block("entries", mp.by, mp.entries, s1)
      /\ IndexBlock(mp) = Block("index", mp.by, mp.index, s2)
  BY DEF EntriesBlock, IndexBlock
<1> HIDE DEF s1, s2, w
<1>9. Holding(w, Q) /\ Kept(w, f, Q)
  <2>1. Holding(f, Q \cup Block("entries", mp.by, mp.entries, s1))
        /\ \A o \in Q : o \notin Block("entries", mp.by, mp.entries, s1)
    BY <1>6, <1>7, <1>8
  <2>2. w = allocator_free(mp.by, f, mp.entries)
    BY DEF w
  <2> HIDE DEF Q
  <2> QED
    BY <1>1, <2>1, <2>2, BlockFreed
<1>10. Holding(g, R) /\ Kept(g, w, R)
  <2>1. Holding(w, R \cup Block("index", mp.by, mp.index, s2))
        /\ \A o \in R : o \notin Block("index", mp.by, mp.index, s2)
    BY <1>1, <1>8, <1>9
  <2> QED
    BY <1>1, <1>4, <2>1, BlockFreed
<1> QED
  BY <1>5, <1>9, <1>10 DEF Kept

\* The keys are listed in the order in which they were put in.
LEMMA KeyAtIs ==
  ASSUME NEW mp, NEW h, NEW st, NEW V, MapOk(mp, h, st, V), NEW i \in 1 .. mp.len
  PROVE  map_key_at(h, mp, i) = st[i].key
<1> DEFINE e == Entries(h, mp)[i]
           k == st[i].key
<1>1. Bears(h, e, k) /\ k \in Keys
  BY MapFacts DEF MapOk
<1> HIDE DEF e, k
<1>2. (IF e.len <= 8 THEN e.key ELSE h.data[e.key][1]) = k
  BY <1>1, KeyFacts DEF Bears, ShortKey
<1> QED
  BY <1>2 DEF map_key_at, e, k

-----------------------------------------------------------------------------
(* Array storage                                                           *)

ArrayHeader == [live : BOOLEAN, by : Allocators, size : Nat, data : Nat, len : Nat, cap : Nat]
ArenaHeader == [live : BOOLEAN, by : Allocators, size : Nat, data : Nat, len : Nat, cap : Nat,
                origin : Nat]
Headers == ArrayHeader \cup ArenaHeader

\* The storage of the header arr holds the elements s, which are in V.
SeqOk(arr, h, s, V) ==
  /\ arr \in Headers
  /\ s \in Seq(V) /\ Len(s) = arr.len /\ arr.len <= arr.cap
  /\ arr.size = 0 => arr.data = 0
  /\ arr.size # 0 => (arr.data = 0 <=> arr.cap = 0)
  /\ arr.data # 0 => h.data[arr.data] = s

ArrayBlock(role, arr) == Block(role, arr.by, arr.data, arr.cap * arr.size)

\* Storage that is as it should be, beside the blocks R of others.
ArrayHeld(role, arr, h, s, V, R) ==
  /\ SeqOk(arr, h, s, V)
  /\ Holding(h, R \cup ArrayBlock(role, arr))
  /\ \A o \in R : o.role # role

\* The words of a header.
LEMMA HeaderFacts ==
  ASSUME NEW arr \in Headers
  PROVE  /\ arr.live \in BOOLEAN /\ arr.by \in {"page", "fixed", "user"} /\ arr.size \in Nat
         /\ arr.data \in Nat /\ arr.len \in Nat /\ arr.cap \in Nat
BY DEF Headers, ArrayHeader, ArenaHeader, Allocators

\* The same header but for its address, its length and its capacity.
SameKind(new, arr) ==
  /\ new \in Headers /\ new.live = arr.live /\ new.by = arr.by /\ new.size = arr.size
  /\ arr \in ArrayHeader => new \in ArrayHeader
  /\ arr \in ArenaHeader => new \in ArenaHeader /\ new.origin = arr.origin

MovedHeader(arr, p, next) == [arr EXCEPT !.data = p, !.cap = next]
WiderHeader(arr, next) == [arr EXCEPT !.cap = next]
LongerHeader(arr, n) == [arr EXCEPT !.len = n]

\* What an edited header keeps.
LEMMA HeaderEdits ==
  ASSUME NEW arr \in Headers, NEW p \in Nat, NEW n \in Nat
  PROVE  /\ SameKind(MovedHeader(arr, p, n), arr) /\ SameKind(WiderHeader(arr, n), arr)
         /\ SameKind(LongerHeader(arr, n), arr)
         /\ MovedHeader(arr, p, n).data = p /\ MovedHeader(arr, p, n).cap = n
         /\ MovedHeader(arr, p, n).len = arr.len
         /\ WiderHeader(arr, n).data = arr.data /\ WiderHeader(arr, n).cap = n
         /\ WiderHeader(arr, n).len = arr.len
         /\ LongerHeader(arr, n).data = arr.data /\ LongerHeader(arr, n).cap = arr.cap
         /\ LongerHeader(arr, n).len = n
<1>1. CASE arr \in ArrayHeader
  BY <1>1 DEF MovedHeader, WiderHeader, LongerHeader, SameKind, Headers, ArrayHeader, ArenaHeader
<1>2. CASE arr \in ArenaHeader
  BY <1>2 DEF MovedHeader, WiderHeader, LongerHeader, SameKind, Headers, ArrayHeader, ArenaHeader
<1> QED
  BY <1>1, <1>2 DEF Headers

\* array_next_capacity answers enough.
LEMMA NextCapacity ==
  ASSUME NEW cap \in Nat, NEW needed \in Nat, needed > cap
  PROVE  /\ array_next_capacity(cap, needed) \in Nat
         /\ array_next_capacity(cap, needed) >= needed
<1> DEFINE half == cap + (cap \div 2)
           T == {needed, 4} \cup (IF cap > 2 THEN {half} ELSE {})
<1>1. half \in Nat
  OBVIOUS
<1> HIDE DEF half
<1>2. \E x \in T : \A y \in T : x >= y
  <2>1. CASE cap > 2
    <3>1. T = {needed, 4, half}
      BY <2>1
    <3>2. \E x \in {needed, 4, half} : \A y \in {needed, 4, half} : x >= y
      BY <1>1
    <3> QED
      BY <3>1, <3>2
  <2>2. CASE ~(cap > 2)
    <3>1. T = {needed, 4}
      BY <2>2
    <3>2. \E x \in {needed, 4} : \A y \in {needed, 4} : x >= y
      OBVIOUS
    <3> QED
      BY <3>1, <3>2
  <2> QED
    BY <2>1, <2>2
<1>3. Max(T) \in T /\ \A y \in T : Max(T) >= y
  <2> HIDE DEF T
  <2> QED
    BY <1>2 DEF Max
<1>4. T \subseteq Nat /\ needed \in T
  BY <1>1
<1>5. array_next_capacity(cap, needed) = Max(T)
  BY DEF array_next_capacity, half
<1> HIDE DEF T
<1> QED
  BY <1>3, <1>4, <1>5

\* A product divided by one of its factors.
LEMMA TimesOver ==
  \A n, u \in Nat : u > 0 => (n * u) \div u = n
OBVIOUS

\* More of a unit is no fewer bytes.
LEMMA TimesUp ==
  \A m, n, u \in Nat : m <= n => m * u <= n * u
OBVIOUS

\* Elements of some size take bytes.
LEMMA TimesPositive ==
  \A n, u \in Nat : n > 0 /\ u > 0 => n * u \in Nat /\ n * u > 0
OBVIOUS

\* A product of naturals is a natural.
LEMMA TimesNat ==
  \A n, u \in Nat : n * u \in Nat
OBVIOUS

\* There is room for what is needed, or the storage is as it was.
Roomy(r, role, arr, h, s, V, R, needed) ==
  /\ ArrayHeld(role, r.arr, r.h, s, V, R) /\ Kept(r.h, h, R)
  /\ SameKind(r.arr, arr) /\ r.arr.len = arr.len
  /\ r.ok \in BOOLEAN /\ (r.ok => needed <= r.arr.cap)

\* The storage went to the block p of size bytes, with what it held.
LEMMA StorageMoved ==
  ASSUME NEW role, NEW arr, NEW h, NEW s, NEW V, NEW R, ArrayHeld(role, arr, h, s, V, R),
         arr.size # 0, NEW next \in Nat, next > arr.cap, NEW size, size = next * arr.size,
         NEW p \in Nat, p # 0, NEW g, Kept(g, h, R), g.data[p] = s,
         Holding(g, R \cup {Owner(role, arr.by, p, size)}),
         NEW new, new = MovedHeader(arr, p, next)
  PROVE  ArrayHeld(role, new, g, s, V, R) /\ SameKind(new, arr) /\ new.len = arr.len /\ new.cap = next
<1>1. /\ arr \in Headers /\ s \in Seq(V) /\ Len(s) = arr.len /\ arr.len <= arr.cap
      /\ \A o \in R : o.role # role
  BY DEF ArrayHeld, SeqOk
<1>2. arr.len \in Nat /\ arr.cap \in Nat
  BY <1>1, HeaderFacts
<1>3. SameKind(new, arr) /\ new.data = p /\ new.cap = next /\ new.len = arr.len
  BY <1>1, HeaderEdits
<1>4. new \in Headers /\ new.size = arr.size /\ new.by = arr.by
  BY <1>3 DEF SameKind
<1>5. ArrayBlock(role, new) = {Owner(role, arr.by, p, size)}
  BY <1>3, <1>4 DEF ArrayBlock, Block
<1>6. SeqOk(new, g, s, V)
  BY <1>1, <1>2, <1>3, <1>4 DEF SeqOk
<1> QED
  BY <1>1, <1>3, <1>5, <1>6 DEF ArrayHeld

\* There was room, or it was refused: nothing changed.
LEMMA RoomyNothing ==
  ASSUME NEW role, NEW arr, NEW h, NEW s, NEW V, NEW R, ArrayHeld(role, arr, h, s, V, R),
         NEW needed, NEW r, r.arr = arr, r.h = h, r.ok \in BOOLEAN, r.ok => needed <= arr.cap
  PROVE  Roomy(r, role, arr, h, s, V, R, needed)
<1>1. SameKind(arr, arr)
  BY DEF SameKind, ArrayHeld, SeqOk
<1> QED
  BY <1>1 DEF Roomy, Kept

\* array_reserve makes room or refuses; the elements are the same.
LEMMA ReserveKeeps ==
  ASSUME NEW role, NEW arr, NEW h, NEW s, NEW V, NEW R, ArrayHeld(role, arr, h, s, V, R),
         NEW needed \in Nat, NEW grows \in BOOLEAN,
         NEW r, r = array_reserve(arr, h, needed, grows)
  PROVE  Roomy(r, role, arr, h, s, V, R, needed)
<1> DEFINE next == array_next_capacity(arr.cap, needed)
           old == arr.cap * arr.size
           size == next * arr.size
           moved == allocator_realloc(arr.by, h, arr.data, old, size, arr.size, grows)
           O == R \cup ArrayBlock(role, arr)
<1>1. /\ arr \in Headers /\ s \in Seq(V) /\ Len(s) = arr.len /\ arr.len <= arr.cap
      /\ (arr.size = 0 => arr.data = 0) /\ (arr.size # 0 => (arr.data = 0 <=> arr.cap = 0))
      /\ (arr.data # 0 => h.data[arr.data] = s) /\ Holding(h, O) /\ \A o \in R : o.role # role
  BY DEF ArrayHeld, SeqOk
<1>2. /\ arr.by \in {"page", "fixed", "user"} /\ arr.size \in Nat
      /\ arr.data \in Nat /\ arr.len \in Nat /\ arr.cap \in Nat
  BY <1>1, HeaderFacts
<1>3. \/ r = [arr |-> arr, h |-> h, ok |-> TRUE] /\ needed <= arr.cap
      \/ r = [arr |-> arr, h |-> h, ok |-> FALSE]
      \/ needed > arr.cap /\ arr.size = 0 /\ r = [arr |-> WiderHeader(arr, next), h |-> h, ok |-> TRUE]
      \/ needed > arr.cap /\ arr.size # 0 /\ r = array_grown(arr, h, moved, next)
  <2>1. needed <= arr.cap \/ needed > arr.cap
    BY <1>2
  <2>2. r = IF needed <= arr.cap THEN [arr |-> arr, h |-> h, ok |-> TRUE]
            ELSE IF arr.size = 0
                 THEN [arr |-> WiderHeader(arr, next), h |-> h, ok |-> TRUE]
            ELSE IF next * arr.size > MaxRequest THEN [arr |-> arr, h |-> h, ok |-> FALSE]
            ELSE array_grown(arr, h, moved, next)
    BY DEF array_reserve, WiderHeader
  <2> HIDE DEF next, moved
  <2> QED
    BY <2>1, <2>2
<1>4. ASSUME needed > arr.cap PROVE next \in Nat /\ next > arr.cap /\ next >= needed
  <2>1. next \in Nat /\ next >= needed
    BY <1>2, <1>4, NextCapacity
  <2> HIDE DEF next
  <2> QED
    BY <1>2, <1>4, <2>1
<1> HIDE DEF next
<1>5. CASE r = [arr |-> arr, h |-> h, ok |-> TRUE] /\ needed <= arr.cap
  BY <1>5, RoomyNothing
<1>6. CASE r = [arr |-> arr, h |-> h, ok |-> FALSE]
  BY <1>6, RoomyNothing
<1>7. CASE needed > arr.cap /\ arr.size = 0 /\ r = [arr |-> WiderHeader(arr, next), h |-> h, ok |-> TRUE]
  <2> DEFINE new == WiderHeader(arr, next)
  <2>1. SameKind(new, arr) /\ new.data = arr.data /\ new.cap = next /\ new.len = arr.len
    BY <1>1, <1>4, <1>7, HeaderEdits
  <2>2. r.arr = new /\ r.h = h /\ r.ok = TRUE
    BY <1>7
  <2> HIDE DEF new
  <2>3. new \in Headers /\ new.size = 0 /\ new.by = arr.by
    BY <1>7, <2>1 DEF SameKind
  <2>4. ArrayBlock(role, new) = ArrayBlock(role, arr)
    BY <1>1, <1>7, <2>1, <2>3 DEF ArrayBlock, Block
  <2>5. SeqOk(new, h, s, V)
    BY <1>1, <1>2, <1>4, <1>7, <2>1, <2>3 DEF SeqOk
  <2> QED
    BY <1>1, <1>4, <1>7, <2>1, <2>2, <2>4, <2>5 DEF Roomy, ArrayHeld, Kept
<1>8. CASE needed > arr.cap /\ arr.size # 0 /\ r = array_grown(arr, h, moved, next)
  <2>1. next \in Nat /\ next > arr.cap /\ next >= needed /\ next > 0 /\ arr.size > 0
    BY <1>2, <1>4, <1>8
  <2>2. size \in Nat /\ size > 0 /\ old \in Nat /\ size >= old
    <3> DEFINE a == arr.cap
               b == arr.size
    <3>1. a \in Nat /\ b \in Nat /\ b > 0 /\ next \in Nat /\ a <= next /\ next > 0
      BY <1>2, <2>1
    <3> HIDE DEF a, b
    <3>2. next * b \in Nat /\ next * b > 0 /\ a * b \in Nat /\ a * b <= next * b
      BY <3>1, TimesUp, TimesPositive, TimesNat
    <3> QED
      BY <3>2 DEF a, b
  <2>3. ASSUME moved.p = 0 PROVE Roomy(r, role, arr, h, s, V, R, needed)
    <3> HIDE DEF moved
    <3>1. r.arr = arr /\ r.h = h /\ r.ok = FALSE
      BY <1>8, <2>3 DEF array_grown
    <3> QED
      BY <3>1, RoomyNothing
  <2>4. ASSUME moved.p \in Nat, moved.p # 0, Kept(moved.h, h, R), moved.h.data[moved.p] = s,
               Holding(moved.h, R \cup {Owner(role, arr.by, moved.p, size)})
        PROVE  Roomy(r, role, arr, h, s, V, R, needed)
    <3> DEFINE new == MovedHeader(arr, moved.p, next)
               p == moved.p
               g == moved.h
    <3> HIDE DEF moved
    <3>1. r.arr = new /\ r.h = g /\ r.ok = TRUE
      BY <1>8, <2>4 DEF array_grown, MovedHeader
    <3>2. size = next * arr.size /\ new = MovedHeader(arr, p, next)
      OBVIOUS
    <3>3. p \in Nat /\ p # 0 /\ Kept(g, h, R) /\ g.data[p] = s
          /\ Holding(g, R \cup {Owner(role, arr.by, p, size)})
      BY <2>4
    <3> HIDE DEF p, g, new, size
    <3>4. ArrayHeld(role, new, g, s, V, R) /\ SameKind(new, arr) /\ new.len = arr.len /\ new.cap = next
      BY <1>8, <2>1, <3>2, <3>3, StorageMoved
    <3> QED
      BY <2>1, <3>1, <3>3, <3>4 DEF Roomy
  <2>5. CASE arr.data = 0
    <3>1. arr.cap = 0 /\ s = <<>>
      BY <1>1, <1>2, <1>8, <2>5
    <3>2. old = 0
      <4> DEFINE b == arr.size
      <4>1. b \in Nat /\ old = 0 * b
        BY <1>2, <3>1
      <4> HIDE DEF b, old
      <4> QED
        BY <4>1
    <3>3. O = R
      BY <2>5 DEF ArrayBlock, Block
    <3>4. moved = allocator_realloc(arr.by, h, 0, 0, size, arr.size, grows)
      BY <2>5, <3>2
    <3> HIDE DEF size, O, moved
    <3>5. Granted(moved, h, R, role, arr.by, size)
      BY <1>1, <1>2, <2>2, <3>3, <3>4, HeldFirst
    <3>6. ASSUME moved.p # 0 PROVE Got(moved, h, R, role, arr.by, size)
      BY <1>1, <3>3, <3>5, <3>6, AllocKeeps
    <3> QED
      BY <2>3, <2>4, <3>1, <3>6 DEF Got
  <2>6. CASE arr.data # 0
    <3> DEFINE o == Owner(role, arr.by, arr.data, old)
    <3>1. ArrayBlock(role, arr) = {o} /\ h.data[arr.data] = s
      BY <1>1, <2>6 DEF ArrayBlock, Block
    <3>2. o.role = role /\ o.by = arr.by /\ o.p = arr.data /\ o.size = old
      BY OwnerIs
    <3> HIDE DEF o
    <3>3. o \in O /\ O \ {o} = R
      BY <1>1, <3>1, <3>2
    <3>4. h.data[o.p] \in Seq(V) /\ Len(h.data[o.p]) <= o.size \div arr.size
      <4>1. old \div arr.size = arr.cap
        <5> DEFINE a == arr.cap
                   b == arr.size
        <5>1. a \in Nat /\ b \in Nat /\ b > 0 /\ old = a * b
          BY <1>2, <2>1
        <5> HIDE DEF a, b, old
        <5>2. old \div b = a
          BY <5>1, TimesOver
        <5> QED
          BY <5>2 DEF a, b
      <4> HIDE DEF old
      <4> QED
        BY <1>1, <3>1, <3>2, <4>1
    <3>5. moved = allocator_realloc(o.by, h, o.p, o.size, size, arr.size, grows)
      BY <3>2
    <3> HIDE DEF size, old, O, moved
    <3>6. Regranted(moved, h, O, o, size)
      BY <1>1, <1>2, <2>1, <2>2, <3>2, <3>3, <3>4, <3>5, HeldRealloc
    <3>7. ASSUME moved.p # 0 PROVE Regot(moved, h, O, o, size)
      BY <1>1, <3>3, <3>6, <3>7, ReallocKeeps
    <3> QED
      BY <2>3, <2>4, <3>1, <3>2, <3>3, <3>7 DEF Regot
  <2> QED
    BY <2>5, <2>6
<1> QED
  BY <1>3, <1>5, <1>6, <1>7, <1>8

-----------------------------------------------------------------------------
(* Elements are written                                                    *)

\* The storage holds the elements t under the header new.
Stored(new, g, role, arr, h, t, V, R) ==
  ArrayHeld(role, new, g, t, V, R) /\ Kept(g, h, R) /\ SameKind(new, arr)

\* Elements written to storage that has room for them.
LEMMA StoreHeld ==
  ASSUME NEW role, NEW arr, NEW h, NEW s, NEW V, NEW R, ArrayHeld(role, arr, h, s, V, R),
         NEW t \in Seq(V), NEW n, n = Len(t), n <= arr.cap,
         NEW new, new = LongerHeader(arr, n),
         NEW g, g = IF arr.data = 0 THEN h ELSE Written(h, arr.data, t)
  PROVE  Stored(new, g, role, arr, h, t, V, R)
<1> DEFINE O == R \cup ArrayBlock(role, arr)
           o == Owner(role, arr.by, arr.data, arr.cap * arr.size)
<1>1. /\ arr \in Headers /\ Holding(h, O) /\ n \in Nat /\ \A q \in R : q.role # role
      /\ (arr.size = 0 => arr.data = 0) /\ (arr.size # 0 => (arr.data = 0 <=> arr.cap = 0))
  BY DEF ArrayHeld, SeqOk
<1>2. SameKind(new, arr) /\ new.data = arr.data /\ new.cap = arr.cap /\ new.len = n
  BY <1>1, HeaderFacts, HeaderEdits
<1>3. new \in Headers /\ new.size = arr.size /\ new.by = arr.by
  BY <1>2 DEF SameKind
<1>4. ArrayBlock(role, new) = ArrayBlock(role, arr)
  BY <1>2, <1>3 DEF ArrayBlock
<1>5. Holding(g, O) /\ Kept(g, h, R) /\ (arr.data # 0 => g.data[arr.data] = t)
  <2>1. CASE arr.data = 0
    BY <1>1, <2>1 DEF Kept
  <2>2. CASE arr.data # 0
    <3>1. o \in O /\ o.p = arr.data /\ o.role = role
      BY <2>2, OwnerIs DEF ArrayBlock, Block
    <3> HIDE DEF o, O
    <3>2. g = Written(h, o.p, t)
      BY <2>2, <3>1
    <3>3. Wrote(g, h, O, o, t)
      BY <1>1, <3>1, <3>2, WriteKeeps
    <3>4. R \subseteq O \ {o}
      BY <1>1, <3>1 DEF O
    <3> QED
      BY <3>1, <3>3, <3>4 DEF Wrote, Kept
  <2> QED
    BY <2>1, <2>2
<1>6. SeqOk(new, g, t, V)
  BY <1>1, <1>2, <1>3, <1>5 DEF SeqOk
<1> QED
  BY <1>1, <1>2, <1>4, <1>5, <1>6 DEF Stored, ArrayHeld

\* What elements a header's storage holds for the code.
LEMMA ContentsAre ==
  ASSUME NEW arr, NEW h, NEW s, NEW V, SeqOk(arr, h, s, V)
  PROVE  /\ arr.size # 0 => Contents(h, arr) = s
         /\ arr.size = 0 => Contents(h, arr) = <<>> /\ arr.data = 0
         /\ arr.size # 0 /\ arr.len # 0 => arr.data # 0
         /\ arr.data = 0 => Contents(h, arr) = <<>>
<1>1. arr \in Headers /\ s \in Seq(V) /\ Len(s) = arr.len /\ arr.len <= arr.cap
  BY DEF SeqOk
<1>2. arr.len \in Nat /\ arr.cap \in Nat
  BY <1>1, HeaderFacts
<1>3. ASSUME arr.size # 0, arr.data = 0 PROVE s = <<>> /\ arr.len = 0
  BY <1>1, <1>2, <1>3 DEF SeqOk
<1> QED
  BY <1>3 DEF SeqOk, Contents

\* array_write puts elements behind the others.
LEMMA AppendHeld ==
  ASSUME NEW role, NEW arr, NEW h, NEW s, NEW V, NEW R, ArrayHeld(role, arr, h, s, V, R),
         NEW t \in Seq(V), arr.len + Len(t) <= arr.cap,
         NEW n, n = arr.len + Len(t), NEW new, new = LongerHeader(arr, n),
         NEW g, g = array_write(arr, h, t)
  PROVE  Stored(new, g, role, arr, h, s \o t, V, R)
<1> DEFINE u == s \o t
<1>1. SeqOk(arr, h, s, V) /\ s \in Seq(V) /\ Len(s) = arr.len /\ arr \in Headers
  BY DEF ArrayHeld, SeqOk
<1>2. arr.len \in Nat /\ arr.cap \in Nat /\ Len(t) \in Nat
  BY <1>1, HeaderFacts
<1>3. u \in Seq(V) /\ Len(u) = n /\ n <= arr.cap
  BY <1>1
<1>0. n = Len(u)
  BY <1>3
<1>4. ASSUME arr.size = 0 PROVE Stored(new, g, role, arr, h, u, V, R)
  <2>1. arr.data = 0 /\ g = h
    BY <1>1, <1>4 DEF SeqOk, array_write
  <2> HIDE DEF u
  <2> QED
    BY <1>0, <1>3, <2>1, StoreHeld
<1>5. ASSUME arr.size # 0, arr.data = 0 PROVE Stored(new, g, role, arr, h, u, V, R)
  <2>1. s = <<>> /\ n = 0 /\ Len(t) = 0
    BY <1>1, <1>2, <1>5 DEF SeqOk
  <2>2. IsHeap(h) /\ arr.data \notin DOMAIN h.data
    <3>1. Holding(h, R \cup ArrayBlock(role, arr)) /\ IsHeap(h)
      BY OwnersAt DEF ArrayHeld
    <3>2. DOMAIN h.data = {o.p : o \in R \cup ArrayBlock(role, arr)}
      BY <3>1 DEF Holding
    <3>3. \A o \in R \cup ArrayBlock(role, arr) : o.p # 0
      BY <3>1, OwnersAt
    <3> QED
      BY <1>5, <3>1, <3>2, <3>3
  <2>3. g = h
    <3> DEFINE x == SubSeq(h.data[arr.data], 1, arr.len) \o t
    <3>1. g = Written(h, arr.data, x)
      BY <1>5 DEF array_write, Written
    <3> HIDE DEF x
    <3>2. [h.data EXCEPT ![arr.data] = x] = h.data
      <4>1. h.data = [y \in DOMAIN h.data |-> h.data[y]]
        BY <2>2 DEF IsHeap
      <4> QED
        BY <2>2, <4>1
    <3> QED
      BY <2>2, <3>1, <3>2 DEF Written, IsHeap
  <2> HIDE DEF u
  <2> QED
    BY <1>0, <1>3, <1>5, <2>3, StoreHeld
<1>6. ASSUME arr.size # 0, arr.data # 0 PROVE Stored(new, g, role, arr, h, u, V, R)
  <2>1. h.data[arr.data] = s
    BY <1>1, <1>6 DEF SeqOk
  <2>2. SubSeq(s, 1, arr.len) = s
    BY <1>1
  <2>3. g = Written(h, arr.data, u)
    BY <1>6, <2>1, <2>2 DEF array_write, Written
  <2> HIDE DEF u
  <2> QED
    BY <1>0, <1>3, <1>6, <2>3, StoreHeld
<1> QED
  BY <1>4, <1>5, <1>6 DEF u

\* A shorter length leaves the first elements.
LEMMA TruncateHeld ==
  ASSUME NEW role, NEW arr, NEW h, NEW s, NEW V, NEW R, ArrayHeld(role, arr, h, s, V, R),
         NEW n \in Nat, n <= arr.len, NEW new, new = LongerHeader(arr, n),
         NEW g, g = Truncated(arr, h, n)
  PROVE  Stored(new, g, role, arr, h, SubSeq(s, 1, n), V, R)
<1> DEFINE u == SubSeq(s, 1, n)
<1>1. SeqOk(arr, h, s, V) /\ s \in Seq(V) /\ Len(s) = arr.len /\ arr \in Headers /\ arr.len <= arr.cap
  BY DEF ArrayHeld, SeqOk
<1>2. arr.len \in Nat /\ arr.cap \in Nat
  BY <1>1, HeaderFacts
<1>3. u \in Seq(V) /\ Len(u) = n /\ n <= arr.cap
  <2>1. \A i \in 1 .. n : s[i] \in V
    BY <1>1, <1>2
  <2> QED
    BY <1>1, <1>2, <2>1
<1>4. g = IF arr.data = 0 THEN h ELSE Written(h, arr.data, u)
  <2>1. CASE arr.data = 0
    BY <1>1, <2>1, ContentsAre DEF Truncated
  <2>2. CASE arr.data # 0 /\ s # <<>>
    <3>1. Contents(h, arr) = s /\ h.data[arr.data] = s
      BY <1>1, <2>2, ContentsAre DEF SeqOk
    <3> QED
      BY <2>2, <3>1 DEF Truncated, Written
  <2>3. CASE arr.data # 0 /\ s = <<>>
    <3>0. n = 0
      BY <1>1, <1>2, <2>3
    <3> DEFINE e == <<>>
    <3>a. s = e /\ e = <<>>
      BY <2>3
    <3>b. Contents(h, arr) = e /\ h.data[arr.data] = e
      <4> HIDE DEF e
      <4> QED
        BY <1>1, <2>3, <3>a, ContentsAre DEF SeqOk
    <3>1. Contents(h, arr) = <<>> /\ h.data[arr.data] = <<>> /\ n = 0
      BY <3>0, <3>b
    <3>2. g = h /\ u = <<>>
      BY <2>3, <3>1 DEF Truncated
    <3>3. IsHeap(h)
      BY OwnersAt DEF ArrayHeld
    <3>4. u = e /\ h.data[arr.data] = e
      BY <3>1, <3>2
    <3> HIDE DEF e, u
    <3>5. [h.data EXCEPT ![arr.data] = e] = h.data
      <4>1. h.data = [y \in DOMAIN h.data |-> h.data[y]]
        BY <3>3 DEF IsHeap
      <4> QED
        BY <3>4, <4>1
    <3> QED
      BY <2>3, <3>2, <3>3, <3>4, <3>5 DEF Written, IsHeap
  <2> QED
    BY <2>1, <2>2, <2>3
<1> HIDE DEF u
<1>5. n = Len(u)
  BY <1>3
<1> QED
  BY <1>3, <1>4, <1>5, StoreHeld DEF u

\* The elements behind the header change, the header does not.
LEMMA RewriteHeld ==
  ASSUME NEW role, NEW arr, NEW h, NEW s, NEW V, NEW R, ArrayHeld(role, arr, h, s, V, R),
         NEW t \in Seq(V), Len(t) = arr.len, NEW g, g = IF arr.size = 0 THEN h ELSE Written(h, arr.data, t),
         arr.len # 0
  PROVE  Stored(arr, g, role, arr, h, t, V, R)
<1>1. SeqOk(arr, h, s, V) /\ arr \in Headers /\ arr.len <= arr.cap
  BY DEF ArrayHeld, SeqOk
<1> DEFINE n == arr.len
<1>2. arr = LongerHeader(arr, n)
  <2>1. CASE arr \in ArrayHeader
    BY <2>1 DEF LongerHeader, ArrayHeader
  <2>2. CASE arr \in ArenaHeader
    BY <2>2 DEF LongerHeader, ArenaHeader
  <2> QED
    BY <1>1, <2>1, <2>2 DEF Headers
<1>3. g = IF arr.data = 0 THEN h ELSE Written(h, arr.data, t)
  BY <1>1, ContentsAre
<1>4. n = Len(t) /\ n <= arr.cap
  BY <1>1
<1> HIDE DEF n
<1> QED
  BY <1>2, <1>3, <1>4, StoreHeld

\* The array and the arena are as they were where their blocks are.
LEMMA ArrayKept ==
  ASSUME NEW role, NEW arr, NEW h, NEW s, NEW V, SeqOk(arr, h, s, V),
         NEW g, Kept(g, h, ArrayBlock(role, arr))
  PROVE  SeqOk(arr, g, s, V) /\ Contents(g, arr) = Contents(h, arr)
<1>1. arr.data # 0 => g.data[arr.data] = h.data[arr.data]
  <2> SUFFICES ASSUME arr.data # 0 PROVE g.data[arr.data] = h.data[arr.data]
    OBVIOUS
  <2>1. Owner(role, arr.by, arr.data, arr.cap * arr.size) \in ArrayBlock(role, arr)
    BY DEF ArrayBlock, Block
  <2> QED
    BY <2>1, OwnerIs DEF Kept
<1> QED
  BY <1>1 DEF SeqOk, Contents

-----------------------------------------------------------------------------
(* The four containers side by side                                        *)

BoxHeader == [live : BOOLEAN, by : Allocators, p : Nat]
BoxBlock(b) == Block("box", b.by, b.p, 8)
BoxOk(b, h, s) == b \in BoxHeader /\ (b.live <=> b.p # 0) /\ (b.p # 0 => h.data[b.p] = s)

\* What the others own beside the array, the arena, the map and the box.
RestArray(n, m, b, h) == (ArrayBlock("arena", n) \cup MapBlocks(m, h)) \cup BoxBlock(b)
RestArena(a, m, b, h) == (ArrayBlock("array", a) \cup MapBlocks(m, h)) \cup BoxBlock(b)
RestMap(a, n, b) == (ArrayBlock("array", a) \cup ArrayBlock("arena", n)) \cup BoxBlock(b)
RestBox(a, n, m, h) == (ArrayBlock("array", a) \cup ArrayBlock("arena", n)) \cup MapBlocks(m, h)

AllBlocks(a, n, m, b, h) ==
  ((ArrayBlock("array", a) \cup ArrayBlock("arena", n)) \cup MapBlocks(m, h)) \cup BoxBlock(b)

\* The array a, the arena n, the map m and the box b over the heap h, and what
\* was put into each.
World(a, n, m, b, h, sa, sn, sm, sb, V) ==
  /\ Holding(h, AllBlocks(a, n, m, b, h))
  /\ SeqOk(a, h, sa, V) /\ SeqOk(n, h, sn, V) /\ MapOk(m, h, sm, V) /\ BoxOk(b, h, sb)

\* The roles of the containers' blocks.
LEMMA RolesAre ==
  ASSUME NEW a, NEW n, NEW m, NEW b, NEW h, NEW o
  PROVE  /\ o \in ArrayBlock("array", a) => o.role = "array"
         /\ o \in ArrayBlock("arena", n) => o.role = "arena"
         /\ o \in BoxBlock(b) => o.role = "box"
         /\ o \in MapBlocks(m, h) => o.role \in {"entries", "index", "key"}
<1>1. o \in MapBlocks(m, h) => o.role \in {"entries", "index", "key"}
  BY Roles DEF MapBlocks
<1> QED
  BY <1>1, OwnerIs DEF ArrayBlock, BoxBlock, Block

\* All blocks are one container's and those of the others.
LEMMA BlocksSplit ==
  ASSUME NEW a, NEW n, NEW m, NEW b, NEW h
  PROVE  /\ AllBlocks(a, n, m, b, h) = RestArray(n, m, b, h) \cup ArrayBlock("array", a)
         /\ AllBlocks(a, n, m, b, h) = RestArena(a, m, b, h) \cup ArrayBlock("arena", n)
         /\ AllBlocks(a, n, m, b, h) = RestMap(a, n, b) \cup MapBlocks(m, h)
         /\ AllBlocks(a, n, m, b, h) = RestBox(a, n, m, h) \cup BoxBlock(b)
BY DEF AllBlocks, RestArray, RestArena, RestMap, RestBox

NoRole(R, role) == \A o \in R : o.role # role

\* No container has another's block.
LEMMA RolesApart ==
  ASSUME NEW a, NEW n, NEW m, NEW b, NEW h
  PROVE  /\ NoRole(RestArray(n, m, b, h), "array") /\ NoRole(RestArena(a, m, b, h), "arena")
         /\ RestMap(a, n, b) \cap MapBlocks(m, h) = {} /\ NoRole(RestBox(a, n, m, h), "box")
<1>1. NoRole(RestArray(n, m, b, h), "array")
  BY RolesAre DEF RestArray, NoRole
<1>2. NoRole(RestArena(a, m, b, h), "arena")
  BY RolesAre DEF RestArena, NoRole
<1>3. RestMap(a, n, b) \cap MapBlocks(m, h) = {}
  <2>1. \A o \in RestMap(a, n, b) : o.role \in {"array", "arena", "box"}
    BY RolesAre DEF RestMap
  <2>2. \A o \in MapBlocks(m, h) : o.role \in {"entries", "index", "key"}
    BY RolesAre
  <2> QED
    BY <2>1, <2>2
<1>4. NoRole(RestBox(a, n, m, h), "box")
  BY RolesAre DEF RestBox, NoRole
<1> QED
  BY <1>1, <1>2, <1>3, <1>4

\* The box is as it was where its cell is.
LEMMA BoxKept ==
  ASSUME NEW b, NEW h, NEW s, BoxOk(b, h, s), NEW g, Kept(g, h, BoxBlock(b))
  PROVE  BoxOk(b, g, s)
<1>1. b.p # 0 => Owner("box", b.by, b.p, 8) \in BoxBlock(b)
  BY DEF BoxBlock, Block
<1> QED
  BY <1>1, OwnerIs DEF Kept, BoxOk

\* One container changes, the others are kept.
LEMMA WorldArray ==
  ASSUME NEW a, NEW n, NEW m, NEW b, NEW h, NEW sa, NEW sn, NEW sm, NEW sb, NEW V,
         World(a, n, m, b, h, sa, sn, sm, sb, V)
  PROVE  ArrayHeld("array", a, h, sa, V, RestArray(n, m, b, h))
<1>1. NoRole(RestArray(n, m, b, h), "array")
  BY RolesApart
<1>2. AllBlocks(a, n, m, b, h) = RestArray(n, m, b, h) \cup ArrayBlock("array", a)
  BY BlocksSplit
<1>3. Holding(h, RestArray(n, m, b, h) \cup ArrayBlock("array", a))
  BY <1>2 DEF World
<1> QED
  BY <1>1, <1>3 DEF World, ArrayHeld, NoRole

\* An array changed beside the others.
LEMMA ArrayWorld ==
  ASSUME NEW a, NEW n, NEW m, NEW b, NEW h, NEW sa, NEW sn, NEW sm, NEW sb, NEW V,
         World(a, n, m, b, h, sa, sn, sm, sb, V), NEW R, R = RestArray(n, m, b, h),
         NEW new, NEW g, NEW t, ArrayHeld("array", new, g, t, V, R), Kept(g, h, R)
  PROVE  World(new, n, m, b, g, t, sn, sm, sb, V) /\ Contents(g, n) = Contents(h, n)
<1>1. Kept(g, h, ArrayBlock("arena", n)) /\ Kept(g, h, MapBlocks(m, h)) /\ Kept(g, h, BoxBlock(b))
  BY DEF Kept, RestArray
<1>2. SeqOk(n, g, sn, V) /\ Contents(g, n) = Contents(h, n)
  BY <1>1, ArrayKept DEF World
<1>3. MapOk(m, g, sm, V) /\ MapBlocks(m, g) = MapBlocks(m, h)
  BY <1>1, MapKept DEF World
<1>4. BoxOk(b, g, sb)
  BY <1>1, BoxKept DEF World
<1>5. AllBlocks(new, n, m, b, g) = R \cup ArrayBlock("array", new)
  BY <1>3, BlocksSplit DEF RestArray
<1> QED
  BY <1>2, <1>3, <1>4, <1>5 DEF World, ArrayHeld

\* The arena beside the others.
LEMMA WorldArena ==
  ASSUME NEW a, NEW n, NEW m, NEW b, NEW h, NEW sa, NEW sn, NEW sm, NEW sb, NEW V,
         World(a, n, m, b, h, sa, sn, sm, sb, V)
  PROVE  ArrayHeld("arena", n, h, sn, V, RestArena(a, m, b, h))
<1>1. NoRole(RestArena(a, m, b, h), "arena")
  BY RolesApart
<1>2. AllBlocks(a, n, m, b, h) = RestArena(a, m, b, h) \cup ArrayBlock("arena", n)
  BY BlocksSplit
<1>3. Holding(h, RestArena(a, m, b, h) \cup ArrayBlock("arena", n))
  BY <1>2 DEF World
<1> QED
  BY <1>1, <1>3 DEF World, ArrayHeld, NoRole

\* An arena changed beside the others.
LEMMA ArenaWorld ==
  ASSUME NEW a, NEW n, NEW m, NEW b, NEW h, NEW sa, NEW sn, NEW sm, NEW sb, NEW V,
         World(a, n, m, b, h, sa, sn, sm, sb, V), NEW R, R = RestArena(a, m, b, h),
         NEW new, NEW g, NEW t, ArrayHeld("arena", new, g, t, V, R), Kept(g, h, R)
  PROVE  World(a, new, m, b, g, sa, t, sm, sb, V)
<1>1. Kept(g, h, ArrayBlock("array", a)) /\ Kept(g, h, MapBlocks(m, h)) /\ Kept(g, h, BoxBlock(b))
  BY DEF Kept, RestArena
<1>2. SeqOk(a, g, sa, V)
  BY <1>1, ArrayKept DEF World
<1>3. MapOk(m, g, sm, V) /\ MapBlocks(m, g) = MapBlocks(m, h)
  BY <1>1, MapKept DEF World
<1>4. BoxOk(b, g, sb)
  BY <1>1, BoxKept DEF World
<1>5. AllBlocks(a, new, m, b, g) = R \cup ArrayBlock("arena", new)
  BY <1>3, BlocksSplit DEF RestArena
<1> QED
  BY <1>2, <1>3, <1>4, <1>5 DEF World, ArrayHeld

\* The map beside the others.
LEMMA WorldMap ==
  ASSUME NEW a, NEW n, NEW m, NEW b, NEW h, NEW sa, NEW sn, NEW sm, NEW sb, NEW V,
         World(a, n, m, b, h, sa, sn, sm, sb, V)
  PROVE  MapHeld(m, h, sm, V, RestMap(a, n, b))
<1>1. \A o \in RestMap(a, n, b) : o \notin MapBlocks(m, h)
  BY RolesApart
<1>2. AllBlocks(a, n, m, b, h) = RestMap(a, n, b) \cup MapBlocks(m, h)
  BY BlocksSplit
<1>3. Holding(h, RestMap(a, n, b) \cup MapBlocks(m, h))
  BY <1>2 DEF World
<1> QED
  BY <1>1, <1>3 DEF World, MapHeld

\* A map changed beside the others.
LEMMA MapWorld ==
  ASSUME NEW a, NEW n, NEW m, NEW b, NEW h, NEW sa, NEW sn, NEW sm, NEW sb, NEW V,
         World(a, n, m, b, h, sa, sn, sm, sb, V), NEW R, R = RestMap(a, n, b),
         NEW new, NEW g, NEW t, MapHeld(new, g, t, V, R), Kept(g, h, R)
  PROVE  World(a, n, new, b, g, sa, sn, t, sb, V) /\ Contents(g, n) = Contents(h, n)
<1>1. Kept(g, h, ArrayBlock("array", a)) /\ Kept(g, h, ArrayBlock("arena", n)) /\ Kept(g, h, BoxBlock(b))
  BY DEF Kept, RestMap
<1>2. SeqOk(a, g, sa, V) /\ SeqOk(n, g, sn, V) /\ Contents(g, n) = Contents(h, n)
  BY <1>1, ArrayKept DEF World
<1>3. BoxOk(b, g, sb)
  BY <1>1, BoxKept DEF World
<1>4. AllBlocks(a, n, new, b, g) = R \cup MapBlocks(new, g)
  BY BlocksSplit
<1> QED
  BY <1>2, <1>3, <1>4 DEF World, MapHeld

\* A box changed beside the others.
LEMMA BoxWorld ==
  ASSUME NEW a, NEW n, NEW m, NEW b, NEW h, NEW sa, NEW sn, NEW sm, NEW sb, NEW V,
         World(a, n, m, b, h, sa, sn, sm, sb, V), NEW R, R = RestBox(a, n, m, h),
         NEW new, NEW g, NEW t, BoxOk(new, g, t), Holding(g, R \cup BoxBlock(new)), Kept(g, h, R)
  PROVE  World(a, n, m, new, g, sa, sn, sm, t, V) /\ Contents(g, n) = Contents(h, n)
<1>1. Kept(g, h, ArrayBlock("array", a)) /\ Kept(g, h, ArrayBlock("arena", n)) /\ Kept(g, h, MapBlocks(m, h))
  BY DEF Kept, RestBox
<1>2. SeqOk(a, g, sa, V) /\ SeqOk(n, g, sn, V) /\ Contents(g, n) = Contents(h, n)
  BY <1>1, ArrayKept DEF World
<1>3. MapOk(m, g, sm, V) /\ MapBlocks(m, g) = MapBlocks(m, h)
  BY <1>1, MapKept DEF World
<1>4. AllBlocks(a, n, m, new, g) = R \cup BoxBlock(new)
  BY <1>3, BlocksSplit DEF RestBox
<1> QED
  BY <1>2, <1>3, <1>4 DEF World

\* Elements are put behind the others, in storage made large enough.
LEMMA PushHeld ==
  ASSUME NEW role, NEW arr, NEW h, NEW s, NEW V, NEW R, ArrayHeld(role, arr, h, s, V, R),
         NEW t \in Seq(V), NEW grows \in BOOLEAN, NEW n, n = arr.len + Len(t),
         NEW r, r = array_reserve(arr, h, n, grows), r.ok,
         NEW new, new = LongerHeader(r.arr, n), NEW g, g = array_write(r.arr, r.h, t)
  PROVE  Stored(new, g, role, arr, h, s \o t, V, R)
<1> DEFINE mid == r.arr
           w == r.h
           u == s \o t
<1>1. arr \in Headers /\ arr.len \in Nat
  BY HeaderFacts DEF ArrayHeld, SeqOk
<1>2. n \in Nat
  BY <1>1
<1>3. Roomy(r, role, arr, h, s, V, R, n)
  BY <1>2, ReserveKeeps
<1>4. /\ ArrayHeld(role, mid, w, s, V, R) /\ Kept(w, h, R) /\ SameKind(mid, arr)
      /\ mid.len = arr.len /\ n <= mid.cap
  BY <1>3 DEF Roomy
<1>5. new = LongerHeader(mid, n) /\ g = array_write(mid, w, t) /\ n = mid.len + Len(t)
      /\ mid.len + Len(t) <= mid.cap
  BY <1>4
<1> HIDE DEF mid, w
<1>6. Stored(new, g, role, mid, w, u, V, R)
  BY <1>4, <1>5, AppendHeld
<1> HIDE DEF u
<1>7. SameKind(new, arr) /\ Kept(g, h, R)
  BY <1>4, <1>6, KeptAgain DEF Stored, SameKind
<1>8. Stored(new, g, role, arr, h, u, V, R)
  BY <1>6, <1>7 DEF Stored
<1> QED
  BY <1>8 DEF u

-----------------------------------------------------------------------------
(* The inductive invariant                                                 *)

\* What is not there has the empty header, and owns nothing.
Absent(a, n, m, b, st) ==
  /\ a.live \/ (a = NoArray /\ st.array = <<>>)
  /\ m.live \/ (m = NoMap /\ st.map = <<>>)
  /\ n.live \/ n = NoArena
  /\ b.live \/ b = NoBox

\* An arena's handles are those of its own number, which no other arena has;
\* the elements sn of the live arena are what its handles were issued for.
HandlesOk(n, made, issued, sn) ==
  /\ made \in Nat /\ n.size = 8 /\ n.len < ArenaSpan
  /\ n.live => n.origin = arena_origin(made)
  /\ \A i \in issued :
       /\ i.by \in Nat /\ i.by <= made /\ i.place \in Nat /\ 1 <= i.place /\ i.place < ArenaSpan
       /\ i.handle = arena_origin(i.by) + i.place - 1
  /\ n.live => \A i \in issued : i.by = made /\ i.place <= n.len => i.value = sn[i.place]

\* The history's record is rebuilt from its fields.
Recorded(st) ==
  st = [array |-> st.array, map |-> st.map, issued |-> st.issued, box |-> st.box]

Sound(a, n, m, b, h, st, made, p) ==
  /\ p \in Programs
  /\ World(a, n, m, b, h, st.array, Contents(h, n), st.map, st.box, p.values)
  /\ a \in ArrayHeader /\ n \in ArenaHeader
  /\ Absent(a, n, m, b, st)
  /\ HandlesOk(n, made, st.issued, Contents(h, n))
  /\ Recorded(st)

\* The inductive invariant: the blocks of the heap are the containers' own, and
\* each container's blocks hold what was put into it.
ContainersInv == Sound(array, arena, map, box, heap, stored, instances, program)

WithArray(st, t) == [st EXCEPT !.array = t]
WithMap(st, t) == [st EXCEPT !.map = t]
WithIssued(st, t) == [st EXCEPT !.issued = t]
WithBox(st, t) == [st EXCEPT !.box = t]

\* What an edit of the history keeps.
LEMMA RecordEdits ==
  ASSUME NEW st, Recorded(st), NEW t
  PROVE  /\ Recorded(WithArray(st, t)) /\ WithArray(st, t).array = t
         /\ WithArray(st, t).map = st.map /\ WithArray(st, t).issued = st.issued
         /\ WithArray(st, t).box = st.box
         /\ Recorded(WithMap(st, t)) /\ WithMap(st, t).map = t
         /\ WithMap(st, t).array = st.array /\ WithMap(st, t).issued = st.issued
         /\ WithMap(st, t).box = st.box
         /\ Recorded(WithIssued(st, t)) /\ WithIssued(st, t).issued = t
         /\ WithIssued(st, t).array = st.array /\ WithIssued(st, t).map = st.map
         /\ WithIssued(st, t).box = st.box
         /\ Recorded(WithBox(st, t)) /\ WithBox(st, t).box = t
         /\ WithBox(st, t).array = st.array /\ WithBox(st, t).map = st.map
         /\ WithBox(st, t).issued = st.issued
BY DEF Recorded, WithArray, WithMap, WithIssued, WithBox

\* A step on one container is sound when its storage is, and the others' blocks
\* are kept.
LEMMA ArrayStepSound ==
  ASSUME NEW a, NEW n, NEW m, NEW b, NEW h, NEW st, NEW made, NEW p, Sound(a, n, m, b, h, st, made, p),
         NEW R, R = RestArray(n, m, b, h), NEW new \in ArrayHeader, NEW g, NEW t,
         ArrayHeld("array", new, g, t, p.values, R), Kept(g, h, R),
         new.live \/ (new = NoArray /\ t = <<>>), NEW so, so = WithArray(st, t)
  PROVE  Sound(new, n, m, b, g, so, made, p)
<1>1. /\ Recorded(so) /\ so.array = t /\ so.map = st.map /\ so.issued = st.issued /\ so.box = st.box
  BY RecordEdits DEF Sound
<1> DEFINE sa == st.array
           sn == Contents(h, n)
           sm == st.map
           sb == st.box
           V == p.values
<1>2. World(a, n, m, b, h, sa, sn, sm, sb, V) /\ ArrayHeld("array", new, g, t, V, R)
  BY DEF Sound
<1>3. World(new, n, m, b, g, t, sn, sm, sb, V) /\ Contents(g, n) = sn
  <2> HIDE DEF sa, sn, sm, sb, V
  <2>1. World(new, n, m, b, g, t, sn, sm, sb, V) /\ Contents(g, n) = Contents(h, n)
    BY <1>2, ArrayWorld
  <2> QED
    BY <2>1 DEF sn
<1>4. Absent(new, n, m, b, so)
  BY <1>1 DEF Sound, Absent
<1> QED
  BY <1>1, <1>3, <1>4 DEF Sound

\* A step on the map alone keeps the invariant.
LEMMA MapStepSound ==
  ASSUME NEW a, NEW n, NEW m, NEW b, NEW h, NEW st, NEW made, NEW p, Sound(a, n, m, b, h, st, made, p),
         NEW R, R = RestMap(a, n, b), NEW new, NEW g, NEW t,
         MapHeld(new, g, t, p.values, R), Kept(g, h, R),
         new.live \/ (new = NoMap /\ t = <<>>), NEW so, so = WithMap(st, t)
  PROVE  Sound(a, n, new, b, g, so, made, p)
<1>1. /\ Recorded(so) /\ so.array = st.array /\ so.map = t /\ so.issued = st.issued /\ so.box = st.box
  BY RecordEdits DEF Sound
<1> DEFINE sa == st.array
           sn == Contents(h, n)
           sm == st.map
           sb == st.box
           V == p.values
<1>2. World(a, n, m, b, h, sa, sn, sm, sb, V) /\ MapHeld(new, g, t, V, R)
  BY DEF Sound
<1>3. World(a, n, new, b, g, sa, sn, t, sb, V) /\ Contents(g, n) = sn
  <2> HIDE DEF sa, sn, sm, sb, V
  <2>1. World(a, n, new, b, g, sa, sn, t, sb, V) /\ Contents(g, n) = Contents(h, n)
    BY <1>2, MapWorld
  <2> QED
    BY <2>1 DEF sn
<1>4. Absent(a, n, new, b, so)
  BY <1>1 DEF Sound, Absent
<1> QED
  BY <1>1, <1>3, <1>4 DEF Sound

\* A step on the box alone keeps the invariant.
LEMMA BoxStepSound ==
  ASSUME NEW a, NEW n, NEW m, NEW b, NEW h, NEW st, NEW made, NEW p, Sound(a, n, m, b, h, st, made, p),
         NEW R, R = RestBox(a, n, m, h), NEW new, NEW g, NEW t,
         BoxOk(new, g, t), Holding(g, R \cup BoxBlock(new)), Kept(g, h, R),
         new.live \/ new = NoBox, NEW so, so = WithBox(st, t)
  PROVE  Sound(a, n, m, new, g, so, made, p)
<1>1. /\ Recorded(so) /\ so.array = st.array /\ so.map = st.map /\ so.issued = st.issued /\ so.box = t
  BY RecordEdits DEF Sound
<1> DEFINE sa == st.array
           sn == Contents(h, n)
           sm == st.map
           sb == st.box
           V == p.values
<1>2. World(a, n, m, b, h, sa, sn, sm, sb, V)
  BY DEF Sound
<1>3. World(a, n, m, new, g, sa, sn, sm, t, V) /\ Contents(g, n) = sn
  <2> HIDE DEF sa, sn, sm, sb, V
  <2>1. World(a, n, m, new, g, sa, sn, sm, t, V) /\ Contents(g, n) = Contents(h, n)
    BY <1>2, BoxWorld
  <2> QED
    BY <2>1 DEF sn
<1>4. Absent(a, n, m, new, so)
  BY <1>1 DEF Sound, Absent
<1> QED
  BY <1>1, <1>3, <1>4 DEF Sound

\* A step on the arena alone keeps the invariant.
LEMMA ArenaStepSound ==
  ASSUME NEW a, NEW n, NEW m, NEW b, NEW h, NEW st, NEW made, NEW p, Sound(a, n, m, b, h, st, made, p),
         NEW R, R = RestArena(a, m, b, h), NEW new \in ArenaHeader, NEW g, NEW t, new.size = 8,
         ArrayHeld("arena", new, g, t, p.values, R), Kept(g, h, R),
         new.live \/ new = NoArena, NEW issued, NEW count, HandlesOk(new, count, issued, t),
         NEW so, so = WithIssued(st, issued)
  PROVE  Sound(a, new, m, b, g, so, count, p)
<1>1. /\ Recorded(so) /\ so.array = st.array /\ so.map = st.map /\ so.issued = issued /\ so.box = st.box
  BY RecordEdits DEF Sound
<1> DEFINE sa == st.array
           sn == Contents(h, n)
           sm == st.map
           sb == st.box
           V == p.values
<1>2. World(a, n, m, b, h, sa, sn, sm, sb, V) /\ ArrayHeld("arena", new, g, t, V, R)
  BY DEF Sound
<1>3. World(a, new, m, b, g, sa, t, sm, sb, V)
  <2> HIDE DEF sa, sn, sm, sb, V
  <2> QED
    BY <1>2, ArenaWorld
<1>4. Contents(g, new) = t
  <2> HIDE DEF V
  <2> QED
    BY <1>2, ContentsAre DEF ArrayHeld
<1>5. Absent(a, new, m, b, so)
  BY <1>1 DEF Sound, Absent
<1> QED
  BY <1>1, <1>3, <1>4, <1>5 DEF Sound

-----------------------------------------------------------------------------
(* The array's operations                                                  *)

BesideArray == RestArray(arena, map, box, heap)

\* The array of a state of the program.
LEMMA ArrayHeldNow ==
  ASSUME ContainersInv
  PROVE  /\ ArrayHeld("array", array, heap, stored.array, program.values, BesideArray)
         /\ array \in ArrayHeader /\ array \in Headers /\ array.len \in Nat
         /\ stored.array \in Seq(program.values) /\ Len(stored.array) = array.len
<1> DEFINE sa == stored.array
           sn == Contents(heap, arena)
           sm == stored.map
           sb == stored.box
           V == program.values
<1>1. World(array, arena, map, box, heap, sa, sn, sm, sb, V) /\ array \in ArrayHeader
  BY DEF ContainersInv, Sound
<1>2. ArrayHeld("array", array, heap, sa, V, BesideArray)
  <2> HIDE DEF sa, sn, sm, sb, V
  <2> QED
    BY <1>1, WorldArray DEF BesideArray
<1>3. array \in Headers
  BY <1>1 DEF Headers
<1>4. array.len \in Nat
  BY <1>3, HeaderFacts
<1> QED
  BY <1>1, <1>2, <1>3, <1>4 DEF ArrayHeld, SeqOk

\* A step of the array that leaves elements t.
LEMMA ArrayDone ==
  ASSUME ContainersInv, NEW t,
         Stored(array', heap', "array", array, heap, t, program.values, BesideArray), array.live,
         stored' = WithArray(stored, t), UNCHANGED <<map, arena, box, instances, program>>
  PROVE  ContainersInv'
<1> DEFINE R == BesideArray
           V == program.values
           new == array'
           g == heap'
           so == stored'
<1>1. /\ Sound(array, arena, map, box, heap, stored, instances, program)
      /\ R = RestArray(arena, map, box, heap)
  BY DEF ContainersInv, BesideArray
<1>2. ArrayHeld("array", new, g, t, program.values, R) /\ Kept(g, heap, R)
  BY DEF Stored
<1>3. new \in ArrayHeader /\ new.live
  BY ArrayHeldNow DEF Stored, SameKind
<1>4. so = WithArray(stored, t)
  OBVIOUS
<1> HIDE DEF R, new, g, so
<1>5. Sound(new, arena, map, box, g, so, instances, program)
  BY <1>1, <1>2, <1>3, <1>4, ArrayStepSound
<1> QED
  BY <1>5 DEF ContainersInv, new, g, so

\* The array is made, or given up: nothing is stored and no block is its own.
LEMMA ArrayBegun ==
  ASSUME ContainersInv, array' \in ArrayHeader, array'.data = 0, array'.len = 0, array'.cap = 0,
         array'.live \/ array' = NoArray, Holding(heap', BesideArray), Kept(heap', heap, BesideArray),
         stored' = WithArray(stored, <<>>), UNCHANGED <<map, arena, box, instances, program>>
  PROVE  ContainersInv'
<1> DEFINE R == BesideArray
           V == program.values
           new == array'
           g == heap'
           so == stored'
           t == <<>>
<1>1. /\ Sound(array, arena, map, box, heap, stored, instances, program)
      /\ R = RestArray(arena, map, box, heap)
  BY DEF ContainersInv, BesideArray
<1>2. SeqOk(new, g, t, V)
  BY DEF SeqOk, Headers
<1>3. ArrayBlock("array", new) = {}
  BY DEF ArrayBlock, Block
<1>4. ArrayHeld("array", new, g, t, V, R)
  <2>1. Holding(g, R \cup ArrayBlock("array", new))
    BY <1>3
  <2> QED
    BY <1>2, <2>1, ArrayHeldNow DEF ArrayHeld
<1>5. /\ so = WithArray(stored, t) /\ new \in ArrayHeader /\ (new.live \/ (new = NoArray /\ t = <<>>))
      /\ Kept(g, heap, R)
  OBVIOUS
<1> HIDE DEF R, new, g, so, t
<1>6. Sound(new, arena, map, box, g, so, instances, program)
  BY <1>1, <1>4, <1>5, ArrayStepSound
<1> QED
  BY <1>6 DEF ContainersInv, new, g, so

\* What a program uses.
LEMMA ProgramFacts ==
  ASSUME ContainersInv
  PROVE  /\ program \in Programs
         /\ program.array \subseteq Allocators /\ program.map \subseteq Allocators
         /\ program.arena \subseteq Allocators /\ program.box \subseteq Allocators
         /\ program.sizes \subseteq Nat /\ program.words \subseteq BOOLEAN /\ program.keys \subseteq Keys
BY ProgramAssumption DEF ContainersInv, Sound

\* array.new keeps the invariant.
LEMMA ArrayNewSound ==
  ASSUME ContainersInv, NEW a \in program.array, NEW size \in program.sizes, ArrayNew(a, size)
  PROVE  ContainersInv'
<1>1. /\ ~array.live /\ array' = [NoArray EXCEPT !.live = TRUE, !.by = a, !.size = size]
      /\ stored' = WithArray(stored, <<>>) /\ heap' = heap
      /\ UNCHANGED <<map, arena, box, instances, program>>
  BY DEF ArrayNew, WithArray
<1>2. a \in Allocators /\ size \in Nat
  BY ProgramFacts
<1>3. /\ array' \in ArrayHeader /\ array'.data = 0 /\ array'.len = 0 /\ array'.cap = 0 /\ array'.live
  BY <1>1, <1>2 DEF NoArray, ArrayHeader
<1>4. array = NoArray
  BY <1>1 DEF ContainersInv, Sound, Absent
<1>5. ArrayBlock("array", array) = {}
  BY <1>4 DEF ArrayBlock, Block, NoArray
<1>6. Holding(heap, BesideArray)
  BY <1>5, ArrayHeldNow DEF ArrayHeld
<1> QED
  BY <1>1, <1>3, <1>6, ArrayBegun DEF Kept

\* array.deinit keeps the invariant.
LEMMA ArrayDeinitSound ==
  ASSUME ContainersInv, ArrayDeinit
  PROVE  ContainersInv'
<1>1. /\ heap' = allocator_free(array.by, heap, array.data) /\ array' = NoArray
      /\ stored' = WithArray(stored, <<>>)
      /\ UNCHANGED <<map, arena, box, instances, program>>
  BY DEF ArrayDeinit, WithArray
<1> DEFINE size == array.cap * array.size
           by == array.by
           p == array.data
           g == heap'
           R == BesideArray
<1>2. ArrayHeld("array", array, heap, stored.array, program.values, R) /\ by \in Allocators
  BY ArrayHeldNow DEF ArrayHeader
<1>3. Holding(heap, R \cup Block("array", by, p, size)) /\ \A o \in R : o \notin Block("array", by, p, size)
  BY <1>2, OwnerIs DEF ArrayHeld, ArrayBlock, Block
<1>4. g = allocator_free(by, heap, p)
  BY <1>1
<1> HIDE DEF size, by, p, g, R
<1>5. Holding(g, R) /\ Kept(g, heap, R)
  BY <1>2, <1>3, <1>4, BlockFreed
<1>6. /\ array' \in ArrayHeader /\ array'.data = 0 /\ array'.len = 0 /\ array'.cap = 0
  BY <1>1 DEF NoArray, ArrayHeader, Allocators
<1> QED
  BY <1>1, <1>5, <1>6, ArrayBegun DEF g, R

\* The elements t are put behind the others.
LEMMA ArrayPushSound ==
  ASSUME ContainersInv, NEW t \in Seq(program.values), NEW grows \in BOOLEAN, array.live,
         NEW n, n = array.len + Len(t),
         NEW r, r = array_reserve(array, heap, n, grows), r.ok,
         heap' = array_write(r.arr, r.h, t), array' = LongerHeader(r.arr, n),
         stored' = WithArray(stored, stored.array \o t),
         UNCHANGED <<map, arena, box, instances, program>>
  PROVE  ContainersInv'
<1> DEFINE R == BesideArray
           V == program.values
           s == stored.array
           u == s \o t
           new == array'
           g == heap'
<1>1. ArrayHeld("array", array, heap, s, V, R)
  BY ArrayHeldNow
<1>2. t \in Seq(V) /\ new = LongerHeader(r.arr, n) /\ g = array_write(r.arr, r.h, t)
  OBVIOUS
<1>3. stored' = WithArray(stored, u)
  OBVIOUS
<1> HIDE DEF R, V, s, new, g
<1>4. Stored(new, g, "array", array, heap, s \o t, V, R)
  BY <1>1, <1>2, PushHeld
<1>5. Stored(new, g, "array", array, heap, u, V, R)
  BY <1>4
<1> HIDE DEF u
<1> QED
  BY <1>3, <1>5, ArrayDone DEF new, g, V, R

\* The room the array asks for.
LEMMA ReservedNow ==
  ASSUME ContainersInv, NEW n \in Nat, NEW grows \in BOOLEAN,
         NEW r, r = array_reserve(array, heap, n, grows)
  PROVE  /\ Roomy(r, "array", array, heap, stored.array, program.values, BesideArray, n)
         /\ r.arr.len = array.len
<1> DEFINE s == stored.array
           V == program.values
           R == BesideArray
<1>1. ArrayHeld("array", array, heap, s, V, R)
  BY ArrayHeldNow
<1> HIDE DEF s, V, R
<1>2. Roomy(r, "array", array, heap, s, V, R, n)
  BY <1>1, ReserveKeeps
<1> QED
  BY <1>2 DEF Roomy, s, V, R

\* array.append keeps the invariant.
LEMMA ArrayAppendSound ==
  ASSUME ContainersInv, NEW v \in program.values, NEW grows \in BOOLEAN, ArrayAppend(v, grows)
  PROVE  ContainersInv'
<1> DEFINE t == <<v>>
           n == array.len + Len(t)
           r == array_reserve(array, heap, n, grows)
<1>1. t \in Seq(program.values) /\ Len(t) = 1 /\ n = array.len + 1
  <2> DEFINE V == program.values
  <2>1. v \in V
    OBVIOUS
  <2> HIDE DEF V
  <2>2. t \in Seq(V) /\ Len(t) = 1
    BY <2>1
  <2> HIDE DEF t
  <2>3. n = array.len + 1
    BY <2>2
  <2> QED
    BY <2>2, <2>3 DEF V
<1>2. /\ array.live /\ r.ok /\ heap' = array_write(r.arr, r.h, t)
      /\ array' = [r.arr EXCEPT !.len = @ + 1]
      /\ stored' = WithArray(stored, Append(stored.array, v))
      /\ UNCHANGED <<map, arena, box, instances, program>>
  BY <1>1 DEF ArrayAppend, WithArray
<1>3. Append(stored.array, v) = stored.array \o t
  BY ArrayHeldNow
<1>4. r.arr.len = array.len
  <2>1. n \in Nat
    BY <1>1, ArrayHeldNow
  <2> QED
    BY <2>1, ReservedNow
<1>5. array' = LongerHeader(r.arr, n)
  BY <1>1, <1>2, <1>4 DEF LongerHeader
<1>6. r = array_reserve(array, heap, n, grows) /\ n = array.len + Len(t)
  OBVIOUS
<1> HIDE DEF r, n, t
<1> QED
  BY <1>1, <1>2, <1>3, <1>5, <1>6, ArrayPushSound

\* array.append_bytes keeps the invariant.
LEMMA ArrayAppendBytesSound ==
  ASSUME ContainersInv, NEW v \in program.values, NEW w \in program.values, NEW grows \in BOOLEAN,
         ArrayAppendBytes(<<v, w, v>>, grows)
  PROVE  ContainersInv'
<1> DEFINE t == <<v, w, v>>
           n == array.len + Len(t)
           r == array_reserve(array, heap, n, grows)
<1>1. t \in Seq(program.values)
  <2> DEFINE V == program.values
  <2>1. v \in V /\ w \in V
    OBVIOUS
  <2> HIDE DEF V
  <2>2. t \in Seq(V)
    BY <2>1
  <2> QED
    BY <2>2 DEF V
<1> HIDE DEF t
<1>2. /\ array.live /\ r.ok /\ heap' = array_write(r.arr, r.h, t)
      /\ array' = [r.arr EXCEPT !.len = @ + Len(t)]
      /\ stored' = WithArray(stored, stored.array \o t)
      /\ UNCHANGED <<map, arena, box, instances, program>>
  BY DEF ArrayAppendBytes, WithArray, t
<1>3. n \in Nat
  BY <1>1, ArrayHeldNow
<1>4. r.arr.len = array.len
  BY <1>3, ReservedNow
<1>5. array' = LongerHeader(r.arr, n)
  BY <1>2, <1>4 DEF LongerHeader
<1>6. r = array_reserve(array, heap, n, grows) /\ n = array.len + Len(t)
  OBVIOUS
<1> HIDE DEF r, n
<1> QED
  BY <1>1, <1>2, <1>5, <1>6, ArrayPushSound

\* array.reserve keeps the invariant, granted or refused.
LEMMA ArrayReserveSound ==
  ASSUME ContainersInv, NEW additional \in Nat, NEW grows \in BOOLEAN, ArrayReserve(additional, grows)
  PROVE  ContainersInv'
<1> DEFINE n == array.len + additional
           r == array_reserve(array, heap, n, grows)
           R == BesideArray
           V == program.values
           s == stored.array
<1>1. /\ array.live /\ heap' = r.h /\ array' = r.arr /\ stored' = stored
      /\ UNCHANGED <<map, arena, box, instances, program>>
  BY DEF ArrayReserve
<1>2. n \in Nat
  BY ArrayHeldNow
<1>3. Roomy(r, "array", array, heap, s, V, R, n)
  BY <1>2, ReservedNow
<1>4. stored' = WithArray(stored, s)
  BY <1>1 DEF ContainersInv, Sound, Recorded, WithArray
<1> HIDE DEF r, R, V, s, n
<1>5. Stored(array', heap', "array", array, heap, s, V, R)
  BY <1>1, <1>3 DEF Roomy, Stored
<1> QED
  BY <1>1, <1>4, <1>5, ArrayDone DEF V, R

\* The array is cut to its first n elements.
LEMMA ArrayCutSound ==
  ASSUME ContainersInv, array.live, NEW n \in Nat, n <= array.len,
         array' = LongerHeader(array, n), heap' = Truncated(array, heap, n),
         stored' = WithArray(stored, SubSeq(stored.array, 1, n)),
         UNCHANGED <<map, arena, box, instances, program>>
  PROVE  ContainersInv'
<1> DEFINE R == BesideArray
           V == program.values
           s == stored.array
           t == SubSeq(s, 1, n)
           new == array'
           g == heap'
<1>1. ArrayHeld("array", array, heap, s, V, R) /\ stored' = WithArray(stored, t)
  BY ArrayHeldNow
<1>2. new = LongerHeader(array, n) /\ g = Truncated(array, heap, n)
  OBVIOUS
<1> HIDE DEF R, V, s, new, g
<1>3. Stored(new, g, "array", array, heap, SubSeq(s, 1, n), V, R)
  BY <1>1, <1>2, TruncateHeld
<1>4. Stored(new, g, "array", array, heap, t, V, R)
  BY <1>3
<1> HIDE DEF t
<1> QED
  BY <1>1, <1>4, ArrayDone DEF new, g, V, R

\* array.pop keeps the invariant.
LEMMA ArrayPopSound ==
  ASSUME ContainersInv, ArrayPop
  PROVE  ContainersInv'
<1> DEFINE n == array.len - 1
<1>1. n \in Nat /\ n <= array.len
  BY ArrayHeldNow DEF ArrayPop
<1>2. Front(stored.array) = SubSeq(stored.array, 1, n)
  BY ArrayHeldNow DEF Front
<1>3. /\ array.live /\ array' = LongerHeader(array, n) /\ heap' = Truncated(array, heap, n)
      /\ stored' = WithArray(stored, Front(stored.array))
      /\ UNCHANGED <<map, arena, box, instances, program>>
  BY DEF ArrayPop, LongerHeader, WithArray
<1> HIDE DEF n
<1> QED
  BY <1>1, <1>2, <1>3, ArrayCutSound

\* array.truncate and array.clear keep the invariant.
LEMMA ArrayTruncateSound ==
  ASSUME ContainersInv, NEW n \in Nat, ArrayTruncate(n)
  PROVE  ContainersInv'
<1>1. /\ array.live /\ n <= array.len /\ array' = LongerHeader(array, n)
      /\ heap' = Truncated(array, heap, n)
      /\ stored' = WithArray(stored, SubSeq(stored.array, 1, n))
      /\ UNCHANGED <<map, arena, box, instances, program>>
  BY DEF ArrayTruncate, LongerHeader, WithArray
<1> QED
  BY <1>1, ArrayCutSound

\* The elements become t, as many as before.
LEMMA ArrayRewriteSound ==
  ASSUME ContainersInv, array.live, array.len # 0,
         NEW t \in Seq(program.values), Len(t) = array.len,
         heap' = IF array.size = 0 THEN heap ELSE Written(heap, array.data, t),
         stored' = WithArray(stored, t), UNCHANGED <<array, map, arena, box, instances, program>>
  PROVE  ContainersInv'
<1> DEFINE R == BesideArray
           V == program.values
           s == stored.array
           g == heap'
<1>1. ArrayHeld("array", array, heap, s, V, R) /\ t \in Seq(V)
  BY ArrayHeldNow
<1>2. g = IF array.size = 0 THEN heap ELSE Written(heap, array.data, t)
  OBVIOUS
<1> HIDE DEF R, V, s, g
<1>3. Stored(array, g, "array", array, heap, t, V, R)
  BY <1>1, <1>2, RewriteHeld
<1>4. Stored(array', g, "array", array, heap, t, V, R)
  BY <1>3
<1> QED
  BY <1>4, ArrayDone DEF g, V, R

\* What the array's block holds, where it has one.
LEMMA ArrayDataNow ==
  ASSUME ContainersInv, array.size # 0, array.len # 0
  PROVE  heap.data[array.data] = stored.array
BY ArrayHeldNow, ContentsAre DEF ArrayHeld, SeqOk, Contents

\* array.set keeps the invariant.
LEMMA ArraySetSound ==
  ASSUME ContainersInv, NEW i \in Nat, NEW v \in program.values, ArraySet(i, v)
  PROVE  ContainersInv'
<1> DEFINE t == [stored.array EXCEPT ![i + 1] = v]
<1>1. /\ array.live /\ i < array.len
      /\ heap' = (IF array.size = 0 THEN heap ELSE [heap EXCEPT !.data[array.data][i + 1] = v])
      /\ stored' = WithArray(stored, t)
      /\ UNCHANGED <<array, map, arena, box, instances, program>>
  BY DEF ArraySet, WithArray
<1>2. array.len # 0
  BY <1>1, ArrayHeldNow
<1>3. t \in Seq(program.values) /\ Len(t) = array.len
  <2> DEFINE V == program.values
             s == stored.array
  <2>1. v \in V /\ s \in Seq(V) /\ Len(s) = array.len
    BY ArrayHeldNow
  <2> HIDE DEF V, s
  <2>2. [s EXCEPT ![i + 1] = v] \in Seq(V) /\ Len([s EXCEPT ![i + 1] = v]) = Len(s)
    <3>1. s \in [1..Len(s) -> V] /\ Len(s) \in Nat
      BY <2>1
    <3>2. [s EXCEPT ![i + 1] = v] \in [1..Len(s) -> V]
      BY <2>1, <3>1
    <3> DEFINE u == [s EXCEPT ![i + 1] = v]
    <3> HIDE DEF u
    <3>3. u \in [1..Len(s) -> V]
      BY <3>2 DEF u
    <3>4. u \in Seq(V) /\ Len(u) = Len(s)
      BY <3>1, <3>3
    <3> QED
      BY <3>4 DEF u
  <2> QED
    BY <2>1, <2>2 DEF V, s
<1>4. heap' = IF array.size = 0 THEN heap ELSE Written(heap, array.data, t)
  <2>1. CASE array.size = 0
    BY <1>1, <2>1
  <2>2. CASE array.size # 0
    <3>1. heap.data[array.data] = stored.array
      BY <1>2, <2>2, ArrayDataNow
    <3>2. heap' = [heap EXCEPT !.data[array.data] = [heap.data[array.data] EXCEPT ![i + 1] = v]]
      BY <1>1, <2>2
    <3> QED
      BY <2>2, <3>1, <3>2 DEF Written
  <2> QED
    BY <2>1, <2>2
<1> HIDE DEF t
<1> QED
  BY <1>1, <1>2, <1>3, <1>4, ArrayRewriteSound

\* Exchanging two elements through a temporary exchanges them, also when they are
\* the same.
LEMMA SwapIs ==
  ASSUME NEW V, NEW s \in Seq(V), NEW i \in 1..Len(s), NEW j \in 1..Len(s),
         NEW t, t = [k \in DOMAIN s |-> IF k = i THEN s[j] ELSE IF k = j THEN s[i] ELSE s[k]]
  PROVE  t \in Seq(V) /\ Len(t) = Len(s) /\ array_swap(s, i, j) = t
<1>1. DOMAIN s = 1..Len(s) /\ Len(s) \in Nat /\ \A k \in 1..Len(s) : s[k] \in V
  OBVIOUS
<1>2. t \in Seq(V) /\ Len(t) = Len(s)
  <2>1. t \in [1..Len(s) -> V]
    BY <1>1
  <2> QED
    BY <1>1, <2>1
<1>3. array_swap(s, i, j) = t
  <2> DEFINE w == [s EXCEPT ![i] = s[j], ![j] = s[i]]
  <2>1. s = [k \in 1..Len(s) |-> s[k]]
    BY <1>1
  <2>2. w = [k \in 1..Len(s) |-> w[k]]
    BY <2>1
  <2>3. \A k \in 1..Len(s) : w[k] = t[k]
    BY <1>1, <2>1
  <2>4. t = [k \in 1..Len(s) |-> t[k]]
    BY <1>1
  <2> HIDE DEF w
  <2>5. w = t
    BY <2>2, <2>3, <2>4
  <2> USE DEF w
  <2> QED
    BY <2>5 DEF array_swap
<1> QED
  BY <1>2, <1>3

\* array.swap keeps the invariant.
LEMMA ArraySwapSound ==
  ASSUME ContainersInv, NEW left \in Nat, NEW right \in Nat, ArraySwap(left, right)
  PROVE  ContainersInv'
<1> DEFINE s == stored.array
           i == left + 1
           j == right + 1
           t == [k \in DOMAIN s |-> IF k = i THEN s[j] ELSE IF k = j THEN s[i] ELSE s[k]]
<1>1. /\ array.live /\ left < array.len /\ right < array.len
      /\ heap' = (IF array.size = 0 THEN heap
                  ELSE [heap EXCEPT !.data[array.data] = array_swap(heap.data[array.data], i, j)])
      /\ stored' = WithArray(stored, t)
      /\ UNCHANGED <<array, map, arena, box, instances, program>>
  BY DEF ArraySwap, WithArray
<1>2. array.len # 0 /\ s \in Seq(program.values) /\ Len(s) = array.len
      /\ i \in 1..Len(s) /\ j \in 1..Len(s)
  BY <1>1, ArrayHeldNow
<1>3. t \in Seq(program.values) /\ Len(t) = array.len /\ array_swap(s, i, j) = t
  <2> DEFINE V == program.values
  <2>1. s \in Seq(V) /\ i \in 1..Len(s) /\ j \in 1..Len(s) /\ Len(s) = array.len
        /\ t = [k \in DOMAIN s |-> IF k = i THEN s[j] ELSE IF k = j THEN s[i] ELSE s[k]]
    BY <1>2
  <2> HIDE DEF s, i, j, t, V
  <2>2. t \in Seq(V) /\ Len(t) = Len(s) /\ array_swap(s, i, j) = t
    BY <2>1, SwapIs
  <2> QED
    BY <2>1, <2>2 DEF V
<1>4. heap' = IF array.size = 0 THEN heap ELSE Written(heap, array.data, t)
  <2>1. CASE array.size = 0
    BY <1>1, <2>1
  <2>2. CASE array.size # 0
    <3>1. heap.data[array.data] = s
      BY <1>2, <2>2, ArrayDataNow
    <3> HIDE DEF s, i, j, t
    <3>2. heap' = [heap EXCEPT !.data[array.data] = t]
      BY <1>1, <1>3, <2>2, <3>1
    <3> QED
      BY <2>2, <3>2 DEF Written
  <2> QED
    BY <2>1, <2>2
<1> HIDE DEF t
<1> QED
  BY <1>1, <1>2, <1>3, <1>4, ArrayRewriteSound

\* A panic ends the program and changes nothing else.
LEMMA NothingChanged ==
  ASSUME ContainersInv,
         UNCHANGED <<heap, array, map, arena, box, instances, stored, program>>
  PROVE  ContainersInv'
BY DEF ContainersInv

\* Every operation of the array keeps the invariant.
LEMMA ArrayStepKeeps ==
  ASSUME ContainersInv, ArrayStep
  PROVE  ContainersInv'
<1>1. ASSUME NEW a \in program.array, NEW size \in program.sizes, ArrayNew(a, size)
      PROVE  ContainersInv'
  BY <1>1, ArrayNewSound
<1>2. ASSUME NEW v \in program.values, NEW grows \in BOOLEAN, ArrayAppend(v, grows)
      PROVE  ContainersInv'
  BY <1>2, ArrayAppendSound
<1>3. ASSUME NEW v \in program.values, NEW w \in program.values, NEW grows \in BOOLEAN,
             ArrayAppendBytes(<<v, w, v>>, grows)
      PROVE  ContainersInv'
  BY <1>3, ArrayAppendBytesSound
<1>4. ASSUME NEW n \in {2, 5}, NEW grows \in BOOLEAN, ArrayReserve(n, grows)
      PROVE  ContainersInv'
  <2>1. n \in Nat
    OBVIOUS
  <2> QED
    BY <1>4, <2>1, ArrayReserveSound
<1>5. ASSUME ArrayPopOrPanic PROVE ContainersInv'
  BY <1>5, ArrayPopSound, NothingChanged DEF ArrayPopOrPanic, Trap
<1>6. ASSUME NEW n \in 0..MaxElements, ArrayTruncate(n) PROVE ContainersInv'
  <2>1. n \in Nat
    OBVIOUS
  <2> QED
    BY <1>6, <2>1, ArrayTruncateSound
<1>7. ASSUME NEW i \in 0..MaxElements, NEW v \in program.values, ArraySet(i, v)
      PROVE  ContainersInv'
  <2>1. i \in Nat
    OBVIOUS
  <2> QED
    BY <1>7, <2>1, ArraySetSound
<1>8. ASSUME NEW i \in 0..MaxElements, NEW j \in 0..MaxElements, ArraySwap(i, j)
      PROVE  ContainersInv'
  <2>1. i \in Nat /\ j \in Nat
    OBVIOUS
  <2> QED
    BY <1>8, <2>1, ArraySwapSound
<1>9. ASSUME ArrayDeinit PROVE ContainersInv'
  BY <1>9, ArrayDeinitSound
<1> QED
  BY <1>1, <1>2, <1>3, <1>4, <1>5, <1>6, <1>7, <1>8, <1>9 DEF ArrayStep

-----------------------------------------------------------------------------
(* The map's operations                                                    *)

BesideMap == RestMap(array, arena, box)

\* The map of a state of the program.
LEMMA MapHeldNow ==
  ASSUME ContainersInv
  PROVE  /\ MapHeld(map, heap, stored.map, program.values, BesideMap)
         /\ MapOk(map, heap, stored.map, program.values)
<1> DEFINE sa == stored.array
           sn == Contents(heap, arena)
           sm == stored.map
           sb == stored.box
           V == program.values
<1>1. World(array, arena, map, box, heap, sa, sn, sm, sb, V)
  BY DEF ContainersInv, Sound
<1>2. MapHeld(map, heap, sm, V, BesideMap)
  <2> HIDE DEF sa, sn, sm, sb, V
  <2> QED
    BY <1>1, WorldMap DEF BesideMap
<1> QED
  BY <1>2 DEF MapHeld

\* A step of the map that leaves t stored.
LEMMA MapDone ==
  ASSUME ContainersInv, NEW t, MapHeld(map', heap', t, program.values, BesideMap),
         Kept(heap', heap, BesideMap), map'.live \/ (map' = NoMap /\ t = <<>>),
         stored' = WithMap(stored, t), UNCHANGED <<array, arena, box, instances, program>>
  PROVE  ContainersInv'
<1> DEFINE R == BesideMap
           new == map'
           g == heap'
           so == stored'
<1>1. /\ Sound(array, arena, map, box, heap, stored, instances, program)
      /\ R = RestMap(array, arena, box)
      /\ MapHeld(new, g, t, program.values, R) /\ Kept(g, heap, R)
      /\ new.live \/ (new = NoMap /\ t = <<>>)
      /\ so = WithMap(stored, t)
  BY DEF ContainersInv, BesideMap
<1> HIDE DEF R, new, g, so
<1>2. Sound(array, arena, new, box, g, so, instances, program)
  BY <1>1, MapStepSound
<1> QED
  BY <1>2 DEF ContainersInv, new, g, so

\* A map without entries, index and keys holds nothing and owns nothing.
LEMMA EmptyMap ==
  ASSUME NEW mp \in MapHeader, mp.entries = 0, mp.len = 0, mp.cap = 0, mp.index = 0, mp.icap = 0,
         NEW h, NEW V
  PROVE  MapOk(mp, h, <<>>, V) /\ MapBlocks(mp, h) = {}
<1> DEFINE e == <<>>
<1>1. Entries(h, mp) = e
  BY DEF Entries
<1>2. e \in Seq(Entry(V)) /\ e \in Seq([key : Keys, value : V]) /\ Len(e) = 0
  OBVIOUS
<1> HIDE DEF e
<1>3. MapOk(mp, h, e, V)
  <2>1. mp.len <= (mp.icap * 3) \div 4
    OBVIOUS
  <2>2. \A i \in 1 .. mp.len : FALSE
    OBVIOUS
  <2> QED
    BY <1>1, <1>2, <2>1, <2>2 DEF MapOk
<1>4. MapBlocks(mp, h) = {}
  BY <1>1, <1>2 DEF MapBlocks, EntriesBlock, IndexBlock, Block, KeyBlocks
<1> QED
  BY <1>3, <1>4 DEF e

\* The map is made, or given up.
LEMMA MapBegun ==
  ASSUME ContainersInv, map' \in MapHeader, map'.entries = 0, map'.len = 0, map'.cap = 0,
         map'.index = 0, map'.icap = 0, map'.live \/ map' = NoMap,
         Holding(heap', BesideMap), Kept(heap', heap, BesideMap),
         stored' = WithMap(stored, <<>>), UNCHANGED <<array, arena, box, instances, program>>
  PROVE  ContainersInv'
<1> DEFINE V == program.values
           new == map'
           g == heap'
           e == <<>>
<1>1. MapOk(new, g, e, V) /\ MapBlocks(new, g) = {}
  <2>1. new \in MapHeader /\ new.entries = 0 /\ new.len = 0 /\ new.cap = 0 /\ new.index = 0
        /\ new.icap = 0
    OBVIOUS
  <2> HIDE DEF V, new, g
  <2> QED
    BY <2>1, EmptyMap
<1>2. Holding(g, BesideMap \cup MapBlocks(new, g))
  BY <1>1
<1>3. MapHeld(new, g, e, V, BesideMap)
  BY <1>1, <1>2 DEF MapHeld
<1>4. stored' = WithMap(stored, e) /\ (new.live \/ (new = NoMap /\ e = <<>>))
  OBVIOUS
<1> HIDE DEF e
<1> QED
  BY <1>3, <1>4, MapDone

\* map.new keeps the invariant.
LEMMA MapNewSound ==
  ASSUME ContainersInv, NEW a \in program.map, NEW words \in program.words, MapNew(a, words)
  PROVE  ContainersInv'
<1>1. /\ ~map.live /\ map' = [NoMap EXCEPT !.live = TRUE, !.by = a, !.words = words]
      /\ stored' = WithMap(stored, <<>>) /\ heap' = heap
      /\ UNCHANGED <<array, arena, box, instances, program>>
  BY DEF MapNew, WithMap
<1>2. a \in Allocators /\ words \in BOOLEAN
  BY ProgramFacts
<1>3. /\ map' \in MapHeader /\ map'.entries = 0 /\ map'.len = 0 /\ map'.cap = 0
      /\ map'.index = 0 /\ map'.icap = 0 /\ map'.live
  BY <1>1, <1>2 DEF NoMap, MapHeader, Allocators
<1>4. map = NoMap
  BY <1>1 DEF ContainersInv, Sound, Absent
<1>5. MapBlocks(map, heap) = {}
  <2>1. map \in MapHeader
    BY MapHeldNow DEF MapOk
  <2> QED
    BY <1>4, <2>1, EmptyMap DEF NoMap
<1>6. Holding(heap, BesideMap)
  BY <1>5, MapHeldNow DEF MapHeld
<1> QED
  BY <1>1, <1>3, <1>6, MapBegun DEF Kept

\* map.deinit keeps the invariant: every key copy, the entries and the index go back.
LEMMA MapDeinitSound ==
  ASSUME ContainersInv, MapDeinit
  PROVE  ContainersInv'
<1>1. /\ heap' = map_deinit(map, heap) /\ map' = NoMap
      /\ stored' = WithMap(stored, <<>>)
      /\ UNCHANGED <<array, arena, box, instances, program>>
  BY DEF MapDeinit, WithMap
<1> DEFINE g == heap'
           st == stored.map
           V == program.values
           R == BesideMap
<1>2. MapHeld(map, heap, st, V, R) /\ g = map_deinit(map, heap)
  BY <1>1, MapHeldNow
<1> HIDE DEF g, st, V, R
<1>3. Holding(g, R) /\ Kept(g, heap, R)
  BY <1>2, DeinitHeld
<1>4. /\ map' \in MapHeader /\ map'.entries = 0 /\ map'.len = 0 /\ map'.cap = 0
      /\ map'.index = 0 /\ map'.icap = 0
  BY <1>1 DEF NoMap, MapHeader, Allocators
<1> QED
  BY <1>1, <1>3, <1>4, MapBegun DEF g, R

\* map.insert keeps the invariant, whichever of its allocations is refused.
LEMMA MapInsertSound ==
  ASSUME ContainersInv, NEW k \in program.keys, NEW v \in program.values, NEW grows \in BOOLEAN,
         MapInsert(k, v, grows)
  PROVE  ContainersInv'
<1> DEFINE r == IF map.words THEN map_insert_word(map, heap, k, v, grows)
                ELSE map_insert(map, heap, k, v, grows)
           st == stored.map
           V == program.values
           R == BesideMap
           more == After(st, k, v)
           t == IF r.ok THEN more ELSE st
<1>1. /\ map.live /\ heap' = r.h /\ map' = r.mp
      /\ UNCHANGED <<array, arena, box, instances, program>>
      /\ stored' = WithMap(stored, IF ~r.ok THEN st
              ELSE IF Holds(st, k) THEN [st EXCEPT ![Position(st, k)].value = v]
              ELSE Append(st, [key |-> k, value |-> v]))
  BY DEF MapInsert, WithMap
<1>2. stored' = WithMap(stored, t)
  <2> HIDE DEF r, st
  <2> QED
    BY <1>1 DEF After, OneMore
<1>3. MapHeld(map, heap, st, V, R) /\ k \in Keys /\ v \in V
  BY MapHeldNow, ProgramFacts
<1> HIDE DEF st, V, R
<1>4. Inserted(r, map, heap, st, After(st, k, v), V, R)
  <2>1. CASE map.words
    <3>1. r = map_insert_word(map, heap, k, v, grows)
      BY <2>1
    <3> HIDE DEF r
    <3> QED
      BY <1>3, <3>1, InsertWordHeld
  <2>2. CASE ~map.words
    <3>1. r = map_insert(map, heap, k, v, grows)
      BY <2>2
    <3> HIDE DEF r
    <3> QED
      BY <1>3, <3>1, InsertHeld
  <2> QED
    BY <2>1, <2>2
<1> HIDE DEF r
<1>5. Inserted(r, map, heap, st, more, V, R)
  BY <1>4
<1> HIDE DEF more
<1>6. Done(r, map, heap, t, V, R)
  BY <1>5 DEF Inserted
<1> HIDE DEF t
<1>7. MapHeld(map', heap', t, V, R) /\ Kept(heap', heap, R) /\ map'.live
  BY <1>1, <1>6 DEF Done
<1> QED
  BY <1>1, <1>2, <1>7, MapDone DEF V, R

\* map.remove keeps the invariant.
LEMMA MapRemoveSound ==
  ASSUME ContainersInv, NEW k \in program.keys, MapRemove(k)
  PROVE  ContainersInv'
<1> DEFINE st == stored.map
           V == program.values
           R == BesideMap
           n == Position(st, k)
           r == map_remove(map, heap, n)
           t == RemoveAt(st, n)
<1>1. k \in Keys /\ MapHeld(map, heap, st, V, R) /\ MapOk(map, heap, st, V)
  BY MapHeldNow, ProgramFacts
<1>2. PICK number \in map_find(heap, map, k) :
         /\ heap' = map_remove(map, heap, number + 1).h
         /\ map' = map_remove(map, heap, number + 1).mp
         /\ stored' = WithMap(stored, IF Holds(st, k) THEN RemoveAt(st, Position(st, k)) ELSE st)
  BY DEF MapRemove, WithMap
<1>3. map.live /\ UNCHANGED <<array, arena, box, instances, program>>
  BY DEF MapRemove
<1> HIDE DEF st, V, R
<1>4. map_find(heap, map, k) = Answer(st, k)
  BY <1>1, FindIs
<1>5. Holds(st, k) /\ number = n - 1
  BY <1>2, <1>4 DEF Answer
<1>6. n \in 1 .. map.len
  <2>1. DOMAIN st = 1 .. map.len
    BY <1>1, MapFacts
  <2>2. PICK i \in 1 .. map.len : st[i].key = k
    BY <1>5, <2>1 DEF Holds
  <2>3. Position(st, k) = i
    BY <1>1, <2>2, PositionIs
  <2> QED
    BY <2>3
<1>7. number + 1 = n
  <2> HIDE DEF n
  <2>1. n \in Int
    BY <1>6
  <2> QED
    BY <1>5, <2>1
<1>8. heap' = r.h /\ map' = r.mp /\ stored' = WithMap(stored, t)
  <2> HIDE DEF n
  <2>1. stored' = WithMap(stored, RemoveAt(st, n))
    BY <1>2, <1>5 DEF n
  <2> QED
    BY <1>2, <1>7, <2>1
<1> HIDE DEF n
<1>9. r = map_remove(map, heap, n)
  OBVIOUS
<1> HIDE DEF r
<1>10. /\ MapHeld(r.mp, r.h, RemoveAt(st, n), V, R) /\ Kept(r.h, heap, R)
       /\ r.mp.live = map.live
  BY <1>1, <1>6, <1>9, RemoveHeld
<1>11. MapHeld(map', heap', t, V, R) /\ Kept(heap', heap, R) /\ map'.live
  BY <1>3, <1>8, <1>10
<1> HIDE DEF t
<1> QED
  BY <1>3, <1>8, <1>11, MapDone DEF V, R

\* Every operation of the map keeps the invariant.
LEMMA MapStepKeeps ==
  ASSUME ContainersInv, MapStep
  PROVE  ContainersInv'
BY MapNewSound, MapInsertSound, MapRemoveSound, MapDeinitSound DEF MapStep

-----------------------------------------------------------------------------
(* The arena's operations                                                  *)

BesideArena == RestArena(array, map, box, heap)

\* The arena of a state of the program.
LEMMA ArenaHeldNow ==
  ASSUME ContainersInv
  PROVE  /\ ArrayHeld("arena", arena, heap, Contents(heap, arena), program.values, BesideArena)
         /\ HandlesOk(arena, instances, stored.issued, Contents(heap, arena))
         /\ arena \in ArenaHeader /\ arena \in Headers /\ arena.len \in Nat
         /\ Contents(heap, arena) \in Seq(program.values) /\ Len(Contents(heap, arena)) = arena.len
<1> DEFINE sa == stored.array
           sn == Contents(heap, arena)
           sm == stored.map
           sb == stored.box
           V == program.values
<1>1. /\ World(array, arena, map, box, heap, sa, sn, sm, sb, V) /\ arena \in ArenaHeader
      /\ HandlesOk(arena, instances, stored.issued, sn)
  BY DEF ContainersInv, Sound
<1>2. ArrayHeld("arena", arena, heap, sn, V, BesideArena)
  <2> HIDE DEF sa, sn, sm, sb, V
  <2> QED
    BY <1>1, WorldArena DEF BesideArena
<1>3. arena \in Headers
  BY <1>1 DEF Headers
<1>4. arena.len \in Nat
  BY <1>3, HeaderFacts
<1> QED
  BY <1>1, <1>2, <1>3, <1>4 DEF ArrayHeld, SeqOk

\* A step of the arena that leaves elements t and the handles issued.
LEMMA ArenaDone ==
  ASSUME ContainersInv, NEW t, arena' \in ArenaHeader, arena'.size = 8,
         ArrayHeld("arena", arena', heap', t, program.values, BesideArena), Kept(heap', heap, BesideArena),
         arena'.live \/ arena' = NoArena, NEW issued, HandlesOk(arena', instances', issued, t),
         stored' = WithIssued(stored, issued), UNCHANGED <<array, map, box, program>>
  PROVE  ContainersInv'
<1> DEFINE R == BesideArena
           new == arena'
           g == heap'
           so == stored'
           count == instances'
<1>1. /\ Sound(array, arena, map, box, heap, stored, instances, program)
      /\ R = RestArena(array, map, box, heap) /\ new \in ArenaHeader /\ new.size = 8
      /\ ArrayHeld("arena", new, g, t, program.values, R) /\ Kept(g, heap, R)
      /\ new.live \/ new = NoArena
      /\ HandlesOk(new, count, issued, t) /\ so = WithIssued(stored, issued)
  BY DEF ContainersInv, BesideArena
<1> HIDE DEF R, new, g, so, count
<1>2. Sound(array, new, map, box, g, so, count, program)
  BY <1>1, ArenaStepSound
<1> QED
  BY <1>2 DEF ContainersInv, new, g, so, count

\* The handles issued are as they were.
LEMMA IssuedSame ==
  ASSUME ContainersInv, stored' = stored
  PROVE  stored' = WithIssued(stored, stored.issued)
BY DEF ContainersInv, Sound, Recorded, WithIssued

\* The arena is made with the next origin, or given up.
LEMMA ArenaBegun ==
  ASSUME ContainersInv, arena' \in ArenaHeader, arena'.size = 8,
         arena'.data = 0, arena'.len = 0, arena'.cap = 0, arena'.live \/ arena' = NoArena,
         Holding(heap', BesideArena), Kept(heap', heap, BesideArena), instances' \in Nat,
         instances' >= instances, arena'.live => instances' > instances,
         arena'.live => arena'.origin = arena_origin(instances'),
         stored' = stored, UNCHANGED <<array, map, box, program>>
  PROVE  ContainersInv'
<1> DEFINE V == program.values
           new == arena'
           g == heap'
           e == <<>>
<1>1. SeqOk(new, g, e, V)
  BY DEF SeqOk, Headers
<1>2. ArrayBlock("arena", new) = {}
  BY DEF ArrayBlock, Block
<1>3. ArrayHeld("arena", new, g, e, V, BesideArena)
  <2>1. Holding(g, BesideArena \cup ArrayBlock("arena", new))
    BY <1>2
  <2> QED
    BY <1>1, <2>1, ArenaHeldNow DEF ArrayHeld
<1>4. HandlesOk(new, instances', stored.issued, e)
  <2>1. HandlesOk(arena, instances, stored.issued, Contents(heap, arena))
    BY ArenaHeldNow
  <2>2. instances \in Nat /\ instances' \in Nat /\ instances' >= instances /\ ArenaSpan > 0
    BY <2>1, ContainerAssumption DEF HandlesOk
  <2>3. \A i \in stored.issued :
           /\ i.by \in Nat /\ i.by <= instances' /\ i.place \in Nat /\ 1 <= i.place
           /\ i.place < ArenaSpan /\ i.handle = arena_origin(i.by) + i.place - 1
           /\ new.live => i.by # instances'
    <3> TAKE i \in stored.issued
    <3>1. /\ i.by \in Nat /\ i.by <= instances /\ i.place \in Nat /\ 1 <= i.place
          /\ i.place < ArenaSpan /\ i.handle = arena_origin(i.by) + i.place - 1
      BY <2>1 DEF HandlesOk
    <3>2. i.by <= instances' /\ (new.live => i.by # instances')
      BY <2>2, <3>1
    <3> QED
      BY <3>1, <3>2
  <2> QED
    BY <2>2, <2>3 DEF HandlesOk
<1>5. /\ stored' = WithIssued(stored, stored.issued) /\ new \in ArenaHeader /\ new.size = 8
      /\ Kept(g, heap, BesideArena) /\ (new.live \/ new = NoArena)
  BY IssuedSame
<1> HIDE DEF e, V, new, g
<1> QED
  BY <1>3, <1>4, <1>5, ArenaDone DEF V, new, g

\* arena.new keeps the invariant.
LEMMA ArenaNewSound ==
  ASSUME ContainersInv, NEW a \in program.arena, ArenaNew(a)
  PROVE  ContainersInv'
<1>1. CASE instances >= MaxInstances
  BY <1>1, NothingChanged DEF ArenaNew, Trap
<1>2. CASE ~(instances >= MaxInstances)
  <2>1. /\ ~arena.live /\ instances' = instances + 1 /\ heap' = heap /\ stored' = stored
        /\ arena' = [NoArena EXCEPT !.live = TRUE, !.by = a, !.origin = arena_origin(instances + 1)]
        /\ UNCHANGED <<array, map, box, program>>
    BY <1>2 DEF ArenaNew
  <2>2. instances \in Nat /\ a \in Allocators
    BY ArenaHeldNow, ProgramFacts DEF HandlesOk
  <2>3. arena_origin(instances + 1) \in Nat
    BY <2>2, TimesNat, ContainerAssumption DEF arena_origin
  <2>4. /\ arena' \in ArenaHeader /\ arena'.data = 0 /\ arena'.len = 0 /\ arena'.cap = 0
        /\ arena'.live /\ arena'.size = 8 /\ arena'.origin = arena_origin(instances + 1)
    BY <2>1, <2>2, <2>3 DEF NoArena, ArenaHeader
  <2>5. arena = NoArena
    BY <2>1 DEF ContainersInv, Sound, Absent
  <2>6. ArrayBlock("arena", arena) = {}
    BY <2>5 DEF ArrayBlock, Block, NoArena
  <2>7. Holding(heap, BesideArena)
    BY <2>6, ArenaHeldNow DEF ArrayHeld
  <2>8. instances' \in Nat /\ instances' > instances
    BY <2>1, <2>2
  <2> QED
    BY <2>1, <2>2, <2>4, <2>7, <2>8, ArenaBegun DEF Kept
<1> QED
  BY <1>1, <1>2

\* arena.deinit keeps the invariant.
LEMMA ArenaDeinitSound ==
  ASSUME ContainersInv, ArenaDeinit
  PROVE  ContainersInv'
<1>1. /\ heap' = allocator_free(arena.by, heap, arena.data) /\ arena' = NoArena
      /\ stored' = stored /\ UNCHANGED <<array, map, box, instances, program>>
  BY DEF ArenaDeinit
<1> DEFINE size == arena.cap * arena.size
           by == arena.by
           p == arena.data
           g == heap'
           R == BesideArena
<1>2. by \in Allocators /\ instances \in Nat
  BY ArenaHeldNow DEF ArenaHeader, HandlesOk
<1>3. Holding(heap, R \cup Block("arena", by, p, size)) /\ \A o \in R : o \notin Block("arena", by, p, size)
  BY ArenaHeldNow, OwnerIs DEF ArrayHeld, ArrayBlock, Block
<1>4. g = allocator_free(by, heap, p)
  BY <1>1
<1> HIDE DEF size, by, p, g, R
<1>5. Holding(g, R) /\ Kept(g, heap, R)
  BY <1>2, <1>3, <1>4, BlockFreed
<1>6. /\ arena' \in ArenaHeader /\ arena'.data = 0 /\ arena'.len = 0 /\ arena'.cap = 0
      /\ arena'.size = 8 /\ ~arena'.live
  BY <1>1 DEF NoArena, ArenaHeader, Allocators
<1> QED
  BY <1>1, <1>2, <1>5, <1>6, ArenaBegun DEF g, R

\* The handle h is issued for the value v at a place of the arena by.
IssuedMore(issued, h, by, place, v) ==
  {i \in issued : i.handle # h \/ i.by # by} \cup
  {[handle |-> h, by |-> by, place |-> place, value |-> v]}

\* One more element, and the handle that names it.
LEMMA HandlesMore ==
  ASSUME NEW n, NEW made, NEW issued, NEW V, NEW sn \in Seq(V), HandlesOk(n, made, issued, sn),
         n.live, n.len \in Nat, Len(sn) = n.len, n.len < ArenaSpan - 1, NEW v \in V,
         NEW new, new.size = 8, new.len = n.len + 1, new.live, new.origin = n.origin,
         NEW h, h = n.origin + n.len,
         NEW place, place = n.len + 1, NEW more, more = IssuedMore(issued, h, made, place, v),
         NEW t, t = sn \o <<v>>
  PROVE  HandlesOk(new, made, more, t)
<1> DEFINE one == [handle |-> h, by |-> made, place |-> place, value |-> v]
<1>1. made \in Nat /\ ArenaSpan \in Nat /\ n.len < ArenaSpan /\ n.origin = arena_origin(made)
  BY ContainerAssumption DEF HandlesOk
<1>2. arena_origin(made) \in Nat
  <2>1. made * ArenaSpan \in Nat
    BY <1>1, TimesNat
  <2> DEFINE product == made * ArenaSpan
  <2>2. arena_origin(made) = product + 1
    BY DEF arena_origin
  <2> HIDE DEF product
  <2> QED
    BY <2>1, <2>2 DEF product
<1>3. \A k \in 1 .. n.len : t[k] = sn[k]
  OBVIOUS
<1>4. t[n.len + 1] = v
  OBVIOUS
<1>5. /\ one.by = made /\ one.place = n.len + 1 /\ one.value = v /\ one.handle = h
  OBVIOUS
<1>6. more = {i \in issued : i.handle # h \/ i.by # made} \cup {one}
  BY DEF IssuedMore
<1> HIDE DEF one
<1>7. ASSUME NEW i \in more
      PROVE  /\ i.by \in Nat /\ i.by <= made /\ i.place \in Nat /\ 1 <= i.place /\ i.place < ArenaSpan
             /\ i.handle = arena_origin(i.by) + i.place - 1
             /\ i.by = made /\ i.place <= new.len => i.value = t[i.place]
  <2>1. CASE i = one
    <3>1. i.by = made /\ i.place = n.len + 1 /\ i.value = v /\ i.handle = h
      BY <1>5, <2>1
    <3>2. i.handle = arena_origin(i.by) + i.place - 1
      BY <1>1, <1>2, <3>1
    <3>3. i.value = t[i.place]
      BY <1>4, <3>1
    <3>4. i.place \in Nat /\ 1 <= i.place /\ i.place < ArenaSpan
      BY <1>1, <3>1
    <3>5. i.by \in Nat /\ i.by <= made
      BY <1>1, <3>1
    <3> QED
      BY <3>2, <3>3, <3>4, <3>5
  <2>2. CASE i \in issued /\ (i.handle # h \/ i.by # made)
    <3>1. /\ i.by \in Nat /\ i.by <= made /\ i.place \in Nat /\ 1 <= i.place /\ i.place < ArenaSpan
          /\ i.handle = arena_origin(i.by) + i.place - 1
          /\ i.by = made /\ i.place <= n.len => i.value = sn[i.place]
      BY <2>2 DEF HandlesOk
    <3>2. ASSUME i.by = made, i.place <= n.len + 1
          PROVE  i.value = t[i.place]
      <4>1. i.place # n.len + 1
        BY SMTT(30), <1>1, <1>2, <2>2, <3>1, <3>2
      <4>2. i.place \in 1 .. n.len
        BY <3>1, <3>2, <4>1
      <4>3. i.value = sn[i.place]
        BY <3>1, <3>2, <4>2
      <4> QED
        BY <1>3, <4>2, <4>3
    <3> QED
      BY <3>1, <3>2
  <2> QED
    BY <1>6, <2>1, <2>2
<1>8. new.len < ArenaSpan /\ new.live => new.origin = arena_origin(made)
  BY <1>1
<1>9. new.len < ArenaSpan
  BY <1>1
<1> QED
  BY <1>1, <1>7, <1>8, <1>9 DEF HandlesOk

\* Fewer elements: the handles above them resolve no more.
LEMMA HandlesFewer ==
  ASSUME NEW n, NEW made, NEW issued, NEW V, NEW sn \in Seq(V), HandlesOk(n, made, issued, sn),
         n.len \in Nat, Len(sn) = n.len, NEW c \in Nat, c <= n.len,
         NEW new, new.size = 8, new.len = c, new.live = n.live, new.origin = n.origin,
         NEW t, t = SubSeq(sn, 1, c)
  PROVE  HandlesOk(new, made, issued, t)
<1>1. ArenaSpan \in Nat /\ n.len < ArenaSpan
  BY ContainerAssumption DEF HandlesOk
<1>2. new.len < ArenaSpan
  BY <1>1
<1>3. \A k \in 1 .. c : t[k] = sn[k]
  OBVIOUS
<1>4. ASSUME new.live, NEW i \in issued, i.by = made, i.place <= c
      PROVE  i.value = t[i.place]
  <2>1. i.place \in Nat /\ 1 <= i.place
    BY DEF HandlesOk
  <2>2. i.place \in 1 .. c /\ i.place <= n.len
    BY <1>4, <2>1
  <2>3. i.value = sn[i.place]
    BY <1>4, <2>2 DEF HandlesOk
  <2> QED
    BY <1>3, <2>2, <2>3
<1> QED
  BY <1>2, <1>4 DEF HandlesOk

\* arena.add keeps the invariant.
LEMMA ArenaAddSound ==
  ASSUME ContainersInv, NEW v \in program.values, NEW grows \in BOOLEAN, ArenaAdd(v, grows)
  PROVE  ContainersInv'
<1>1. CASE ArenaFull(arena)
  BY <1>1, NothingChanged DEF ArenaAdd, Trap
<1>2. CASE ~ArenaFull(arena)
  <2> DEFINE V == program.values
             R == BesideArena
             sn == Contents(heap, arena)
             e == <<v>>
             n == arena.len + 1
             h == arena.origin + arena.len
             r == array_reserve(arena, heap, n, grows)
             new == arena'
             g == heap'
             u == sn \o e
             more == IssuedMore(stored.issued, h, instances, n, v)
  <2>1. /\ arena.live /\ r.ok /\ heap' = array_write(r.arr, r.h, e)
        /\ arena' = [r.arr EXCEPT !.len = @ + 1]
        /\ stored' = WithIssued(stored, more)
        /\ UNCHANGED <<array, map, box, instances, program>>
    BY <1>2 DEF ArenaAdd, WithIssued, IssuedMore
  <2>2. /\ ArrayHeld("arena", arena, heap, sn, V, R) /\ arena.len \in Nat /\ arena \in ArenaHeader
        /\ HandlesOk(arena, instances, stored.issued, sn) /\ sn \in Seq(V) /\ Len(sn) = arena.len
        /\ v \in V /\ arena.size = 8
    BY ArenaHeldNow DEF HandlesOk
  <2>3. arena.len < ArenaSpan - 1
    BY <1>2, <2>2, ContainerAssumption DEF ArenaFull
  <2> HIDE DEF V, R, sn
  <2>4. e \in Seq(V) /\ Len(e) = 1
    BY <2>2
  <2> HIDE DEF e, n, r
  <2>5. n \in Nat /\ n = arena.len + Len(e)
    BY <2>2, <2>4 DEF n
  <2>6. Roomy(r, "arena", arena, heap, sn, V, R, n)
    BY <2>2, <2>5, ReserveKeeps DEF r
  <2>7. r.arr.len = arena.len
    BY <2>6 DEF Roomy
  <2>8. new = LongerHeader(r.arr, n)
    BY <2>1, <2>7 DEF LongerHeader, n
  <2>9. g = array_write(r.arr, r.h, e) /\ r = array_reserve(arena, heap, n, grows)
    BY <2>1 DEF r
  <2> HIDE DEF new, g
  <2>10. Stored(new, g, "arena", arena, heap, sn \o e, V, R)
    BY <2>1, <2>2, <2>4, <2>5, <2>8, <2>9, PushHeld
  <2>11. Stored(new, g, "arena", arena, heap, u, V, R)
    BY <2>10
  <2>12. u = sn \o <<v>> /\ h = arena.origin + arena.len
    BY DEF e
  <2>13. more = IssuedMore(stored.issued, h, instances, n, v) /\ n = arena.len + 1
    BY DEF n
  <2> HIDE DEF u, more, h
  <2>14. /\ new \in ArenaHeader /\ new.live = arena.live /\ new.size = arena.size
         /\ new.origin = arena.origin /\ ArrayHeld("arena", new, g, u, V, R) /\ Kept(g, heap, R)
    BY <2>2, <2>11 DEF Stored, SameKind
  <2>15. Len(u) = arena.len + 1 /\ new.len = Len(u)
    <3>1. new.len = Len(u)
      BY <2>14 DEF ArrayHeld, SeqOk
    <3>2. Len(u) = Len(sn) + 1
      BY <2>2, <2>12
    <3> QED
      BY <2>2, <3>1, <3>2
  <2>16. HandlesOk(new, instances, more, u)
    BY ZenonT(30), <2>1, <2>2, <2>3, <2>12, <2>13, <2>14, <2>15, HandlesMore
  <2>17. /\ stored' = WithIssued(stored, more) /\ instances' = instances
         /\ UNCHANGED <<array, map, box, program>>
    BY <2>1
  <2> QED
    BY <2>1, <2>2, <2>14, <2>16, <2>17, ArenaDone DEF V, R, new, g
<1> QED
  BY <1>1, <1>2

\* arena.pop_or_panic keeps the invariant.
LEMMA ArenaPopSound ==
  ASSUME ContainersInv, ArenaPopOrPanic
  PROVE  ContainersInv'
<1>1. CASE arena.len = 0
  BY <1>1, NothingChanged DEF ArenaPopOrPanic, Trap
<1>2. CASE arena.len # 0
  <2> DEFINE V == program.values
             R == BesideArena
             sn == Contents(heap, arena)
             n == arena.len - 1
             new == arena'
             g == heap'
             u == SubSeq(sn, 1, n)
  <2>1. /\ arena.live /\ g = Truncated(arena, heap, n) /\ new = LongerHeader(arena, n)
        /\ stored' = stored /\ UNCHANGED <<array, map, box, instances, program>>
    BY <1>2 DEF ArenaPopOrPanic, LongerHeader
  <2>2. /\ ArrayHeld("arena", arena, heap, sn, V, R) /\ arena.len \in Nat /\ arena \in ArenaHeader
        /\ HandlesOk(arena, instances, stored.issued, sn) /\ sn \in Seq(V) /\ Len(sn) = arena.len
        /\ arena.size = 8
    BY ArenaHeldNow DEF HandlesOk
  <2>3. n \in Nat /\ n <= arena.len
    BY <1>2, <2>2
  <2> HIDE DEF V, R, sn, n, new, g
  <2>4. Stored(new, g, "arena", arena, heap, SubSeq(sn, 1, n), V, R)
    BY <2>1, <2>2, <2>3, TruncateHeld
  <2>5. Stored(new, g, "arena", arena, heap, u, V, R)
    BY <2>4
  <2>6. u = SubSeq(sn, 1, n)
    OBVIOUS
  <2> HIDE DEF u
  <2>7. /\ new \in ArenaHeader /\ new.live = arena.live /\ new.size = arena.size
        /\ new.origin = arena.origin /\ ArrayHeld("arena", new, g, u, V, R) /\ Kept(g, heap, R)
    BY <2>2, <2>5 DEF Stored, SameKind
  <2>8. new.len = n
    BY <2>2, <2>7, <2>6, <2>3 DEF ArrayHeld, SeqOk
  <2>9. HandlesOk(new, instances, stored.issued, u)
    BY <2>2, <2>3, <2>6, <2>7, <2>8, HandlesFewer
  <2>10. stored' = WithIssued(stored, stored.issued)
    BY <2>1, IssuedSame
  <2>11. instances' = instances /\ UNCHANGED <<array, map, box, program>>
    BY <2>1
  <2> QED
    BY <2>1, <2>2, <2>7, <2>9, <2>10, <2>11, ArenaDone DEF V, R, new, g
<1> QED
  BY <1>1, <1>2

\* Every operation of the arena keeps the invariant.
LEMMA ArenaStepKeeps ==
  ASSUME ContainersInv, ArenaStep
  PROVE  ContainersInv'
<1>1. ASSUME NEW i \in stored.issued, ArenaAt(i.handle) PROVE ContainersInv'
  BY <1>1, NothingChanged DEF ArenaAt, Trap
<1> QED
  BY <1>1, ArenaNewSound, ArenaAddSound, ArenaPopSound, ArenaDeinitSound DEF ArenaStep

-----------------------------------------------------------------------------
(* The box's operations                                                    *)

BesideBox == RestBox(array, arena, map, heap)

\* The box of a state of the program.
LEMMA BoxHeldNow ==
  ASSUME ContainersInv
  PROVE  /\ Holding(heap, BesideBox \cup BoxBlock(box)) /\ NoRole(BesideBox, "box")
         /\ BoxOk(box, heap, stored.box)
<1> DEFINE sa == stored.array
           sn == Contents(heap, arena)
           sm == stored.map
           sb == stored.box
           V == program.values
<1>1. World(array, arena, map, box, heap, sa, sn, sm, sb, V)
  BY DEF ContainersInv, Sound
<1>2. Holding(heap, AllBlocks(array, arena, map, box, heap)) /\ BoxOk(box, heap, sb)
  <2> HIDE DEF sa, sn, sm, sb, V
  <2> QED
    BY <1>1 DEF World
<1>3. AllBlocks(array, arena, map, box, heap) = BesideBox \cup BoxBlock(box)
  BY BlocksSplit DEF BesideBox
<1>4. NoRole(BesideBox, "box")
  BY RolesApart DEF BesideBox
<1> QED
  BY <1>2, <1>3, <1>4

\* A step of the box that leaves t in its cell.
LEMMA BoxDone ==
  ASSUME ContainersInv, NEW t, BoxOk(box', heap', t), Holding(heap', BesideBox \cup BoxBlock(box')),
         Kept(heap', heap, BesideBox), box'.live \/ box' = NoBox, stored' = WithBox(stored, t),
         UNCHANGED <<array, map, arena, instances, program>>
  PROVE  ContainersInv'
<1> DEFINE R == BesideBox
           new == box'
           g == heap'
           so == stored'
<1>1. /\ Sound(array, arena, map, box, heap, stored, instances, program)
      /\ R = RestBox(array, arena, map, heap)
      /\ BoxOk(new, g, t) /\ Holding(g, R \cup BoxBlock(new)) /\ Kept(g, heap, R)
      /\ new.live \/ new = NoBox
      /\ so = WithBox(stored, t)
  BY DEF ContainersInv, BesideBox
<1> HIDE DEF R, new, g, so
<1>2. Sound(array, arena, map, new, g, so, instances, program)
  BY <1>1, BoxStepSound
<1> QED
  BY <1>2 DEF ContainersInv, new, g, so

\* box.new keeps the invariant.
LEMMA BoxNewSound ==
  ASSUME ContainersInv, NEW a \in program.box, NEW v \in program.values, NEW grows \in BOOLEAN,
         BoxNew(a, v, grows)
  PROVE  ContainersInv'
<1> DEFINE cell == allocator_alloc(a, heap, 8, grows)
           R == BesideBox
           e == <<v>>
           o == Owner("box", a, cell.p, 8)
           f == cell.h
           g == heap'
           p == cell.p
<1>1. /\ ~box.live /\ p # 0 /\ heap' = Written(f, p, e)
      /\ box' = [live |-> TRUE, by |-> a, p |-> p]
      /\ stored' = WithBox(stored, e)
      /\ UNCHANGED <<array, map, arena, instances, program>>
  BY DEF BoxNew, WithBox, Written
<1>2. a \in Allocators /\ a \in {"page", "fixed", "user"}
  BY ProgramFacts DEF Allocators
<1>3. box = NoBox
  BY <1>1 DEF ContainersInv, Sound, Absent
<1>4. BoxBlock(box) = {}
  BY <1>3 DEF BoxBlock, Block, NoBox
<1>5. Holding(heap, R) /\ NoRole(R, "box")
  BY <1>4, BoxHeldNow
<1> HIDE DEF R, cell, e
<1>6. Got(cell, heap, R, "box", a, 8)
  <2>1. Granted(cell, heap, R, "box", a, 8)
    BY <1>2, <1>5, HeldAlloc DEF cell
  <2> QED
    BY <1>1, <1>5, <2>1, AllocKeeps
<1>7. Holding(f, R \cup {o}) /\ Kept(f, heap, R) /\ p \in Nat
  BY <1>6 DEF Got
<1>8. o.p = p /\ o.role = "box"
  BY DEF Owner
<1>9. o \in R \cup {o} /\ g = Written(f, o.p, e)
  BY <1>1, <1>8
<1>10. (R \cup {o}) \ {o} = R
  BY <1>5, <1>8 DEF NoRole
<1>11. BoxBlock(box') = {o} /\ box'.live /\ box' \in BoxHeader /\ box'.p = p
  BY <1>1, <1>2, <1>7 DEF BoxBlock, Block, BoxHeader
<1> HIDE DEF o, f, g, p
<1>12. Wrote(g, f, R \cup {o}, o, e)
  BY <1>7, <1>9, WriteKeeps
<1>13. Holding(g, R \cup {o}) /\ Kept(g, f, R) /\ g.data[p] = e
  BY <1>8, <1>10, <1>12 DEF Wrote
<1>14. Kept(g, heap, R)
  BY <1>7, <1>13, KeptAgain
<1>15. BoxOk(box', g, e)
  BY <1>1, <1>11, <1>13 DEF BoxOk
<1>16. Holding(g, R \cup BoxBlock(box'))
  BY <1>11, <1>13
<1> QED
  BY <1>1, <1>11, <1>14, <1>15, <1>16, BoxDone DEF g, R

\* box.take and box.deinit keep the invariant.
LEMMA BoxReleaseSound ==
  ASSUME ContainersInv, BoxRelease
  PROVE  ContainersInv'
<1>1. /\ heap' = allocator_free(box.by, heap, box.p) /\ box' = NoBox
      /\ stored' = WithBox(stored, <<>>) /\ UNCHANGED <<array, map, arena, instances, program>>
  BY DEF BoxRelease, WithBox
<1> DEFINE by == box.by
           p == box.p
           g == heap'
           R == BesideBox
           e == <<>>
<1>2. by \in Allocators
  BY BoxHeldNow DEF BoxOk, BoxHeader
<1>3. Holding(heap, R \cup Block("box", by, p, 8)) /\ \A o \in R : o \notin Block("box", by, p, 8)
  BY BoxHeldNow, OwnerIs DEF BoxBlock, Block, NoRole
<1>4. g = allocator_free(by, heap, p)
  BY <1>1
<1> HIDE DEF by, p, g, R
<1>5. Holding(g, R) /\ Kept(g, heap, R)
  BY <1>2, <1>3, <1>4, BlockFreed
<1>6. BoxOk(box', g, e) /\ BoxBlock(box') = {} /\ box' = NoBox
  BY <1>1 DEF NoBox, BoxOk, BoxHeader, BoxBlock, Block, Allocators
<1>7. Holding(g, R \cup BoxBlock(box'))
  BY <1>5, <1>6
<1>8. stored' = WithBox(stored, e)
  BY <1>1
<1> HIDE DEF e
<1> QED
  BY <1>1, <1>5, <1>6, <1>7, <1>8, BoxDone DEF g, R

\* Every operation of the box keeps the invariant.
LEMMA BoxStepKeeps ==
  ASSUME ContainersInv, BoxStep
  PROVE  ContainersInv'
BY BoxNewSound, BoxReleaseSound DEF BoxStep

-----------------------------------------------------------------------------
(* Every state of the runtime                                              *)

\* A program begins as the invariant says.
LEMMA ContainersInitially == Init => ContainersInv
<1> SUFFICES ASSUME Init PROVE ContainersInv
  OBVIOUS
<1> DEFINE e == <<>>
           V == program.values
<1>1. /\ heap = EmptyHeap /\ array = NoArray /\ map = NoMap /\ arena = NoArena /\ box = NoBox
      /\ instances = 0 /\ program \in Programs
      /\ stored = [array |-> e, map |-> e, issued |-> {}, box |-> e]
  BY DEF Init
<1>2. array \in ArrayHeader /\ arena \in ArenaHeader /\ map \in MapHeader
  BY <1>1 DEF NoArray, ArrayHeader, NoArena, ArenaHeader, NoMap, MapHeader, Allocators
<1>3. SeqOk(array, heap, e, V) /\ SeqOk(arena, heap, e, V)
  BY <1>1, <1>2 DEF SeqOk, Headers, NoArray, NoArena
<1>4. ArrayBlock("array", array) = {} /\ ArrayBlock("arena", arena) = {}
  BY <1>1 DEF ArrayBlock, Block, NoArray, NoArena
<1>5. MapOk(map, heap, e, V) /\ MapBlocks(map, heap) = {}
  BY <1>1, <1>2, EmptyMap DEF NoMap
<1>6. BoxOk(box, heap, e) /\ BoxBlock(box) = {}
  BY <1>1 DEF NoBox, BoxOk, BoxHeader, BoxBlock, Block, Allocators
<1>7. Contents(heap, arena) = e
  BY <1>1 DEF Contents, NoArena
<1>8. Holding(heap, AllBlocks(array, arena, map, box, heap))
  BY <1>1, <1>4, <1>5, <1>6, EmptyHeld DEF AllBlocks
<1>9. HandlesOk(arena, instances, {}, e)
  BY <1>1, ContainerAssumption DEF HandlesOk, NoArena
<1>10. Recorded(stored) /\ stored.array = e /\ stored.map = e /\ stored.issued = {} /\ stored.box = e
  BY <1>1 DEF Recorded
<1>11. Absent(array, arena, map, box, stored)
  BY <1>1, <1>10 DEF Absent
<1> HIDE DEF e
<1>12. World(array, arena, map, box, heap, stored.array, Contents(heap, arena), stored.map,
             stored.box, V)
  BY <1>3, <1>5, <1>6, <1>7, <1>8, <1>10 DEF World
<1> QED
  BY <1>1, <1>2, <1>7, <1>9, <1>10, <1>11, <1>12 DEF ContainersInv, Sound

\* Every operation of a program keeps the invariant.
LEMMA ContainersStep == ContainersInv /\ [Next]_vars => ContainersInv'
BY ArrayStepKeeps, MapStepKeeps, ArenaStepKeeps, BoxStepKeeps, NothingChanged DEF Next, vars

\* After every order of the containers' operations, granted or refused by the
\* allocators, the heap's blocks in use are the blocks of the containers, and
\* each block holds what its container was given.
THEOREM ContainersInvariance == Spec => []ContainersInv
BY ContainersInitially, ContainersStep, PTL DEF Spec

-----------------------------------------------------------------------------
(* The heap and its owners                                                 *)

\* An owner without its role.
Plain(o) == [by |-> o.by, p |-> o.p, size |-> o.size]

\* The blocks S are those of the heap, one each.
OneEach(h, S) ==
  LET paged == {o \in S : o.by # "fixed"}
      fixed == S \ paged
  IN  /\ {o.p - HeaderSize : o \in paged} = InUse(h)
      /\ Cardinality({o.p : o \in paged}) = Cardinality(paged)
      /\ \A o \in paged : o.size <= h.cap[o.p - HeaderSize]
      /\ \A o \in fixed : o.p + o.size <= FixedBase + h.used
      /\ \A o1, o2 \in fixed : o1 # o2 =>
            o1.p + o1.size <= o2.p \/ o2.p + o2.size <= o1.p
      /\ DOMAIN h.data = {o.p : o \in S}

\* No two owners share an address, so there are as many addresses as owners.
LEMMA HoldingCounts ==
  ASSUME NEW h, NEW O, Holding(h, O)
  PROVE  Cardinality({o.p : o \in Paged(O)}) = Cardinality({Plain(o) : o \in Paged(O)})
<1> DEFINE P == Paged(O)
           U == InUse(h)
           A == {o.p : o \in P}
           B == {Plain(o) : o \in P}
           who == [x \in U |-> CHOOSE o \in P : o.p - 8 = x]
           f == [x \in U |-> x + 8]
           g == [x \in U |-> Plain(who[x])]
<1>1. U = {o.p - 8 : o \in P} /\ \A o \in P : IsOwner(o) /\ o.p \in Nat /\ o.p - 8 \in Int
  BY DEF Holding, Paged, HeaderSize, IsOwner
<1>2. \A o, q \in P : o.p = q.p => o = q
  BY DEF Holding, Paged
<1>3. IsFiniteSet(U)
  <2>1. IsFiniteSet(DOMAIN h.cap)
    BY DEF Holding, Book, IsHeap
  <2> QED
    BY <2>1, FS_Subset DEF InUse
<1>4. \A x \in U : who[x] \in P /\ who[x].p - 8 = x /\ x \in Int
  BY <1>1
<1>5. \A o \in P : o.p - 8 \in U /\ who[o.p - 8] = o
  <2> SUFFICES ASSUME NEW o \in P PROVE o.p - 8 \in U /\ who[o.p - 8] = o
    OBVIOUS
  <2>1. o.p - 8 \in U
    BY <1>1
  <2>2. who[o.p - 8] \in P /\ who[o.p - 8].p - 8 = o.p - 8
    BY <1>4, <2>1
  <2>3. who[o.p - 8].p = o.p
    <3> HIDE DEF who
    <3>1. who[o.p - 8].p \in Nat /\ o.p \in Nat
      BY <1>1, <2>2
    <3> QED
      BY <2>2, <3>1
  <2> QED
    BY <1>2, <2>1, <2>2, <2>3
<1> HIDE DEF who
<1>6. Cardinality(A) = Cardinality(U)
  <2>1. f \in [U -> A]
    <3> SUFFICES ASSUME NEW x \in U PROVE x + 8 \in A
      OBVIOUS
    <3>1. who[x] \in P /\ who[x].p \in Nat /\ who[x].p - 8 = x
      BY <1>1, <1>4
    <3>2. who[x].p = x + 8
      BY <3>1
    <3> QED
      BY <3>1, <3>2
  <2>2. \A t \in A : \E x \in U : f[x] = t
    <3> SUFFICES ASSUME NEW o \in P PROVE \E x \in U : f[x] = o.p
      OBVIOUS
    <3>1. o.p - 8 \in U /\ o.p \in Nat
      BY <1>1, <1>5
    <3> DEFINE x == o.p - 8
    <3>2. x + 8 = o.p
      BY <3>1
    <3>3. f[x] = o.p
      BY <3>1, <3>2
    <3> QED
      BY <3>1, <3>3
  <2>3. \A x, y \in U : f[x] = f[y] => x = y
    BY <1>4
  <2> HIDE DEF f, A, U
  <2> QED
    BY <1>3, <2>1, <2>2, <2>3, SameCount
<1>7. Cardinality(B) = Cardinality(U)
  <2>1. g \in [U -> B]
    BY <1>4
  <2>2. \A t \in B : \E x \in U : g[x] = t
    BY <1>5
  <2>3. \A x, y \in U : g[x] = g[y] => x = y
    <3> SUFFICES ASSUME NEW x \in U, NEW y \in U, Plain(who[x]) = Plain(who[y]) PROVE x = y
      OBVIOUS
    <3>1. who[x].p = who[y].p
      BY DEF Plain
    <3>2. who[x].p - 8 = x /\ who[y].p - 8 = y
      BY <1>4
    <3> QED
      BY <3>1, <3>2
  <2> HIDE DEF g, B, U
  <2> QED
    BY <1>3, <2>1, <2>2, <2>3, SameCount
<1> QED
  BY <1>6, <1>7

\* Blocks that are held are one owner's each.
LEMMA HoldingOneEach ==
  ASSUME NEW h, NEW O, Holding(h, O), NEW S, S = {Plain(o) : o \in O}
  PROVE  OneEach(h, S)
<1> DEFINE paged == {o \in S : o.by # "fixed"}
           fixed == S \ paged
           P == Paged(O)
<1>1. \A o \in O : Plain(o).p = o.p /\ Plain(o).by = o.by /\ Plain(o).size = o.size
  BY DEF Plain
<1>2. \A x \in S : \E o \in O : x = Plain(o)
  OBVIOUS
<1>3. \A o \in O : Plain(o) \in S
  OBVIOUS
<1>4. paged = {Plain(o) : o \in P}
  BY <1>1 DEF Paged
<1>5. {o.p : o \in paged} = {o.p : o \in P}
  BY <1>1, <1>4 DEF Paged
<1>6. {o.p - HeaderSize : o \in paged} = {o.p - HeaderSize : o \in P}
  BY <1>1, <1>4 DEF Paged
<1>7. {o.p : o \in S} = {o.p : o \in O}
  BY <1>1
<1>8. Cardinality({o.p : o \in paged}) = Cardinality(paged)
  BY <1>4, <1>5, HoldingCounts
<1>9. \A x \in paged : \E o \in P : x.p = o.p /\ x.size = o.size
  BY <1>1, <1>4 DEF Paged
<1>10. \A x \in fixed : \E o \in O : o.by = "fixed" /\ x = Plain(o) /\ x.p = o.p /\ x.size = o.size
  BY <1>1
<1> HIDE DEF paged, fixed, P
<1>11. \A o \in paged : o.size <= h.cap[o.p - HeaderSize]
  BY <1>9 DEF Holding, P
<1>12. \A o \in fixed : o.p + o.size <= FixedBase + h.used
  BY <1>10 DEF Holding
<1>13. ASSUME NEW o1 \in fixed, NEW o2 \in fixed, o1 # o2
       PROVE  o1.p + o1.size <= o2.p \/ o2.p + o2.size <= o1.p
  <2>1. PICK a \in O : a.by = "fixed" /\ o1 = Plain(a) /\ o1.p = a.p /\ o1.size = a.size
    BY <1>10
  <2>2. PICK b \in O : b.by = "fixed" /\ o2 = Plain(b) /\ o2.p = b.p /\ o2.size = b.size
    BY <1>10
  <2>3. a # b
    BY <1>13, <2>1, <2>2
  <2> QED
    BY <2>1, <2>2, <2>3 DEF Holding
<1>14. DOMAIN h.data = {o.p : o \in S}
  BY <1>7 DEF Holding
<1>15. {o.p - HeaderSize : o \in paged} = InUse(h)
  BY <1>6 DEF Holding, P
<1> QED
  BY <1>8, <1>11, <1>12, <1>13, <1>14, <1>15 DEF OneEach, paged, fixed

Bare(by, p, size) == [by |-> by, p |-> p, size |-> size]

Plains(B) == {Plain(o) : o \in B}
Shown(by, p, size) == IF p = 0 THEN {} ELSE {Bare(by, p, size)}

\* A container's block without its role.
LEMMA PlainBlock ==
  ASSUME NEW role, NEW by, NEW p, NEW size, NEW B, B = Block(role, by, p, size)
  PROVE  Plains(B) = Shown(by, p, size)
<1>1. Plain(Owner(role, by, p, size)) = Bare(by, p, size)
  BY OwnerIs DEF Plain, Bare
<1>2. CASE p = 0
  BY <1>2 DEF Block, Plains, Shown
<1>3. CASE p # 0
  <2>1. B = {Owner(role, by, p, size)}
    BY <1>3 DEF Block
  <2> QED
    BY <1>1, <1>3, <2>1 DEF Plains, Shown
<1> QED
  BY <1>2, <1>3

\* The blocks a run of the model counts are those of the proof, without roles.
LEMMA OwnedIs ==
  ASSUME ContainersInv
  PROVE  Owned = {Plain(o) : o \in AllBlocks(array, arena, map, box, heap)}
<1> DEFINE ents == Entries(heap, map)
           K == KeyBlocks(map, ents)
           asize == array.cap * array.size
           nsize == arena.cap * arena.size
           esize == map.cap * mapEntrySize
           isize == map.icap * 5
           A == ArrayBlock("array", array)
           N == ArrayBlock("arena", arena)
           E == EntriesBlock(map)
           I == IndexBlock(map)
           X == BoxBlock(box)
<1>1. {Plain(o) : o \in K} = KeyCopies
  <2> DEFINE J == {j \in 1 .. Len(ents) : ents[j].len > 8}
  <2>1. DOMAIN ents = 1 .. Len(ents)
    BY MapHeldNow DEF MapOk
  <2>2. {x \in Range(ents) : x.len > 8} = {ents[j] : j \in J}
    BY <2>1, RangeIs
  <2>3. \A j : Plain(KeyBlock(map, ents[j])) = Bare(map.by, ents[j].key, ents[j].len)
    BY OwnerIs DEF Plain, KeyBlock, Bare
  <2>4. KeyCopies = {Bare(map.by, e.key, e.len) : e \in {ents[j] : j \in J}}
    BY <2>2 DEF KeyCopies, Bare
  <2>5. K = {KeyBlock(map, ents[j]) : j \in J}
    BY DEF KeyBlocks
  <2> HIDE DEF J, ents, K
  <2> QED
    BY <2>3, <2>4, <2>5
<1>2. \A r \in KeyCopies : r.p # 0
  <2>1. \A o \in K : IsOwner(o)
    BY MapHeldNow DEF MapHeld, Holding, MapBlocks
  <2>2. \A o \in K : Plain(o).p # 0
    BY <2>1 DEF IsOwner, Plain
  <2> QED
    BY <1>1, <2>2
<1>3. /\ Plains(A) = Shown(array.by, array.data, asize)
      /\ Plains(N) = Shown(arena.by, arena.data, nsize)
      /\ Plains(E) = Shown(map.by, map.entries, esize)
      /\ Plains(I) = Shown(map.by, map.index, isize)
      /\ Plains(X) = Shown(box.by, box.p, 8)
  <2>1. /\ A = Block("array", array.by, array.data, asize)
        /\ N = Block("arena", arena.by, arena.data, nsize)
        /\ E = Block("entries", map.by, map.entries, esize)
        /\ I = Block("index", map.by, map.index, isize)
        /\ X = Block("box", box.by, box.p, 8)
    BY DEF ArrayBlock, EntriesBlock, IndexBlock, BoxBlock
  <2> HIDE DEF A, N, E, I, X, asize, nsize, esize, isize
  <2>2. Plains(A) = Shown(array.by, array.data, asize)
    BY <2>1, PlainBlock
  <2>3. Plains(N) = Shown(arena.by, arena.data, nsize)
    BY <2>1, PlainBlock
  <2>4. Plains(E) = Shown(map.by, map.entries, esize)
    BY <2>1, PlainBlock
  <2>5. Plains(I) = Shown(map.by, map.index, isize)
    BY <2>1, PlainBlock
  <2>6. Plains(X) = Shown(box.by, box.p, 8)
    BY <2>1, PlainBlock
  <2> QED
    BY <2>2, <2>3, <2>4, <2>5, <2>6
<1>4. AllBlocks(array, arena, map, box, heap) = ((A \cup N) \cup ((E \cup I) \cup K)) \cup X
  BY DEF AllBlocks, MapBlocks
<1>5. {Plain(o) : o \in ((A \cup N) \cup ((E \cup I) \cup K)) \cup X} =
        (({Plain(o) : o \in A} \cup {Plain(o) : o \in N}) \cup
         (({Plain(o) : o \in E} \cup {Plain(o) : o \in I}) \cup {Plain(o) : o \in K})) \cup
        {Plain(o) : o \in X}
  <2> HIDE DEF A, N, E, I, K, X
  <2> QED
    OBVIOUS
<1>6. \A by, p, size : Bare(by, p, size).p = p
  BY DEF Bare
<1>7. Owned = {o \in {Bare(array.by, array.data, asize), Bare(arena.by, arena.data, nsize),
                      Bare(map.by, map.entries, esize), Bare(map.by, map.index, isize),
                      Bare(box.by, box.p, 8)} \cup KeyCopies : o.p # 0}
  BY DEF Owned, Bare
<1>8. Owned = ((Shown(array.by, array.data, asize) \cup Shown(arena.by, arena.data, nsize)) \cup
               ((Shown(map.by, map.entries, esize) \cup Shown(map.by, map.index, isize)) \cup
                KeyCopies)) \cup Shown(box.by, box.p, 8)
  <2> HIDE DEF asize, nsize, esize, isize
  <2> QED
    BY <1>2, <1>6, <1>7 DEF Shown
<1> HIDE DEF A, N, E, I, K, X
<1> QED
  BY <1>1, <1>3, <1>4, <1>5, <1>8 DEF Plains

\* Through any order of allocations, growth in place or by moving, and releases,
\* page_alloc and page_free keep the blocks of the heap tiled and the free list
\* in order and coalesced, and every block in use has its one owner: no block is
\* leaked and none is handed out twice, also when an allocation in the middle of
\* an insertion is refused.
THEOREM TheHeapIsSound == Spec => []HeapSound
<1>1. ContainersInv => HeapSound
  <2> SUFFICES ASSUME ContainersInv PROVE HeapSound
    OBVIOUS
  <2> DEFINE O == AllBlocks(array, arena, map, box, heap)
  <2>1. Holding(heap, O)
    BY DEF ContainersInv, Sound, World
  <2>2. Book(heap)
    BY <2>1 DEF Holding
  <2>3. Owned = {Plain(o) : o \in O}
    BY OwnedIs
  <2> HIDE DEF O
  <2>4. OneEach(heap, Owned)
    BY <2>1, <2>3, HoldingOneEach
  <2>5. OneOwner
    BY <2>4 DEF OneOwner, OneEach
  <2> QED
    BY <2>2, <2>5, BookTiles DEF HeapSound
<1> QED
  BY <1>1, ContainersInvariance, PTL

\* An array and a box hold what was put into them, whether Array's storage
\* stayed, grew in place or was copied by the reallocation.
THEOREM TheArrayHolds == Spec => []ArrayHolds
<1>1. ContainersInv => ArrayHolds
  <2> SUFFICES ASSUME ContainersInv PROVE ArrayHolds
    OBVIOUS
  <2>1. SeqOk(array, heap, stored.array, program.values)
    BY ArrayHeldNow DEF ArrayHeld
  <2>2. array.len = Len(stored.array) /\ array.len <= array.cap
    BY <2>1 DEF SeqOk
  <2>3. array.size # 0 => Contents(heap, array) = stored.array
    BY <2>1, ContentsAre
  <2>4. box.live => heap.data[box.p] = stored.box
    BY BoxHeldNow DEF BoxOk
  <2> QED
    BY <2>2, <2>3, <2>4 DEF ArrayHolds
<1> QED
  BY <1>1, ContainersInvariance, PTL

\* Every lookup of the map, by groups of control bytes or slot by slot, finds
\* exactly the keys inserted and not removed, with the values they were last
\* given, and the entries are in the order of the insertions.
THEOREM TheMapHolds == Spec => []MapHolds
<1>1. ContainersInv => MapHolds
  <2> SUFFICES ASSUME ContainersInv PROVE MapHolds
    OBVIOUS
  <2> DEFINE st == stored.map
             V == program.values
  <2>1. MapOk(map, heap, st, V)
    BY MapHeldNow
  <2> HIDE DEF st, V
  <2>2. map.len = Len(st) /\ \A i \in 1 .. map.len : Entries(heap, map)[i].value = st[i].value
    BY <2>1 DEF MapOk
  <2>3. \A i \in 1 .. map.len : map_key_at(heap, map, i) = st[i].key
    BY <2>1, KeyAtIs
  <2>4. \A k \in Keys : map_get(heap, map, k) = Answer(st, k)
    BY <2>1, GetIs
  <2>5. \A k \in {x \in Keys : map.words => KeyLen[x] = 8} : k \in Keys
    OBVIOUS
  <2> QED
    BY <2>2, <2>3, <2>4, <2>5 DEF MapHolds, Answer, st
<1> QED
  BY <1>1, ContainersInvariance, PTL

\* arena.at resolves a handle only in the arena that issued it and while its
\* element is there, and then to the value last stored under it, although the
\* handles of arenas that are gone are still about.
THEOREM TheHandlesResolve == Spec => []HandlesResolve
<1>1. ContainersInv => HandlesResolve
  <2> SUFFICES ASSUME ContainersInv, arena.live, NEW i \in stored.issued
               PROVE  arena_at(heap, arena, i.handle) =
                        IF i.by = instances /\ i.place <= arena.len THEN <<i.value>> ELSE <<>>
    BY DEF HandlesResolve
  <2> DEFINE sn == Contents(heap, arena)
  <2>1. /\ HandlesOk(arena, instances, stored.issued, sn)
        /\ arena.len \in Nat /\ Len(sn) = arena.len
        /\ SeqOk(arena, heap, sn, program.values)
    BY ArenaHeldNow DEF ArrayHeld
  <2> HIDE DEF sn
  <2>2. /\ instances \in Nat /\ arena.size = 8 /\ arena.origin = arena_origin(instances)
        /\ arena.len < ArenaSpan /\ ArenaSpan \in Nat
        /\ i.by \in Nat /\ i.by <= instances /\ i.place \in Nat /\ 1 <= i.place /\ i.place < ArenaSpan
        /\ i.handle = arena_origin(i.by) + i.place - 1
        /\ i.by = instances /\ i.place <= arena.len => i.value = sn[i.place]
    BY <2>1, ContainerAssumption DEF HandlesOk
  <2> DEFINE low == i.by * ArenaSpan
             high == instances * ArenaSpan
  <2>3. low \in Nat /\ high \in Nat /\ i.handle = low + i.place /\ arena.origin = high + 1
    <3>1. low \in Nat /\ high \in Nat
      BY <2>2, TimesNat
    <3>2. arena_origin(i.by) = low + 1 /\ arena_origin(instances) = high + 1
      BY DEF arena_origin
    <3> HIDE DEF low, high
    <3> QED
      BY <2>2, <3>1, <3>2
  <2>4. CASE i.by = instances
    <3>1. i.handle = high + i.place
      BY <2>3, <2>4
    <3> HIDE DEF low, high
    <3>2. i.handle >= arena.origin /\ i.handle - arena.origin + 1 = i.place
          /\ (i.handle - arena.origin < arena.len <=> i.place <= arena.len)
      BY SMTT(30), <2>1, <2>2, <2>3, <3>1
    <3>3. CASE i.place <= arena.len
      <4>1. arena.len # 0
        BY <2>1, <2>2, <3>3
      <4>2. arena.data # 0
        BY <2>1, <2>2, <4>1, ContentsAre
      <4>3. heap.data[arena.data] = sn
        BY <2>1, <4>2 DEF SeqOk
      <4> QED
        BY <2>2, <2>4, <3>2, <3>3, <4>3 DEF arena_at
    <3>4. CASE ~(i.place <= arena.len)
      BY <2>4, <3>2, <3>4 DEF arena_at
    <3> QED
      BY <3>3, <3>4
  <2>5. CASE i.by # instances
    <3>1. i.by < instances
      BY <2>2, <2>5
    <3>2. low + i.place < high + 1
      <4>1. i.by + 1 <= instances
        BY <2>2, <3>1
      <4>2. (i.by + 1) * ArenaSpan <= high
        BY <2>2, <4>1, TimesUp
      <4>3. (i.by + 1) * ArenaSpan = low + ArenaSpan
        BY <2>2
      <4> HIDE DEF low, high
      <4> QED
        BY <2>2, <2>3, <4>2, <4>3
    <3> HIDE DEF low, high
    <3>3. ~(i.handle >= arena.origin)
      BY <2>2, <2>3, <3>2
    <3> QED
      BY <2>5, <3>3 DEF arena_at
  <2> QED
    BY <2>4, <2>5
<1> QED
  BY <1>1, ContainersInvariance, PTL

=============================================================================
