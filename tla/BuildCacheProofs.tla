-------------------------- MODULE BuildCacheProofs --------------------------
(***************************************************************************)
(* Proofs about BuildCache, for any processes, keys, sizes and limit.      *)
(***************************************************************************)
EXTENDS BuildCache, FiniteSetTheorems, WellFoundedInduction, TLAPS

USE DEF At, Goto, End, files, making, writing, listing

TypedInv == TypeOK /\ CallInv /\ StampInv

\* Every step keeps the types: the scratch files a killed process leaves can be
\* counted, and a listing holds entries of keys, each with its time.
LEMMA CacheTypeStep == TypedInv /\ [Next]_vars => TypedInv'
<1> SUFFICES ASSUME TypedInv, [Next]_vars PROVE TypedInv'
  OBVIOUS
<1> USE KeysAssumption, LimitsAssumption
    DEF TypedInv, TypeOK, CallInv, StampInv, Calling, Sweeping, Entry, Then, CreatedAt,
        Remove, Removal
<1>1. CASE UNCHANGED vars
  BY <1>1 DEF vars
<1>2. ASSUME NEW p \in Procs, Ask(p) \/ Look(p) \/ Stat(p) PROVE TypedInv'
  BY <1>2 DEF Ask, Look, Stat
<1>3. ASSUME NEW p \in Procs, CreateTemp(p) PROVE TypedInv'
  <2>1. TypeOK'
    BY <1>3 DEF CreateTemp
  <2>2. CallInv'
    BY <1>3 DEF CreateTemp
  <2>3. StampInv'
    BY <1>3 DEF CreateTemp
  <2> QED
    BY <2>1, <2>2, <2>3
<1>4. ASSUME NEW p \in Procs, Compile(p) PROVE TypedInv'
  <2>1. TypeOK'
    BY <1>4 DEF Compile
  <2>2. CallInv'
    BY <1>4 DEF Compile
  <2>3. StampInv'
    BY <1>4 DEF Compile
  <2> QED
    BY <2>1, <2>2, <2>3
<1>5. ASSUME NEW p \in Procs, AskRuntime(p) PROVE TypedInv'
  <2>1. TypeOK'
    BY <1>5 DEF AskRuntime, Keys
  <2>2. CallInv'
    BY <1>5 DEF AskRuntime, Keys
  <2>3. StampInv'
    BY <1>5 DEF AskRuntime, Keys
  <2> QED
    BY <2>1, <2>2, <2>3
<1>6. ASSUME NEW p \in Procs, Link(p) PROVE TypedInv'
  <2>1. TypeOK'
    <3>1. CASE goal[p] \in stored
      BY SMTT(30), <1>6, <3>1 DEF Link, Keys
    <3>2. CASE goal[p] \notin stored
      <4>1. End(p) /\ UNCHANGED <<entry, born, stored, litter, now, faults>>
        BY <1>6, <3>2 DEF Link
      <4> QED
        BY <4>1
    <3> QED
      BY <3>1, <3>2
  <2>2. CallInv'
    BY <1>6 DEF Link, Keys
  <2>3. StampInv'
    BY <1>6 DEF Link, Keys
  <2> QED
    BY <2>1, <2>2, <2>3
<1>7. ASSUME NEW p \in Procs, Use(p) PROVE TypedInv'
  <2>1. TypeOK'
    BY <1>7 DEF Use
  <2>2. CallInv'
    BY <1>7 DEF Use
  <2>3. StampInv'
    BY <1>7 DEF Use
  <2> QED
    BY <2>1, <2>2, <2>3
<1>8. ASSUME NEW p \in Procs, Place(p) PROVE TypedInv'
  <2>1. TypeOK'
    BY <1>8 DEF Place
  <2>2. CallInv'
    BY <1>8 DEF Place
  <2>3. StampInv'
    BY <1>8 DEF Place
  <2> QED
    BY <2>1, <2>2, <2>3
<1>9. ASSUME NEW p \in Procs, OpenEntry(p) PROVE TypedInv'
  <2>1. TypeOK'
    BY <1>9 DEF OpenEntry
  <2>2. CallInv'
    BY <1>9 DEF OpenEntry
  <2>3. StampInv'
    BY <1>9 DEF OpenEntry
  <2> QED
    BY <2>1, <2>2, <2>3
<1>10. ASSUME NEW p \in Procs, WriteEntry(p) PROVE TypedInv'
  <2>1. TypeOK'
    BY SMTT(30), <1>10 DEF WriteEntry
  <2>2. CallInv'
    BY <1>10 DEF WriteEntry
  <2>3. StampInv'
    BY <1>10 DEF WriteEntry
  <2> QED
    BY <2>1, <2>2, <2>3
<1>11. ASSUME NEW p \in Procs, Prune(p) \/ Glob(p) \/ EndList(p) PROVE TypedInv'
  BY <1>11 DEF Prune, Glob, EndList
<1>12. ASSUME NEW p \in Procs, ReadEntry(p) PROVE TypedInv'
  <2>1. TypeOK'
    BY <1>12 DEF ReadEntry
  <2>2. CallInv'
    BY <1>12 DEF ReadEntry
  <2>3. StampInv'
    BY <1>12 DEF ReadEntry
  <2> QED
    BY <2>1, <2>2, <2>3
<1>13. ASSUME NEW p \in Procs, Evict(p) PROVE TypedInv'
  <2>1. TypeOK'
    <3> DEFINE k == Victim(p).key
    <3>1. \A q \in Procs : (linked[q] /\ goal[q] # k) \in BOOLEAN
      BY Zenon
    <3>2. linked' = [q \in Procs |-> linked[q] /\ goal[q] # k]
      BY <1>13 DEF Evict
    <3>3. linked' \in [Procs -> BOOLEAN]
      BY <3>1, <3>2, Zenon
    <3> QED
      BY <1>13, <3>3 DEF Evict
  <2>2. CallInv'
    BY <1>13 DEF Evict
  <2>3. StampInv'
    BY <1>13 DEF Evict
  <2> QED
    BY <2>1, <2>2, <2>3
<1>14. ASSUME NEW p \in Procs, Unlink(p) PROVE TypedInv'
  <2>1. TypeOK'
    BY <1>14 DEF Unlink
  <2>2. CallInv'
    BY <1>14 DEF Unlink
  <2>3. StampInv'
    BY <1>14 DEF Unlink
  <2> QED
    BY <2>1, <2>2, <2>3
<1>15. ASSUME NEW p \in Procs, EndEvict(p) \/ EndPrune(p) PROVE TypedInv'
  <2>1. CASE EndEvict(p)
    <3>1. TypeOK'
      BY <2>1 DEF EndEvict
    <3>2. CallInv' /\ StampInv'
      BY <2>1 DEF EndEvict
    <3> QED
      BY <3>1, <3>2
  <2>2. CASE EndPrune(p)
    BY <2>2 DEF EndPrune
  <2> QED
    BY <1>15, <2>1, <2>2
<1>16. ASSUME NEW p \in Procs, Fail(p) PROVE TypedInv'
  <2>1. TypeOK'
    BY <1>16 DEF Fail
  <2>2. CallInv'
    BY <1>16 DEF Fail
  <2>3. StampInv'
    BY <1>16 DEF Fail
  <2> QED
    BY <2>1, <2>2, <2>3
<1>17. ASSUME NEW p \in Procs, Kill(p) PROVE TypedInv'
  <2>1. Cardinality(scratch[p]) \in Nat
    BY FS_Subset, FS_CardinalityType
  <2> QED
    BY <1>17, <2>1 DEF Kill
<1> QED
  BY <1>1, <1>2, <1>3, <1>4, <1>5, <1>6, <1>7, <1>8, <1>9, <1>10, <1>11, <1>12, <1>13, <1>14, <1>15, <1>16, <1>17 DEF Next, Get, Sweep

\* Every step leaves each artifact recorded or owed: a removal of its entry is
\* followed by the same process's removal of the artifact, and a rename by the
\* same process's entry.
LEMMA OwedStep == TypedInv /\ OwedInv /\ [Next]_vars => OwedInv'
<1> SUFFICES ASSUME TypedInv, OwedInv, [Next]_vars, faults' = 0,
                    NEW k \in stored', entry'[k] = "none"
             PROVE  \E p \in Procs : Owes(p, k)'
  BY DEF OwedInv
<1> USE DEF TypedInv, TypeOK, CallInv, Calling, Sweeping, Then
<1> DEFINE Kept(q) == /\ pc'[q] = pc[q] /\ goal'[q] = goal[q]
                      /\ why'[q] = why[q] /\ seen'[q] = seen[q]
<1>1. ASSUME NEW q \in Procs, Kept(q), Owes(q, k) PROVE Owes(q, k)'
  BY <1>1 DEF Owes, Victim
<1>2. ASSUME k \in stored, entry[k] = "none", faults = 0,
             \A q \in Procs : Owes(q, k) => Kept(q)
      PROVE  \E p \in Procs : Owes(p, k)'
  BY <1>1, <1>2 DEF OwedInv
<1>3. CASE UNCHANGED vars
  BY <1>2, <1>3 DEF vars
<1>4. ASSUME NEW p \in Procs,
             Ask(p) \/ Look(p) \/ Stat(p) \/ CreateTemp(p) \/ Compile(p) \/ AskRuntime(p)
             \/ Link(p) \/ Use(p)
      PROVE  \E q \in Procs : Owes(q, k)'
  BY <1>2, <1>4 DEF Ask, Look, Stat, CreateTemp, Compile, AskRuntime, Link, Use, Owes
<1>5. ASSUME NEW p \in Procs, Place(p) PROVE \E q \in Procs : Owes(q, k)'
  <2>1. CASE k = goal[p]
    BY <1>5, <2>1 DEF Place, Owes
  <2>2. CASE k # goal[p]
    BY <1>2, <1>5, <2>2 DEF Place, Owes
  <2> QED
    BY <2>1, <2>2
<1>6. ASSUME NEW p \in Procs, OpenEntry(p) \/ WriteEntry(p)
      PROVE  \E q \in Procs : Owes(q, k)'
  BY <1>2, <1>6 DEF OpenEntry, WriteEntry, Owes
<1>7. ASSUME NEW p \in Procs, Prune(p) \/ Glob(p) \/ ReadEntry(p) \/ EndList(p)
                              \/ EndEvict(p) \/ EndPrune(p)
      PROVE  \E q \in Procs : Owes(q, k)'
  BY <1>2, <1>7 DEF Prune, Glob, ReadEntry, EndList, EndEvict, EndPrune, Owes
<1>8. ASSUME NEW p \in Procs, Evict(p) PROVE \E q \in Procs : Owes(q, k)'
  <2>1. CASE k = Victim(p).key
    BY <1>8, <2>1 DEF Evict, Owes, Victim
  <2>2. CASE k # Victim(p).key
    BY <1>2, <1>8, <2>2 DEF Evict, Remove, Removal, Owes
  <2> QED
    BY <2>1, <2>2
<1>9. ASSUME NEW p \in Procs, Unlink(p) PROVE \E q \in Procs : Owes(q, k)'
  <2>1. k \in stored /\ k # Victim(p).key /\ entry[k] = "none" /\ faults = 0
    BY <1>9 DEF Unlink, Remove, Removal
  <2>2. ~Owes(p, k)
    BY <1>9, <2>1 DEF Unlink, Owes
  <2> QED
    BY <1>2, <1>9, <2>1, <2>2 DEF Unlink
<1>10. ASSUME NEW p \in Procs, Fail(p) \/ Kill(p) PROVE FALSE
  BY <1>10 DEF Fail, Kill
<1> QED
  BY <1>3, <1>4, <1>5, <1>6, <1>7, <1>8, <1>9, <1>10 DEF Next, Get, Sweep

\* The cache begins as the invariant says.
LEMMA CacheInit == Init => CacheInv
  BY KeysAssumption, LimitsAssumption
  DEF Init, CacheInv, TypeOK, CallInv, StampInv, OwedInv, Calling, Sweeping

\* The inductive invariant holds in every reachable state.
THEOREM CacheInvariance == Spec => []CacheInv
<1>1. CacheInv /\ [Next]_vars => CacheInv'
  BY CacheTypeStep, OwedStep DEF CacheInv, TypedInv
<1> QED
  BY <1>1, CacheInit, PTL DEF Spec

\* TypeOK holds in every behaviour of the cache.
THEOREM CacheTypeCorrect == Spec => []TypeOK
  BY CacheInvariance, PTL DEF CacheInv

\* NoOrphan: while no call has failed and no process was killed, every artifact
\* in the directory is accounted for whenever no process is at work, for any
\* number of processes building, evicting and pruning the same keys.
THEOREM NothingOrphaned == Spec => []NoOrphan
<1>1. CacheInv => NoOrphan
  BY DEF CacheInv, OwedInv, NoOrphan, Owes, Quiet
<1> QED
  BY <1>1, CacheInvariance, PTL

-----------------------------------------------------------------------------
(* The size of a listing                                                   *)

\* The provers cannot be given the property of an induction theorem, so an
\* induction is an argument about the least number that something fails for.
LEMMA Least ==
  ASSUME NEW T, T \subseteq Nat, T # {}
  PROVE  \E x \in T : \A y \in T : x <= y
<1> DEFINE R == OpToRel(<, Nat)
<1>1. IsWellFoundedOn(R, Nat)
  BY NatLessThanWellFounded
<1>2. \A x, y \in Nat : x < y => <<x, y>> \in R
  BY DEF OpToRel
<1> HIDE DEF R
<1>3. PICK x \in T : \A y \in T : <<y, x>> \notin R
  BY <1>1, WFMin
<1>4. x \in Nat /\ \A y \in T : y \in Nat /\ ~(y < x)
  BY <1>2, <1>3
<1>5. \A y \in T : x <= y
  BY <1>4
<1> QED
  BY <1>5

\* The entry that a sum takes out of es, and what it adds up from there.
Picked(es) == CHOOSE e \in es : TRUE

Sums(f, es) ==
  f = [s \in SUBSET es |-> IF s = {} THEN 0 ELSE Size[Picked(s).key] + f[s \ {Picked(s)}]]

\* The bytes of entries are a function that adds them up.
LEMMA BytesIs == \A es : Bytes(es) = (CHOOSE f : Sums(f, es))[es]
  BY DEF Bytes, MapThenSumSet, MapThenFoldSet, Sums, Picked

\* What a sum is, and that one over a larger set gives the same.
Summed(es) ==
  /\ Bytes(es) = IF es = {} THEN 0 ELSE Size[Picked(es).key] + Bytes(es \ {Picked(es)})
  /\ \A f, ds : es \subseteq ds /\ Sums(f, ds) => f[es] = Bytes(es)

\* When smaller sets have a sum, so has this one.
LEMMA SummedStep ==
  ASSUME NEW es, \A ds \in SUBSET es : ds # es => Summed(ds)
  PROVE  Summed(es)
<1>1. CASE es = {}
  <2>1. Sums([s \in SUBSET es |-> 0], es)
    BY <1>1 DEF Sums
  <2>2. Sums(CHOOSE f : Sums(f, es), es)
    BY <2>1
  <2>3. \A f, ds : es \subseteq ds /\ Sums(f, ds) => f[es] = 0
    BY <1>1 DEF Sums
  <2>4. Bytes(es) = 0
    BY <2>2, <2>3, BytesIs
  <2> QED
    BY <1>1, <2>3, <2>4 DEF Summed
<1>2. CASE es # {}
  <2> DEFINE c == Picked(es)
             us == es \ {c}
             total == Size[c.key] + Bytes(us)
             g == [s \in SUBSET es |-> IF s = es THEN total ELSE Bytes(s)]
  <2>1. c \in es
    BY <1>2 DEF Picked
  <2>2. us \in SUBSET es /\ us # es
    BY <2>1
  <2> HIDE DEF c
  <2>3. Summed(us)
    BY <2>2
  <2>4. ASSUME NEW f, NEW ds, es \subseteq ds, Sums(f, ds)
        PROVE  f[es] = total
    <3>1. f[es] = Size[c.key] + f[us]
      BY <1>2, <2>4 DEF Sums, c
    <3>2. us \subseteq ds
      BY <2>2, <2>4
    <3>3. f[us] = Bytes(us)
      BY <2>3, <2>4, <3>2 DEF Summed
    <3> QED
      BY <3>1, <3>3
  <2>5. Sums(g, es)
    <3>1. ASSUME NEW s \in SUBSET es
          PROVE  g[s] = IF s = {} THEN 0 ELSE Size[Picked(s).key] + g[s \ {Picked(s)}]
      <4>1. CASE s = es
        <5>1. g[s] = total /\ g[us] = Bytes(us)
          BY <2>2, <4>1
        <5> QED
          BY <1>2, <4>1, <5>1 DEF c
      <4>2. CASE s # es
        <5>1. Summed(s) /\ g[s] = Bytes(s)
          BY <4>2
        <5>2. CASE s = {}
          BY <5>1, <5>2 DEF Summed
        <5>3. CASE s # {}
          <6>1. Picked(s) \in s
            BY <5>3 DEF Picked
          <6>2. s \ {Picked(s)} \in SUBSET es /\ s \ {Picked(s)} # es
            BY <6>1
          <6>3. g[s \ {Picked(s)}] = Bytes(s \ {Picked(s)})
            BY <6>2
          <6> QED
            BY <5>1, <5>3, <6>3 DEF Summed
        <5> QED
          BY <5>2, <5>3
      <4> QED
        BY <4>1, <4>2
    <3> HIDE DEF total
    <3>2. \A s \in SUBSET es :
            g[s] = IF s = {} THEN 0 ELSE Size[Picked(s).key] + g[s \ {Picked(s)}]
      BY <3>1
    <3> DEFINE gg == g
    <3>3. gg = [s \in SUBSET es |-> gg[s]]
      OBVIOUS
    <3> HIDE DEF g
    <3> QED
      BY <3>2, <3>3 DEF Sums, gg
  <2> HIDE DEF g
  <2>6. Sums(CHOOSE f : Sums(f, es), es)
    BY <2>5
  <2>7. Bytes(es) = total
    BY <2>4, <2>6, BytesIs
  <2> QED
    BY <1>2, <2>4, <2>7 DEF Summed, c
<1> QED
  BY <1>1, <1>2

\* Every finite set of entries has a sum.
LEMMA BytesSum == \A es : IsFiniteSet(es) => Summed(es)
<1> DEFINE Bad == {n \in Nat : \E es : IsFiniteSet(es) /\ Cardinality(es) = n /\ ~Summed(es)}
<1> SUFFICES ASSUME Bad # {} PROVE FALSE
  BY FS_CardinalityType
<1>1. PICK n \in Bad : \A m \in Bad : n <= m
  BY Least
<1>2. PICK es : IsFiniteSet(es) /\ Cardinality(es) = n /\ ~Summed(es)
  BY <1>1
<1>3. ASSUME NEW ds \in SUBSET es, ds # es PROVE Summed(ds)
  <2>1. IsFiniteSet(ds) /\ Cardinality(ds) <= Cardinality(es)
        /\ (Cardinality(es) = Cardinality(ds) => es = ds)
    BY <1>2, <1>3, FS_Subset
  <2>2. Cardinality(ds) \in Nat /\ Cardinality(ds) < n
    BY <1>1, <1>2, <1>3, <2>1, FS_CardinalityType
  <2>3. Cardinality(ds) \notin Bad
    BY <1>1, <2>2
  <2> QED
    BY <2>1, <2>2, <2>3
<1> QED
  BY <1>2, <1>3, SummedStep

\* A smallest counterexample among the finite sets of entries.
LEMMA LeastSet ==
  \A W : (\A es \in W : IsFiniteSet(es)) /\ W # {} =>
           \E es \in W : \A ds \in W : Cardinality(es) <= Cardinality(ds)
<1> SUFFICES ASSUME NEW W, \A es \in W : IsFiniteSet(es), W # {}
             PROVE  \E es \in W : \A ds \in W : Cardinality(es) <= Cardinality(ds)
  OBVIOUS
<1> DEFINE T == {Cardinality(es) : es \in W}
<1>1. T \subseteq Nat /\ T # {}
  BY FS_CardinalityType
<1> HIDE DEF T
<1>2. PICK n \in T : \A m \in T : n <= m
  BY <1>1, Least
<1> QED
  BY <1>2 DEF T

\* A finite set without one of its members is smaller.
LEMMA Smaller ==
  \A es : IsFiniteSet(es) =>
    \A x \in es : /\ IsFiniteSet(es \ {x})
                  /\ Cardinality(es \ {x}) \in Nat /\ Cardinality(es) \in Nat
                  /\ Cardinality(es \ {x}) < Cardinality(es)
                  /\ ~(Cardinality(es) <= Cardinality(es \ {x}))
<1> TAKE es
<1> SUFFICES ASSUME IsFiniteSet(es), NEW x \in es
             PROVE  /\ Cardinality(es \ {x}) \in Nat /\ Cardinality(es) \in Nat
                    /\ IsFiniteSet(es \ {x})
                    /\ Cardinality(es \ {x}) < Cardinality(es)
                    /\ ~(Cardinality(es) <= Cardinality(es \ {x}))
  OBVIOUS
<1>1. IsFiniteSet(es \ {x}) /\ Cardinality(es \ {x}) = Cardinality(es) - 1
  BY FS_RemoveElement
<1>2. Cardinality(es \ {x}) \in Nat /\ Cardinality(es) \in Nat
  BY <1>1, FS_CardinalityType
<1> QED
  BY <1>1, <1>2

\* A sum does not depend on the order in which entries are taken out.
LEMMA BytesRemove ==
  \A es \in SUBSET Entry :
    IsFiniteSet(es) =>
      /\ Bytes(es) \in Nat
      /\ \A x \in es : Bytes(es) = Size[x.key] + Bytes(es \ {x})
<1> DEFINE Good(es) == /\ Bytes(es) \in Nat
                       /\ \A x \in es : Bytes(es) = Size[x.key] + Bytes(es \ {x})
           W == {es \in SUBSET Entry : IsFiniteSet(es) /\ ~Good(es)}
<1> SUFFICES ASSUME W # {} PROVE FALSE
  OBVIOUS
<1>1. PICK es \in W : \A ds \in W : Cardinality(es) <= Cardinality(ds)
  <2> HIDE DEF Good
  <2>1. \A es \in W : IsFiniteSet(es)
    OBVIOUS
  <2> HIDE DEF W
  <2> QED
    BY <2>1, LeastSet
<1>2. es \in SUBSET Entry /\ IsFiniteSet(es)
  OBVIOUS
<1>3. \A x \in es : x \in Entry /\ Size[x.key] \in Nat
  BY <1>2, LimitsAssumption DEF Entry
<1>4. ASSUME NEW x \in es PROVE Good(es \ {x})
  <2>1. IsFiniteSet(es \ {x}) /\ ~(Cardinality(es) <= Cardinality(es \ {x}))
    BY <1>2, Smaller
  <2>2. es \ {x} \notin W
    BY <1>1, <2>1
  <2> QED
    BY <1>2, <2>1, <2>2
<1>5. Summed(es)
  BY <1>2, BytesSum
<1>6. CASE es = {}
  BY <1>5, <1>6 DEF Summed
<1>7. CASE es # {}
  <2> DEFINE c == Picked(es)
  <2>1. c \in es
    BY <1>7 DEF Picked
  <2>2. Bytes(es) = Size[c.key] + Bytes(es \ {c})
    BY <1>5, <1>7 DEF Summed
  <2> HIDE DEF c
  <2>3. Bytes(es) \in Nat
    BY <1>3, <1>4, <2>1, <2>2
  <2>4. ASSUME NEW x \in es, x # c PROVE Bytes(es) = Size[x.key] + Bytes(es \ {x})
    <3>1. Bytes(es \ {c}) = Size[x.key] + Bytes((es \ {c}) \ {x})
      BY <1>4, <2>1, <2>4
    <3>2. Bytes(es \ {x}) = Size[c.key] + Bytes((es \ {x}) \ {c})
      BY <1>4, <2>1, <2>4
    <3>3. (es \ {c}) \ {x} = (es \ {x}) \ {c}
      OBVIOUS
    <3>4. (es \ {c}) \ {x} \subseteq es /\ x \in es \ {c}
      BY <2>4
    <3>5. IsFiniteSet(es \ {c}) /\ ~(Cardinality(es) <= Cardinality(es \ {c}))
      BY <1>2, <2>1, Smaller
    <3>6. Bytes((es \ {c}) \ {x}) \in Nat
      <4>1. IsFiniteSet((es \ {c}) \ {x}) /\ ~(Cardinality(es) <= Cardinality((es \ {c}) \ {x}))
        <5>1. Cardinality((es \ {c}) \ {x}) < Cardinality(es \ {c})
              /\ IsFiniteSet((es \ {c}) \ {x})
              /\ Cardinality((es \ {c}) \ {x}) \in Nat /\ Cardinality(es \ {c}) \in Nat
          BY <3>4, <3>5, Smaller
        <5>2. Cardinality(es \ {c}) < Cardinality(es) /\ Cardinality(es) \in Nat
          BY <1>2, <2>1, Smaller
        <5> QED
          BY <5>1, <5>2
      <4>2. (es \ {c}) \ {x} \notin W
        BY <1>1, <4>1
      <4> QED
        BY <1>2, <4>1, <4>2
    <3> DEFINE rest == Bytes((es \ {c}) \ {x})
    <3>7. rest \in Nat /\ Size[x.key] \in Nat /\ Size[c.key] \in Nat
      BY <1>3, <2>1, <3>6
    <3>8. Bytes(es) = Size[c.key] + (Size[x.key] + rest) /\ Bytes(es \ {x}) = Size[c.key] + rest
      BY <2>2, <3>1, <3>2, <3>3
    <3> HIDE DEF rest
    <3> QED
      BY <3>7, <3>8
  <2> QED
    BY <2>2, <2>3, <2>4
<1> QED
  BY <1>6, <1>7

\* The bytes of one entry, and of none.
LEMMA BytesOne ==
  ASSUME NEW e \in Entry
  PROVE  Bytes({e}) = Size[e.key] /\ Bytes({}) = 0
<1>1. IsFiniteSet({e}) /\ IsFiniteSet({}) /\ {e} \in SUBSET Entry
  BY FS_Singleton, FS_EmptySet
<1>2. Bytes({}) = 0
  BY <1>1, BytesSum DEF Summed
<1>3. Bytes({e}) = Size[e.key] + Bytes({e} \ {e})
  BY <1>1, BytesRemove
<1>4. {e} \ {e} = {} /\ Size[e.key] \in Nat
  BY LimitsAssumption DEF Entry
<1> QED
  BY <1>2, <1>3, <1>4

\* A listing that holds more entries is no smaller.
LEMMA BytesMonotone ==
  ASSUME NEW es \in SUBSET Entry, IsFiniteSet(es), NEW ds \in SUBSET es
  PROVE  Bytes(ds) <= Bytes(es) /\ Bytes(ds) \in Nat /\ Bytes(es) \in Nat
<1> DEFINE W == {b \in SUBSET Entry : IsFiniteSet(b) /\ \E a \in SUBSET b : ~(Bytes(a) <= Bytes(b))}
<1>1. ASSUME W # {} PROVE FALSE
  <2>1. \A b \in W : IsFiniteSet(b)
    OBVIOUS
  <2>2. PICK b \in W : \A d \in W : Cardinality(b) <= Cardinality(d)
    <3> HIDE DEF W
    <3> QED
      BY <1>1, <2>1, LeastSet
  <2>3. PICK a \in SUBSET b : ~(Bytes(a) <= Bytes(b))
    OBVIOUS
  <2>4. IsFiniteSet(b) /\ b \in SUBSET Entry
    OBVIOUS
  <2>5. Bytes(b) \in Nat
    BY <2>4, BytesRemove
  <2>6. PICK x \in b : x \notin a
    <3>1. a # b
      BY <2>3, <2>5
    <3> QED
      BY <3>1
  <2>7. IsFiniteSet(b \ {x}) /\ ~(Cardinality(b) <= Cardinality(b \ {x}))
    <3> HIDE DEF W
    <3> QED
      BY <2>4, <2>6, Smaller
  <2>8. b \ {x} \notin W
    BY <2>2, <2>7
  <2>9. a \in SUBSET (b \ {x}) /\ b \ {x} \in SUBSET Entry
    BY <2>4, <2>6
  <2>10. Bytes(a) <= Bytes(b \ {x})
    BY <2>7, <2>8, <2>9
  <2>11. Bytes(b) = Size[x.key] + Bytes(b \ {x})
    BY <2>4, BytesRemove
  <2>12. Bytes(b \ {x}) \in Nat
    BY <2>7, <2>9, BytesRemove
  <2>13. Bytes(a) \in Nat
    <3>1. IsFiniteSet(a) /\ a \in SUBSET Entry
      BY <2>4, FS_Subset
    <3> QED
      BY <3>1, BytesRemove
  <2>14. Size[x.key] \in Nat
    BY <2>4, LimitsAssumption DEF Entry
  <2>15. Bytes(a) <= Bytes(b)
    BY <2>10, <2>11, <2>12, <2>13, <2>14
  <2> QED
    BY <2>3, <2>15
<1>2. IsFiniteSet(ds) /\ ds \in SUBSET Entry
  BY FS_Subset
<1>3. Bytes(ds) \in Nat /\ Bytes(es) \in Nat
  BY <1>2, BytesRemove
<1> QED
  BY <1>1, <1>3

-----------------------------------------------------------------------------
(* The limit                                                               *)

E(k) == [key |-> k, at |-> born[k]]
Recorded == {E(k) : k \in Valid}

\* p is going to list the entries, or has listed all there are: what it does
\* next takes them all into account.
Watches(p) ==
  /\ why[p] = "limit"
  /\ \/ pc[p] = "glob"
     \/ pc[p] = "read" /\ \A k \in Valid : k \in todo[p] \/ E(k) \in seen[p]
     \/ pc[p] = "evict" /\ Recorded \subseteq seen[p]
     \/ pc[p] = "unlink" /\ Recorded \subseteq seen[p] \ {Victim(p)}

\* Only a writer can put the entries over the limit, and it goes on to list
\* them.  Others may truncate and remove entries meanwhile, which leaves it
\* nothing to overlook.
LimitInv == faults = 0 /\ Over(Recorded) => \E p \in Procs : Watches(p)

SeenInv == \A p \in Procs : IsFiniteSet(seen[p])

\* What a process has listed stays an account of what it may remove.
LEMMA SeenStep == TypedInv /\ SeenInv /\ [Next]_vars => SeenInv'
<1> SUFFICES ASSUME TypedInv, SeenInv, [Next]_vars, NEW q \in Procs
             PROVE  IsFiniteSet(seen'[q])
  BY DEF SeenInv
<1> USE DEF TypedInv, TypeOK
<1>1. IsFiniteSet(seen[q]) /\ IsFiniteSet({})
  BY FS_EmptySet DEF SeenInv
<1>2. \A x : IsFiniteSet(seen[q] \union {x})
  BY <1>1, FS_AddElement
<1>3. \A x : IsFiniteSet(seen[q] \ {x})
  BY <1>1, FS_RemoveElement, FS_Subset
<1>4. CASE UNCHANGED vars
  BY <1>1, <1>4 DEF vars
<1>5. ASSUME NEW p \in Procs, Get(p) PROVE IsFiniteSet(seen'[q])
  BY <1>1, <1>5 DEF Get, Ask, Look, Stat, CreateTemp, Compile, AskRuntime, Link, Use, Place,
                    OpenEntry, WriteEntry
<1>6. ASSUME NEW p \in Procs, Prune(p) \/ Glob(p) \/ EndList(p) \/ Evict(p) \/ EndEvict(p)
                              \/ EndPrune(p) \/ Fail(p) \/ Kill(p)
      PROVE  IsFiniteSet(seen'[q])
  BY <1>1, <1>6 DEF Prune, Glob, EndList, Evict, EndEvict, EndPrune, Fail, Kill
<1>7. ASSUME NEW p \in Procs, ReadEntry(p) PROVE IsFiniteSet(seen'[q])
  <2>1. \/ seen' = seen
        \/ \E x : seen' = [seen EXCEPT ![p] = @ \union {x}]
    BY <1>7 DEF ReadEntry
  <2>2. ASSUME NEW x, seen' = [seen EXCEPT ![p] = @ \union {x}] PROVE IsFiniteSet(seen'[q])
    <3>1. CASE q = p
      BY <1>2, <2>2, <3>1
    <3>2. CASE q # p
      BY <1>1, <2>2, <3>2
    <3> QED
      BY <3>1, <3>2
  <2> QED
    BY <1>1, <2>1, <2>2
<1>8. ASSUME NEW p \in Procs, Unlink(p) PROVE IsFiniteSet(seen'[q])
  BY <1>1, <1>3, <1>8 DEF Unlink
<1> QED
  BY <1>4, <1>5, <1>6, <1>7, <1>8 DEF Next, Sweep

\* A finite number of entries is recorded.
LEMMA RecordedFinite == TypedInv => IsFiniteSet(Recorded) /\ Recorded \in SUBSET Entry
<1> SUFFICES ASSUME TypedInv PROVE IsFiniteSet(Recorded) /\ Recorded \in SUBSET Entry
  OBVIOUS
<1>1. IsFiniteSet(Valid)
  BY KeysAssumption, FS_Subset DEF Valid
<1>2. IsFiniteSet(Recorded)
  <2> DEFINE f == [k \in Valid |-> E(k)]
  <2>1. f \in Surjection(Valid, Recorded)
    BY DEF Recorded, Surjection
  <2> HIDE DEF f
  <2> QED
    BY <1>1, <2>1, FS_Surjection
<1>3. Recorded \in SUBSET Entry
  BY DEF Recorded, E, Valid, Entry, TypedInv, TypeOK, StampInv
<1> QED
  BY <1>2, <1>3

\* Whoever watches goes on watching until the entries fit, and a step that is
\* not a writer's adds nothing to what is recorded.
LEMMA LimitStep == TypedInv /\ SeenInv /\ LimitInv /\ [Next]_vars => LimitInv'
<1> SUFFICES ASSUME TypedInv, SeenInv, LimitInv, [Next]_vars, faults' = 0, Over(Recorded)'
             PROVE  \E p \in Procs : Watches(p)'
  BY DEF LimitInv
<1> USE DEF TypedInv, TypeOK, CallInv, Calling, Sweeping, Then
<1> DEFINE Kept(q) == /\ pc'[q] = pc[q] /\ why'[q] = why[q]
                      /\ todo'[q] = todo[q] /\ seen'[q] = seen[q]
           Shrunk == Valid' \subseteq Valid /\ born' = born /\ faults = 0
<1>1. ASSUME NEW p \in Procs, WriteEntry(p) PROVE \E q \in Procs : Watches(q)'
  BY <1>1 DEF WriteEntry, Watches
<1>2. ASSUME Shrunk PROVE \E q \in Procs : Watches(q)
  <2>1. Recorded' \in SUBSET Recorded
    BY <1>2 DEF Recorded, E
  <2>2. IsFiniteSet(Recorded) /\ Recorded \in SUBSET Entry
    BY RecordedFinite
  <2>3. Bytes(Recorded') <= Bytes(Recorded) /\ Bytes(Recorded') \in Nat /\ Bytes(Recorded) \in Nat
    BY <2>1, <2>2, BytesMonotone
  <2>4. Bytes(Recorded') > MaxBytes
    BY DEF Over
  <2>5. Over(Recorded)
    BY <2>3, <2>4, LimitsAssumption DEF Over
  <2> QED
    BY <1>2, <2>5 DEF LimitInv
<1>3. ASSUME NEW q \in Procs, Shrunk, Kept(q), Watches(q) PROVE Watches(q)'
  <2>1. Victim(q)' = Victim(q)
    BY <1>3 DEF Victim
  <2>2. \A k : E(k)' = E(k)
    BY <1>3 DEF E
  <2>3. Recorded' \subseteq Recorded
    BY <1>3, <2>2 DEF Recorded
  <2> QED
    BY <1>3, <2>1, <2>2, <2>3 DEF Watches
<1>4. CASE UNCHANGED vars
  <2>1. Shrunk /\ \A q \in Procs : Kept(q)
    BY <1>4 DEF vars, Valid
  <2> QED
    BY <1>2, <1>3, <2>1
<1>5. ASSUME NEW p \in Procs, NEW l, pc[p] = l, l \notin {"glob", "read", "evict", "unlink"},
             Shrunk, \A q \in Procs \ {p} : Kept(q)
      PROVE  \E q \in Procs : Watches(q)'
  <2>1. PICK q \in Procs : Watches(q)
    BY <1>2, <1>5
  <2>2. q # p
    BY <1>5, <2>1 DEF Watches
  <2> QED
    BY <1>3, <1>5, <2>1, <2>2
<1>6. ASSUME NEW p \in Procs, Ask(p) \/ Look(p) \/ Stat(p) \/ CreateTemp(p) \/ Compile(p)
                              \/ AskRuntime(p) \/ Link(p) \/ Use(p) \/ Place(p)
      PROVE  \E q \in Procs : Watches(q)'
  <2>1. Shrunk /\ pc[p] \notin {"glob", "read", "evict", "unlink"}
    BY <1>6 DEF Ask, Look, Stat, CreateTemp, Compile, AskRuntime, Link, Use, Place, Valid
  <2>2. \A q \in Procs \ {p} : Kept(q)
    BY <1>6 DEF Ask, Look, Stat, CreateTemp, Compile, AskRuntime, Link, Use, Place
  <2> QED
    BY <1>5, <2>1, <2>2
<1>7. ASSUME NEW p \in Procs, OpenEntry(p) \/ Prune(p) \/ EndPrune(p)
      PROVE  \E q \in Procs : Watches(q)'
  <2>1. Shrunk /\ pc[p] \notin {"glob", "read", "evict", "unlink"}
    BY <1>7 DEF OpenEntry, Prune, EndPrune, Valid
  <2>2. \A q \in Procs \ {p} : Kept(q)
    BY <1>7 DEF OpenEntry, Prune, EndPrune
  <2> QED
    BY <1>5, <2>1, <2>2
<1>8. ASSUME NEW p \in Procs, Shrunk, \A q \in Procs \ {p} : Kept(q),
             Watches(p) => Watches(p)'
      PROVE  \E q \in Procs : Watches(q)'
  <2>1. PICK q \in Procs : Watches(q)
    BY <1>2, <1>8
  <2> QED
    BY <1>3, <1>8, <2>1
<1>9. ASSUME NEW p \in Procs, Glob(p) PROVE \E q \in Procs : Watches(q)'
  <2>1. Shrunk /\ \A q \in Procs \ {p} : Kept(q)
    BY <1>9 DEF Glob, Valid
  <2>2. ASSUME Watches(p) PROVE Watches(p)'
    BY <1>9, <2>2 DEF Glob, Watches, Valid
  <2> QED
    BY <1>8, <2>1, <2>2
<1>10. ASSUME NEW p \in Procs, ReadEntry(p) PROVE \E q \in Procs : Watches(q)'
  <2>1. Shrunk /\ \A q \in Procs \ {p} : Kept(q)
    BY <1>10 DEF ReadEntry, Valid
  <2>2. ASSUME Watches(p) PROVE Watches(p)'
    BY <1>10, <2>2 DEF ReadEntry, Watches, Valid, E
  <2> QED
    BY <1>8, <2>1, <2>2
<1>11. ASSUME NEW p \in Procs, EndList(p) PROVE \E q \in Procs : Watches(q)'
  <2>1. Shrunk /\ \A q \in Procs \ {p} : Kept(q)
    BY <1>11 DEF EndList, Valid
  <2>2. ASSUME Watches(p) PROVE Watches(p)'
    BY <1>11, <2>2 DEF EndList, Watches, Valid, E, Recorded
  <2> QED
    BY <1>8, <2>1, <2>2
<1>12. ASSUME NEW p \in Procs, Evict(p) PROVE \E q \in Procs : Watches(q)'
  <2> DEFINE v == Victim(p)
  <2>1. entry' = [entry EXCEPT ![v.key] = "none"] /\ UNCHANGED <<born, seen, why, todo, faults>>
    BY <1>12 DEF Evict, Remove, Removal
  <2>2. pc[p] = "evict" /\ pc' = [pc EXCEPT ![p] = "unlink"]
    BY <1>12 DEF Evict
  <2>3. v' = v
    BY <2>1 DEF Victim
  <2> HIDE DEF v
  <2>4. \A k \in Valid' : k \in Valid /\ k # v.key
    BY <2>1 DEF Valid
  <2>5. Shrunk /\ \A q \in Procs \ {p} : Kept(q)
    BY <2>1, <2>2, <2>4
  <2>6. ASSUME Watches(p) PROVE Watches(p)'
    <3>1. why[p] = "limit" /\ Recorded \subseteq seen[p]
      BY <2>2, <2>6 DEF Watches
    <3>2. \A k \in Valid' : E(k)' \in seen[p] /\ E(k)' # v
      BY <2>1, <2>4, <3>1 DEF Recorded, E
    <3>3. Recorded' \subseteq seen'[p] \ {v'}
      BY <2>1, <2>3, <3>2 DEF Recorded
    <3> QED
      BY <2>1, <2>2, <3>1, <3>3 DEF Watches, v
  <2> QED
    BY <1>8, <2>5, <2>6
<1>13. ASSUME NEW p \in Procs, Unlink(p) PROVE \E q \in Procs : Watches(q)'
  <2> DEFINE v == Victim(p)
  <2>1. seen' = [seen EXCEPT ![p] = @ \ {v}] /\ UNCHANGED <<entry, born, why, todo, faults>>
    BY <1>13 DEF Unlink, Remove, Removal
  <2>2. pc[p] = "unlink" /\ pc' = [pc EXCEPT ![p] = "evict"]
    BY <1>13 DEF Unlink
  <2>3. Shrunk /\ \A q \in Procs \ {p} : Kept(q)
    BY <2>1, <2>2 DEF Valid
  <2>4. ASSUME Watches(p) PROVE Watches(p)'
    BY <2>1, <2>2, <2>4 DEF Watches, Recorded, E, Valid
  <2> QED
    BY <1>8, <2>3, <2>4
<1>14. ASSUME NEW p \in Procs, EndEvict(p) PROVE \E q \in Procs : Watches(q)'
  <2>1. Shrunk /\ \A q \in Procs \ {p} : Kept(q)
    BY <1>14 DEF EndEvict, Valid
  <2>2. ASSUME Watches(p) PROVE FALSE
    <3>1. ~Over(seen[p]) \/ seen[p] = {}
      BY <1>14, <2>2 DEF EndEvict, Watches
    <3>2. Recorded \in SUBSET seen[p]
      BY <1>14, <2>2 DEF EndEvict, Watches
    <3>3. seen[p] \in SUBSET Entry /\ IsFiniteSet(seen[p])
      BY DEF SeenInv
    <3>4. Bytes(Recorded) <= Bytes(seen[p]) /\ Bytes(Recorded) \in Nat /\ Bytes(seen[p]) \in Nat
      BY <3>2, <3>3, BytesMonotone
    <3>5. Recorded' = Recorded
      BY <1>14 DEF EndEvict, Recorded, E, Valid
    <3>6. Bytes(Recorded) > MaxBytes
      BY <3>5 DEF Over
    <3>7. CASE ~Over(seen[p])
      BY <3>4, <3>6, <3>7, LimitsAssumption DEF Over
    <3>8. CASE seen[p] = {}
      <4>1. Bytes({}) = 0
        BY FS_EmptySet, BytesSum DEF Summed
      <4> QED
        BY <3>4, <3>6, <3>8, <4>1, LimitsAssumption
    <3> QED
      BY <3>1, <3>7, <3>8
  <2> QED
    BY <1>8, <2>1, <2>2
<1>15. ASSUME NEW p \in Procs, Fail(p) \/ Kill(p) PROVE FALSE
  BY <1>15 DEF Fail, Kill
<1> QED
  BY <1>1, <1>4, <1>6, <1>7, <1>9, <1>10, <1>11, <1>12, <1>13, <1>14, <1>15
  DEF Next, Get, Sweep

\* QuietFits: while no call has failed and no process was killed, the entries
\* fit the limit whenever no process is at work, although each process removes
\* what a listing of its own told it to, while the others write, remove and
\* rebuild; for any processes, any sizes and any limit.
THEOREM LimitKept == Spec => []QuietFits
<1>1. Init => SeenInv /\ LimitInv
  <2> SUFFICES ASSUME Init PROVE SeenInv /\ LimitInv
    OBVIOUS
  <2>1. SeenInv
    BY FS_EmptySet DEF Init, SeenInv
  <2>2. Recorded = {}
    BY DEF Init, Recorded, Valid
  <2>3. Bytes(Recorded) = 0
    BY <2>2, FS_EmptySet, BytesSum DEF Summed
  <2> QED
    BY <2>1, <2>3, LimitsAssumption DEF LimitInv, Over
<1>2. CacheInv /\ SeenInv /\ LimitInv /\ [Next]_vars => (SeenInv /\ LimitInv)'
  BY SeenStep, LimitStep DEF CacheInv, TypedInv
<1>3. CacheInv /\ SeenInv /\ LimitInv => QuietFits
  <2> SUFFICES ASSUME CacheInv, LimitInv, Quiet, faults = 0 PROVE Bytes(Recorded) <= MaxBytes
    BY DEF QuietFits, Recorded, E
  <2>1. ~Over(Recorded)
    BY DEF LimitInv, Quiet, Watches
  <2>2. Bytes(Recorded) \in Nat
    BY RecordedFinite, BytesRemove DEF CacheInv, TypedInv
  <2> QED
    BY <2>1, <2>2, LimitsAssumption DEF Over
<1> QED
  BY <1>1, <1>2, <1>3, CacheInvariance, PTL DEF Spec

-----------------------------------------------------------------------------
(* What a lone process is handed                                           *)

Limiting(p) == pc[p] \in {"glob", "read", "evict", "unlink"} /\ why[p] = "limit"

\* The artifact a lone process asked for is in its place from the rename on,
\* and its entry, once written, is the newest of all: enforceLimit comes to it
\* last, when it alone is left.
HandedTo(p) ==
  /\ pc[p] \in {"open", "write", "use"} \/ Limiting(p) => goal[p] \in stored
  /\ pc[p] = "write" => /\ linked[p] /\ entry[goal[p]] = "empty" /\ stamp[p] = now
                        /\ \A k \in Keys : born[k] < now
  /\ Limiting(p) => /\ entry[goal[p]] = "valid"
                    /\ \A k \in Keys \ {goal[p]} : born[k] < born[goal[p]]

\* What it has read of the entries is what they still say.
ReadBy(p) ==
  /\ pc[p] \notin {"read", "evict", "unlink"} => seen[p] = {}
  /\ \A e \in seen[p] : e.at = born[e.key]
  /\ why[p] = "limit" =>
       /\ pc[p] = "read" => goal[p] \in todo[p] \/ E(goal[p]) \in seen[p]
       /\ pc[p] \in {"evict", "unlink"} => E(goal[p]) \in seen[p]
       /\ pc[p] = "unlink" => Victim(p) # E(goal[p])

HandedInv ==
  /\ \A k \in Keys : born[k] <= now
  /\ \A p \in Procs : HandedTo(p) /\ ReadBy(p)

\* Oldest answers an entry no other of which is older (enforceLimit's order).
LEMMA OldestLeast ==
  ASSUME NEW es, es \in SUBSET Entry, es # {}
  PROVE  Oldest(es) \in es /\ \A f \in es : Oldest(es).at <= f.at
<1> DEFINE T == {e.at : e \in es}
<1>1. T \subseteq Nat /\ T # {}
  BY DEF Entry
<1> HIDE DEF T
<1>2. PICK n \in T : \A m \in T : n <= m
  BY <1>1, Least
<1>3. \E e \in es : \A f \in es : e.at <= f.at
  BY <1>2 DEF T
<1> QED
  BY <1>3 DEF Oldest

\* enforceLimit spares the newest entry, for that one fits by itself.
LEMMA NewestSpared ==
  ASSUME TypedInv, HandedInv, NEW p \in Procs, pc[p] = "evict", why[p] = "limit",
         Over(seen[p]), \A k \in Keys : Size[k] <= MaxBytes
  PROVE  Victim(p) # E(goal[p]) /\ Victim(p) \in seen[p] /\ Victim(p).key # goal[p]
<1> USE DEF TypedInv, TypeOK, CallInv, Calling, Sweeping
<1> DEFINE mine == E(goal[p])
<1>1. mine \in seen[p] /\ seen[p] \in SUBSET Entry /\ goal[p] \in Keys
  BY DEF HandedInv, ReadBy
<1>2. Victim(p) = Oldest(seen[p])
  BY DEF Victim
<1>3. Oldest(seen[p]) \in seen[p] /\ \A f \in seen[p] : Oldest(seen[p]).at <= f.at
  BY <1>1, OldestLeast
<1>4. \A e \in seen[p] : e.at = born[e.key] /\ e \in Entry
  BY <1>1 DEF HandedInv, ReadBy
<1>5. \A k \in Keys \ {goal[p]} : born[k] < born[goal[p]]
  BY DEF HandedInv, HandedTo, Limiting
<1>6. \A e \in seen[p] : e.key = goal[p] => e = mine
  BY <1>4 DEF E, Entry
<1>7. ASSUME Oldest(seen[p]) = mine PROVE FALSE
  <2>1. ASSUME NEW e \in seen[p] PROVE e = mine
    <3>1. mine.at <= e.at /\ mine.at = born[goal[p]]
      BY <1>3, <1>7 DEF E
    <3>2. e.at = born[e.key] /\ e.key \in Keys /\ e.at \in Nat
      BY <1>4 DEF Entry
    <3>3. e.key = goal[p]
      BY <1>1, <1>5, <3>1, <3>2
    <3> QED
      BY <1>6, <3>3
  <2>2. seen[p] = {mine} /\ mine \in Entry
    BY <1>1, <2>1
  <2>3. mine.key = goal[p]
    BY DEF E
  <2> HIDE DEF mine
  <2>4. Bytes({mine}) = Size[mine.key]
    BY <2>2, BytesOne
  <2>5. Bytes(seen[p]) <= MaxBytes /\ Size[goal[p]] \in Nat
    BY <1>1, <2>2, <2>3, <2>4, LimitsAssumption
  <2>6. Bytes(seen[p]) > MaxBytes
    BY DEF Over
  <2> QED
    BY <2>2, <2>3, <2>4, <2>5, <2>6, LimitsAssumption
<1> QED
  BY <1>2, <1>3, <1>6, <1>7

\* The path handed out names a file through every step of the lone process.
LEMMA HandedStep ==
  ASSUME \A p, q \in Procs : p = q, \A k \in Keys : Size[k] <= MaxBytes,
         TypedInv, HandedInv, [Next]_vars
  PROVE  HandedInv'
<1> USE DEF TypedInv, TypeOK, CallInv, Calling, Sweeping, Then
<1>1. \A k \in Keys : born[k] <= now /\ born[k] \in Nat
  BY DEF HandedInv
<1>2. CASE UNCHANGED vars
  BY <1>2 DEF vars, HandedInv, HandedTo, ReadBy, Limiting, Victim, E
<1>3. ASSUME NEW p \in Procs, \A k \in Keys : born'[k] <= now', HandedTo(p)', ReadBy(p)'
      PROVE  HandedInv'
  BY <1>3 DEF HandedInv
<1>4. ASSUME NEW p \in Procs
      PROVE  HandedTo(p) /\ ReadBy(p)
  BY DEF HandedInv
<1>5. ASSUME NEW p \in Procs, Ask(p) \/ Look(p) \/ Stat(p) \/ CreateTemp(p) \/ Compile(p)
                              \/ AskRuntime(p)
      PROVE  HandedInv'
  <2>1. UNCHANGED <<now, born, stored, seen, why>>
    BY <1>5 DEF Ask, Look, Stat, CreateTemp, Compile, AskRuntime
  <2>2. pc'[p] \in {"look", "stat", "temp", "use", "build", "place"}
        /\ (pc'[p] = "use" => goal'[p] \in stored)
    BY <1>5 DEF Ask, Look, Stat, CreateTemp, Compile, AskRuntime, IsHit
  <2>3. pc[p] \in {"idle", "look", "stat", "temp", "build"}
    BY <1>5 DEF Ask, Look, Stat, CreateTemp, Compile, AskRuntime
  <2>4. seen[p] = {}
    BY <1>4, <2>3 DEF ReadBy
  <2> QED
    BY <1>1, <1>3, <2>1, <2>2, <2>4 DEF HandedTo, ReadBy, Limiting
<1>6. ASSUME NEW p \in Procs, Link(p) \/ Use(p) \/ EndPrune(p) \/ Fail(p) \/ Kill(p)
      PROVE  HandedInv'
  <2>1. UNCHANGED <<now, born>>
    BY <1>6 DEF Link, Use, EndPrune, Fail, Kill
  <2>2. pc'[p] \in {"idle", "place"} /\ seen'[p] = {}
    <3>1. CASE Link(p)
      <4>1. pc[p] = "use" /\ seen[p] = {}
        BY <1>4, <3>1 DEF Link, ReadBy
      <4>2. CASE goal[p] \in stored
        BY <3>1, <4>1, <4>2 DEF Link
      <4>3. CASE goal[p] \notin stored
        BY <3>1, <4>3 DEF Link
      <4> QED
        BY <4>2, <4>3
    <3>2. CASE Use(p) \/ EndPrune(p) \/ Fail(p) \/ Kill(p)
      BY <3>2 DEF Use, EndPrune, Fail, Kill
    <3> QED
      BY <1>6, <3>1, <3>2
  <2> QED
    BY <1>1, <1>3, <2>1, <2>2 DEF HandedTo, ReadBy, Limiting
<1>7. ASSUME NEW p \in Procs, Place(p) PROVE HandedInv'
  <2>1. pc[p] = "place" /\ pc'[p] = "open" /\ goal'[p] \in stored'
        /\ UNCHANGED <<now, born, seen>>
    BY <1>7 DEF Place
  <2>2. seen'[p] = {}
    BY <1>4, <2>1 DEF ReadBy
  <2> QED
    BY <1>1, <1>3, <2>1, <2>2 DEF HandedTo, ReadBy, Limiting
<1>8. ASSUME NEW p \in Procs, OpenEntry(p) PROVE HandedInv'
  <2>1. pc[p] = "open" /\ pc'[p] = "write" /\ goal[p] \in Keys
        /\ UNCHANGED <<stored, born, goal, seen>> /\ now' = now + 1
    BY <1>8 DEF OpenEntry
  <2>2. linked'[p] /\ entry'[goal[p]] = "empty" /\ stamp'[p] = now'
    BY <1>8, <2>1 DEF OpenEntry
  <2>3. \A k \in Keys : born[k] < now'
    BY <1>1, <2>1
  <2>4. goal[p] \in stored /\ seen[p] = {}
    BY <1>4, <2>1 DEF HandedTo, ReadBy
  <2> QED
    BY <1>1, <1>3, <2>1, <2>2, <2>3, <2>4 DEF HandedTo, ReadBy, Limiting
<1>9. ASSUME NEW p \in Procs, WriteEntry(p) PROVE HandedInv'
  <2>1. pc[p] = "write" /\ pc'[p] = "glob" /\ goal[p] \in Keys
        /\ UNCHANGED <<stored, goal, seen, now>>
    BY <1>9 DEF WriteEntry
  <2>2. linked[p] /\ entry[goal[p]] = "empty" /\ stamp[p] = now /\ goal[p] \in stored
        /\ seen[p] = {} /\ \A k \in Keys : born[k] < now
    BY <1>4, <2>1 DEF HandedTo, ReadBy
  <2>3. entry' = [entry EXCEPT ![goal[p]] = "valid"] /\ born' = [born EXCEPT ![goal[p]] = now]
    BY <1>9, <2>2 DEF WriteEntry, CreatedAt
  <2>4. entry'[goal[p]] = "valid" /\ born'[goal[p]] = now
        /\ \A k \in Keys \ {goal[p]} : born'[k] < born'[goal[p]]
    BY <2>1, <2>2, <2>3
  <2>5. \A k \in Keys : born'[k] <= now'
    BY <1>1, <2>1, <2>3
  <2> QED
    BY <1>3, <2>1, <2>2, <2>4, <2>5 DEF HandedTo, ReadBy, Limiting
<1>10. ASSUME NEW p \in Procs, Prune(p) PROVE HandedInv'
  <2>1. pc[p] = "idle" /\ pc'[p] = "glob" /\ why'[p] = "prune" /\ UNCHANGED <<now, born, seen>>
    BY <1>10 DEF Prune
  <2>2. seen[p] = {}
    BY <1>4, <2>1 DEF ReadBy
  <2> QED
    BY <1>1, <1>3, <2>1, <2>2 DEF HandedTo, ReadBy, Limiting
<1>11. ASSUME NEW p \in Procs, Glob(p) PROVE HandedInv'
  <2>1. pc[p] = "glob" /\ pc'[p] = "read" /\ UNCHANGED <<files, now, goal, why, seen>>
        /\ todo'[p] = {k \in Keys : entry[k] # "none"}
    BY <1>11 DEF Glob
  <2>2. seen[p] = {} /\ HandedTo(p)
    BY <1>4, <2>1 DEF ReadBy
  <2>3. why[p] = "limit" => goal[p] \in todo'[p]
    BY <2>1, <2>2 DEF HandedTo, Limiting
  <2> QED
    BY <1>1, <1>3, <2>1, <2>2, <2>3 DEF HandedTo, ReadBy, Limiting
<1>12. ASSUME NEW p \in Procs, ReadEntry(p) PROVE HandedInv'
  <2>1. pc[p] = "read" /\ UNCHANGED <<files, now, goal, why, pc>>
    BY <1>12 DEF ReadEntry
  <2>2. PICK k \in todo[p] :
          /\ todo' = [todo EXCEPT ![p] = @ \ {k}]
          /\ seen' = IF entry[k] = "valid" THEN [seen EXCEPT ![p] = @ \union {E(k)}] ELSE seen
    BY <1>12 DEF ReadEntry, E
  <2>3. HandedTo(p) /\ ReadBy(p)
    BY <1>4
  <2>4. HandedTo(p)'
    BY <2>1, <2>3 DEF HandedTo, Limiting
  <2>5. \A e \in seen'[p] : e.at = born[e.key]
    BY <2>2, <2>3 DEF ReadBy, E
  <2>6. why[p] = "limit" => goal[p] \in todo'[p] \/ E(goal[p]) \in seen'[p]
    <3> SUFFICES ASSUME why[p] = "limit" PROVE goal[p] \in todo'[p] \/ E(goal[p]) \in seen'[p]
      OBVIOUS
    <3>1. goal[p] \in todo[p] \/ E(goal[p]) \in seen[p]
      BY <2>1, <2>3 DEF ReadBy
    <3>2. entry[goal[p]] = "valid"
      BY <2>1, <2>3 DEF HandedTo, Limiting
    <3> QED
      BY <2>2, <3>1, <3>2
  <2>7. ReadBy(p)'
    BY <2>1, <2>5, <2>6 DEF ReadBy, E
  <2> QED
    BY <1>1, <1>3, <2>1, <2>4, <2>7
<1>13. ASSUME NEW p \in Procs, EndList(p) PROVE HandedInv'
  <2>1. pc[p] = "read" /\ pc'[p] = "evict" /\ todo[p] = {}
        /\ UNCHANGED <<files, now, goal, why, seen, todo>>
    BY <1>13 DEF EndList
  <2>2. HandedTo(p) /\ ReadBy(p)
    BY <1>4
  <2>3. HandedTo(p)'
    BY <2>1, <2>2 DEF HandedTo, Limiting
  <2>4. ReadBy(p)'
    BY <2>1, <2>2 DEF ReadBy, E
  <2> QED
    BY <1>1, <1>3, <2>1, <2>3, <2>4
<1>14. ASSUME NEW p \in Procs, Evict(p) PROVE HandedInv'
  <2> DEFINE v == Victim(p)
  <2>1. pc[p] = "evict" /\ pc'[p] = "unlink" /\ entry' = [entry EXCEPT ![v.key] = "none"]
        /\ UNCHANGED <<now, goal, why, seen, born, stored>>
    BY <1>14 DEF Evict, Remove, Removal
  <2>2. v' = v
    BY <2>1 DEF Victim
  <2>3. why[p] = "limit" => v # E(goal[p]) /\ v.key # goal[p]
    <3> SUFFICES ASSUME why[p] = "limit" PROVE v # E(goal[p]) /\ v.key # goal[p]
      OBVIOUS
    <3>1. Over(seen[p])
      BY <1>14 DEF Evict
    <3> QED
      BY <2>1, <3>1, NewestSpared
  <2> HIDE DEF v
  <2>4. HandedTo(p) /\ ReadBy(p)
    BY <1>4
  <2>5. HandedTo(p)'
    BY <2>1, <2>3, <2>4 DEF HandedTo, Limiting
  <2>6. ReadBy(p)'
    BY <2>1, <2>2, <2>3, <2>4 DEF ReadBy, E, v
  <2> QED
    BY <1>1, <1>3, <2>1, <2>5, <2>6
<1>15. ASSUME NEW p \in Procs, Unlink(p) PROVE HandedInv'
  <2> DEFINE v == Victim(p)
  <2>1. pc[p] = "unlink" /\ pc'[p] = "evict" /\ stored' = stored \ {v.key}
        /\ seen'[p] = seen[p] \ {v} /\ UNCHANGED <<now, goal, why, born, entry>>
    BY <1>15 DEF Unlink, Remove, Removal
  <2>2. HandedTo(p) /\ ReadBy(p)
    BY <1>4
  <2>3. why[p] = "limit" => v # E(goal[p]) /\ E(goal[p]) \in seen[p]
    BY <2>1, <2>2 DEF ReadBy
  <2>4. why[p] = "limit" => v.key # goal[p]
    <3> SUFFICES ASSUME why[p] = "limit", v.key = goal[p] PROVE FALSE
      OBVIOUS
    <3>1. v = Oldest(seen[p])
      BY DEF Victim
    <3>2. seen[p] \in SUBSET Entry /\ seen[p] # {}
      BY <2>3
    <3>3. v \in seen[p] /\ v \in Entry
      BY <3>1, <3>2, OldestLeast
    <3>4. v.at = born[v.key]
      BY <2>2, <3>3 DEF ReadBy
    <3> HIDE DEF v
    <3>5. v = E(goal[p])
      BY <3>3, <3>4 DEF Entry, E
    <3> QED
      BY <2>3, <3>5
  <2> HIDE DEF v
  <2>5. HandedTo(p)'
    BY <2>1, <2>2, <2>4 DEF HandedTo, Limiting
  <2>6. ReadBy(p)'
    BY <2>1, <2>2, <2>3 DEF ReadBy, E
  <2> QED
    BY <1>1, <1>3, <2>1, <2>5, <2>6
<1>16. ASSUME NEW p \in Procs, EndEvict(p) PROVE HandedInv'
  <2>1. pc[p] = "evict" /\ seen'[p] = {} /\ UNCHANGED <<now, born, stored, goal, why>>
        /\ pc'[p] \in {"use", "pruned"} /\ (pc'[p] = "use" => why[p] = "limit")
    BY <1>16 DEF EndEvict
  <2>2. pc'[p] = "use" => goal[p] \in stored
    BY <1>4, <2>1 DEF HandedTo, Limiting
  <2> QED
    BY <1>1, <1>3, <2>1, <2>2 DEF HandedTo, ReadBy, Limiting
<1> QED
  BY <1>2, <1>5, <1>6, <1>7, <1>8, <1>9, <1>10, <1>11, <1>12, <1>13, <1>14, <1>15, <1>16
  DEF Next, Get, Sweep

\* HandedPathReal for a lone process whose artifacts each fit the limit: the
\* path it is handed names a file until it has used it, whatever fails and
\* whatever it was interrupted in before.  A larger artifact would be removed
\* by the very call that returns its path.
THEOREM HandedPathKept ==
  ASSUME \A p, q \in Procs : p = q, \A k \in Keys : Size[k] <= MaxBytes
  PROVE  Spec => []HandedPathReal
<1>1. Init => HandedInv
  BY DEF Init, HandedInv, HandedTo, ReadBy, Limiting
<1>2. CacheInv /\ HandedInv /\ [Next]_vars => HandedInv'
  BY HandedStep DEF CacheInv, TypedInv
<1>3. HandedInv => HandedPathReal
  BY DEF HandedInv, HandedTo, HandedPathReal
<1> QED
  BY <1>1, <1>2, <1>3, CacheInvariance, PTL DEF Spec

=============================================================================
