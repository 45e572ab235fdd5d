-------------------------- MODULE ThreadPoolProofs --------------------------
(***************************************************************************)
(* Proofs about ThreadPool, for every finite set of helpers, every shape a *)
(* call may ask for, every wrap of the tag and every number of rounds: the *)
(* protocol that lends the slice, what a round does to it, and that the    *)
(* pool implements ForkJoin.                                               *)
(***************************************************************************)
EXTENDS ThreadPool, TLAPS, FiniteSetTheorems

USE DEF Goto, sync, fields, words, locals, outside, history, Threads, MayWake, AfterItems

-----------------------------------------------------------------------------
(* Cutting a slice into items and items into batches.                     *)

\* Rounding up: b-sized parts cover a, and one part fewer does not.
LEMMA CeilDivBounds ==
  ASSUME NEW a \in Nat \ {0}, NEW b \in Nat \ {0}
  PROVE  /\ CeilDiv(a, b) \in Nat \ {0}
         /\ CeilDiv(a, b) * b >= a
         /\ (CeilDiv(a, b) - 1) * b < a
  BY DEF CeilDiv

\* Multiplying by a batch size keeps the order.
LEMMA TimesMonotone ==
  ASSUME NEW a \in Nat, NEW b \in Nat, NEW c \in Nat, a <= b
  PROVE  a * c <= b * c
  OBVIOUS

\* One batch more.
LEMMA TimesSuccessor ==
  ASSUME NEW a \in Nat, NEW c \in Nat
  PROVE  a * c \in Nat /\ (a + 1) * c = a * c + c
  OBVIOUS

\* How many numbers from a up to b, without b.
LEMMA IntervalSize ==
  ASSUME NEW a \in Nat, NEW b \in Nat
  PROVE  Cardinality(a .. b - 1) = IF a < b THEN b - a ELSE 0
  BY FS_Interval

\* The size of a disjoint union.
LEMMA DisjointSum ==
  ASSUME NEW S, NEW T, IsFiniteSet(S), IsFiniteSet(T), S \intersect T = {}
  PROVE  Cardinality(S \union T) = Cardinality(S) + Cardinality(T)
<1>1. Cardinality(S) \in Nat /\ Cardinality(T) \in Nat
  BY FS_CardinalityType
<1>2. Cardinality(S \union T) = Cardinality(S) + Cardinality(T) - Cardinality(S \intersect T)
  BY FS_Union
<1>3. Cardinality(S \intersect T) = 0
  BY FS_EmptySet
<1>4. QED BY <1>1, <1>2, <1>3

\* A positive multiple of m is at least m.
LEMMA MultipleAtLeast ==
  ASSUME NEW a \in Nat \ {0}, NEW m \in Nat \ {0}, a % m = 0
  PROVE  a >= m
  OBVIOUS

\* A slice with elements has items.
LEMMA ItemsPositive ==
  ASSUME NEW s \in Shapes, s.len > 0
  PROVE  Items(s) \in Nat \ {0}
<1>1. s \in Shape /\ (s.stride > 0 => s.len % (s.length * s.stride) = 0)
  BY ShapesAssumption
<1>2. s.len \in Nat \ {0} /\ s.length \in Nat \ {0} /\ s.stride \in Nat
  BY <1>1 DEF Shape
<1>3. CASE s.stride = 0
  BY <1>2, <1>3, CeilDivBounds DEF Items
<1>4. CASE s.stride > 0
  <2>1. s.length * s.stride >= s.length /\ s.length * s.stride \in Nat \ {0}
    BY <1>2, <1>4
  <2>2. s.len >= s.length * s.stride
    BY <2>1, <1>1, <1>2, <1>4, MultipleAtLeast
  <2>3. QED BY <2>1, <2>2, <1>2, <1>4 DEF Items
<1>5. QED BY <1>2, <1>3, <1>4

\* A round with items has a batch size.
LEMMA BatchPositive ==
  ASSUME NEW n \in Nat \ {0}
  PROVE  Batch(n) \in Nat \ {0}
<1>1. (Cardinality(Helpers) + 1) * TakesPerThread \in Nat \ {0}
  BY ThreadsAssumption, LimitsAssumption, FS_CardinalityType
<1>2. AtMost(AtMost((Cardinality(Helpers) + 1) * TakesPerThread, n), BatchesMax)
        \in Nat \ {0}
  BY <1>1, LimitsAssumption DEF AtMost
<1>3. QED BY <1>2, CeilDivBounds DEF Batch

\* The items of a round are finitely many, and so is every part of them.
LEMMA ItemsFinite ==
  ASSUME TypeOK
  PROVE  /\ IsFiniteSet(AllItems)
         /\ Cardinality(AllItems) = round.items
         /\ \A S \in SUBSET AllItems :
              /\ IsFiniteSet(S)
              /\ Cardinality(S) \in Nat
              /\ Cardinality(S) = round.items => S = AllItems
<1>1. IsFiniteSet(AllItems) /\ Cardinality(AllItems) = round.items
  BY FS_Interval DEF AllItems, TypeOK
<1>2. QED BY <1>1, FS_Subset, FS_CardinalityType

\* What one take adds to a thread's claim and removes from the ticket's.
LEMMA BatchFacts ==
  ASSUME TypeOK, round.batch > 0,
         NEW n \in Nat, n * round.batch < round.items
  PROVE  LET first == n * round.batch
             end == AtMost(first + round.batch, round.items)
         IN  /\ first \in Nat /\ end \in Nat /\ first < end /\ end <= round.items
             /\ Cardinality(BatchItems(n)) = end - first
             /\ BatchItems(n) \in SUBSET AllItems /\ BatchItems(n) # {}
             /\ ItemsFrom(n) = BatchItems(n) \union ItemsFrom(n + 1)
             /\ BatchItems(n) \intersect ItemsFrom(n + 1) = {}
<1> DEFINE first == n * round.batch
           end == AtMost(first + round.batch, round.items)
<1>1. round.items \in Nat /\ round.batch \in Nat \ {0} /\ first \in Nat
  BY TimesSuccessor DEF TypeOK
<1>2. end \in Nat /\ first < end /\ end <= round.items
  BY <1>1 DEF AtMost
<1>3. (n + 1) * round.batch = first + round.batch
  BY <1>1, TimesSuccessor
<1>4. BatchItems(n) = first .. end - 1
  BY <1>1, <1>2, <1>3 DEF BatchItems, AllItems, AtMost
<1>5. Cardinality(first .. end - 1) = end - first
  <2> HIDE DEF first, end
  <2> QED BY <1>1, <1>2, IntervalSize
<1>6. BatchItems(n) \in SUBSET AllItems /\ BatchItems(n) # {}
  BY <1>1, <1>2, <1>4 DEF AllItems
<1>7. ItemsFrom(n) = BatchItems(n) \union ItemsFrom(n + 1)
  BY <1>1, <1>3 DEF BatchItems, ItemsFrom, AllItems
<1>8. BatchItems(n) \intersect ItemsFrom(n + 1) = {}
  BY <1>1, <1>3 DEF BatchItems, ItemsFrom, AllItems
<1>9. QED BY <1>1, <1>2, <1>4, <1>5, <1>6, <1>7, <1>8

\* What a failing thread takes: Skipped(n) is the number of items from batch n on.
LEMMA SkippedFacts ==
  ASSUME TypeOK, NEW n \in Nat
  PROVE  /\ Skipped(n) \in Nat
         /\ ItemsFrom(n) \in SUBSET AllItems
         /\ Cardinality(ItemsFrom(n)) = Skipped(n)
         /\ n * round.batch >= round.items <=> ItemsFrom(n) = {}
<1>1. round.items \in Nat /\ round.batch \in Nat /\ n * round.batch \in Nat
  BY DEF TypeOK
<1>2. ItemsFrom(n) = n * round.batch .. round.items - 1
  BY <1>1 DEF ItemsFrom, AllItems
<1>3. Cardinality(n * round.batch .. round.items - 1) = Skipped(n)
  BY <1>1, IntervalSize DEF Skipped
<1>4. QED BY <1>1, <1>2, <1>3 DEF Skipped, AllItems

-----------------------------------------------------------------------------
(* What a step of a kind leaves alone.                                    *)

\* A step of run_items moves its thread within run_items or out of it, and at
\* most wakes the caller besides.
LEMMA RunItemsFrame ==
  ASSUME TypeOK, NEW t \in Threads, RunItems(t)
  PROVE  /\ pc[t] \in RunLabels /\ pc'[t] \in RunLabels \union {AfterItems(t)}
         /\ \A u \in Threads \ {t} :
              \/ pc'[u] = pc[u]
              \/ u = Caller /\ pc[u] = "asleepFinish" /\ pc'[u] = "wokenFinish"
         /\ pc' \in [Threads -> HelperLabels \union CallerLabels]
         /\ UNCHANGED <<sync, fields, outside, tag>>
<1>1. CASE Signal(t)
  BY <1>1, ThreadsAssumption DEF Signal, TypeOK, HelperLabels, CallerLabels, InRound, RunLabels, Holding
<1>2. CASE ~Signal(t)
  <2>1. pc[t] \in RunLabels /\ UNCHANGED <<sync, fields, outside, tag>>
    BY <1>2 DEF RunLabels, Holding,
       RunItems, LoadTicket, LeaveItems, TakeBatch, MissBatch, ReadBatch, CheckItem,
       EndBatch, StartItem, ItemSucceeds, ItemFails, RecordFailure, FailLoad,
       FailNothing, FailTake, FailMiss, Finish
  <2>2. \E l \in RunLabels \union {AfterItems(t)} : pc' = [pc EXCEPT ![t] = l]
    BY <1>2 DEF RunLabels, Holding, TypeOK,
       RunItems, LoadTicket, LeaveItems, TakeBatch, MissBatch, ReadBatch, CheckItem,
       EndBatch, StartItem, ItemSucceeds, ItemFails, RecordFailure, FailLoad,
       FailNothing, FailTake, FailMiss, Finish
  <2>3. QED BY <2>1, <2>2 DEF TypeOK, HelperLabels, CallerLabels, InRound, RunLabels, Holding
<1>3. QED BY <1>1, <1>2


-----------------------------------------------------------------------------
(* The mutex and the two condition variables.                             *)

\* Every step keeps the mutex with the thread inside the critical section.
LEMMA LockStep ==
  ASSUME TypeOK, LockInv, [Next]_vars
  PROVE  LockInv'
<1>2. ASSUME NEW t \in Threads, RunItems(t) PROVE LockInv'
  BY <1>2, RunItemsFrame, ThreadsAssumption DEF LockInv, RunLabels, Holding
<1>3. ASSUME NEW h \in Helpers, HelperMain(h) PROVE LockInv'
  BY <1>3, ThreadsAssumption DEF LockInv, TypeOK,
       HelperMain, SpinSees, SpinGivesUp, LockStart, TestStart, WaitStart,
       RelockStart, Awake, SeeTag
<1>4. CASE CallerMain
  <2>1. CASE Opened \/ (\E h \in Helpers : StartHelper(h) \/ StartHelperFails(h))
    BY <2>1, ThreadsAssumption, SMTT(30) DEF LockInv, TypeOK,
         Opened, StartHelper, StartHelperFails
  <2>2. CASE \E s \in Shapes : Each(s) \/ EachNothing(s)
    BY <2>2, ThreadsAssumption, SMTT(30) DEF LockInv, TypeOK,
         Each, EachNothing
  <2>3. CASE Publish \/ WakeHelpers \/ WatchSees \/ WatchGivesUp \/ LockWait
    BY <2>3, ThreadsAssumption, SMTT(30) DEF LockInv, TypeOK,
         Publish, WakeHelpers, WatchSees, WatchGivesUp, LockWait
  <2>4. CASE TestDone \/ WaitFinish \/ RelockFinish \/ Return
    BY <2>4, ThreadsAssumption, SMTT(30) DEF LockInv, TypeOK,
         TestDone, WaitFinish, RelockFinish, Return
  <2>5. CASE Close \/ Stop \/ Join
    BY <2>5, ThreadsAssumption, SMTT(30) DEF LockInv, TypeOK,
         Close, Stop, Join
  <2> QED
    BY <1>4, <2>1, <2>2, <2>3, <2>4, <2>5 DEF CallerMain
<1>5. ASSUME NEW t \in Threads, SpuriousWake(t) PROVE LockInv'
  BY <1>5, ThreadsAssumption DEF LockInv, TypeOK, SpuriousWake
<1>6. CASE UNCHANGED vars
  BY <1>6 DEF LockInv, vars
<1>7. QED BY <1>2, <1>3, <1>4, <1>5, <1>6 DEF Next, Terminated

\* Every step keeps the count of sleepers, and the two flags, in agreement with
\* where the threads are.
LEMMA SleepStep ==
  ASSUME TypeOK, LockInv, SleepInv, [Next]_vars
  PROVE  SleepInv'
<1>1. Sleeping \subseteq Helpers /\ IsFiniteSet(Sleeping)
  BY ThreadsAssumption, FS_Subset DEF Sleeping
<1>2. ASSUME NEW t \in Threads, RunItems(t) PROVE SleepInv'
  <2>1. \A h \in Helpers : h \in Sleeping' <=> h \in Sleeping
    BY <1>2, RunItemsFrame, ThreadsAssumption DEF Sleeping, RunLabels, Holding
  <2>2. Sleeping' = Sleeping
    BY <2>1 DEF Sleeping
  <2>3. QED BY <1>2, <2>2, RunItemsFrame, ThreadsAssumption
            DEF SleepInv, RunLabels, Holding
<1>3. ASSUME NEW h \in Helpers, HelperMain(h) PROVE SleepInv'
  <2>1. UNCHANGED <<callerSleeping, shutdown>> /\ pc'[Caller] = pc[Caller]
    BY <1>3, ThreadsAssumption DEF TypeOK,
       HelperMain, SpinSees, SpinGivesUp, LockStart, TestStart, WaitStart,
       RelockStart, Awake, SeeTag
  <2>2. CASE LockStart(h)
    <3>1. Sleeping' = Sleeping \union {h} /\ h \notin Sleeping
      BY <2>2, ThreadsAssumption DEF LockStart, Sleeping, TypeOK
    <3>2. Cardinality(Sleeping') = Cardinality(Sleeping) + 1
      BY <3>1, <1>1, FS_AddElement
    <3>3. QED BY <3>2, <2>1, <2>2 DEF SleepInv, LockStart
  <2>3. CASE TestStart(h) /\ Called(h)
    <3>1. Sleeping' = Sleeping \ {h} /\ h \in Sleeping
      BY <2>3, ThreadsAssumption DEF TestStart, Sleeping, TypeOK
    <3>2. Cardinality(Sleeping') = Cardinality(Sleeping) - 1
      BY <3>1, <1>1, FS_RemoveElement
    <3>3. QED BY <3>2, <2>1, <2>3 DEF SleepInv, TestStart
  <2>4. CASE ~LockStart(h) /\ ~(TestStart(h) /\ Called(h))
    <3>1. Sleeping' = Sleeping /\ UNCHANGED sleepers
      BY <2>4, <1>3, ThreadsAssumption DEF Sleeping, TypeOK,
       HelperMain, SpinSees, SpinGivesUp, LockStart, TestStart, WaitStart,
       RelockStart, Awake, SeeTag
    <3>2. QED BY <3>1, <2>1 DEF SleepInv
  <2>5. QED BY <2>2, <2>3, <2>4
<1>4. CASE CallerMain
  <2>1. Sleeping' = Sleeping /\ UNCHANGED sleepers
    BY <1>4, ThreadsAssumption, ZenonT(30) DEF Sleeping, TypeOK,
       CallerMain, Opened, StartHelper, StartHelperFails, Each, EachNothing, Publish,
       WakeHelpers, WatchSees, WatchGivesUp, LockWait, TestDone, WaitFinish,
       RelockFinish, Return, Close, Stop, Join
  <2>2. QED
    BY <1>4, <2>1, ThreadsAssumption, SMTT(30) DEF SleepInv, TypeOK,
       CallerMain, Opened, StartHelper, StartHelperFails, Each, EachNothing, Publish,
       WakeHelpers, WatchSees, WatchGivesUp, LockWait, TestDone, WaitFinish,
       RelockFinish, Return, Close, Stop, Join
<1>5. ASSUME NEW t \in Threads, SpuriousWake(t) PROVE SleepInv'
  <2>1. Sleeping' = Sleeping
    BY <1>5, ThreadsAssumption DEF Sleeping, TypeOK, SpuriousWake
  <2>2. QED BY <1>5, <2>1, ThreadsAssumption DEF SleepInv, TypeOK, SpuriousWake
<1>6. CASE UNCHANGED vars
  <2>1. Sleeping' = Sleeping
    BY <1>6 DEF Sleeping, vars
  <2>2. QED BY <1>6, <2>1 DEF SleepInv, vars
<1>7. QED BY <1>2, <1>3, <1>4, <1>5, <1>6 DEF Next, Terminated

\* Every step keeps a wake owed for whoever sleeps on a change.
LEMMA WakeStep ==
  ASSUME TypeOK, LockInv, SleepInv, WakeInv, [Next]_vars
  PROVE  WakeInv'
<1>1. \A h \in Helpers : pc[h] = "asleepStart" => sleepers > 0
  <2>1. IsFiniteSet(Sleeping)
    BY ThreadsAssumption, FS_Subset DEF Sleeping
  <2>2. Cardinality(Sleeping) \in Nat /\ (Cardinality(Sleeping) = 0 <=> Sleeping = {})
    BY <2>1, FS_EmptySet, FS_CardinalityType
  <2>3. QED BY <2>2 DEF SleepInv, Sleeping
<1>2. ASSUME NEW t \in Threads, RunItems(t) PROVE WakeInv'
  <2>1. ticket'.tag = ticket.tag
    BY <1>2 DEF TypeOK, Ticket, Current, Signal,
       RunItems, LoadTicket, LeaveItems, TakeBatch, MissBatch, ReadBatch, CheckItem,
       EndBatch, StartItem, ItemSucceeds, ItemFails, RecordFailure, FailLoad,
       FailNothing, FailTake, FailMiss, Finish
  <2>2. \A h \in Helpers :
          pc'[h] \in {"waitStart", "asleepStart"} /\ Called(h)' => pc'[Caller] = "wake"
    BY <1>2, <2>1, RunItemsFrame, ThreadsAssumption
       DEF WakeInv, Called, RunLabels, Holding
  <2>3. ASSUME pc'[Caller] \in {"waitFinish", "asleepFinish"}, RoundOver'
        PROVE  \E h \in Helpers : pc'[h] = "signal"
    <3>1. t # Caller /\ pc[Caller] = pc'[Caller]
      BY <1>2, <2>3, RunItemsFrame, ThreadsAssumption DEF RunLabels, Holding
    <3>2. CASE Finish(t)
      BY <1>2, <2>3, <3>1, <3>2 DEF Finish, RoundOver, TypeOK
    <3>3. CASE Signal(t)
      BY <2>3, <3>1, <3>3, ThreadsAssumption
         DEF Signal, TypeOK, WakeInv, SleepInv, LockInv
    <3>4. CASE ~Finish(t) /\ ~Signal(t)
      <4>1. pc[t] # "signal" /\ UNCHANGED <<done, round>> /\ \E l : pc' = [pc EXCEPT ![t] = l]
        BY <1>2, <3>4 DEF TypeOK,
       RunItems, LoadTicket, LeaveItems, TakeBatch, MissBatch, ReadBatch, CheckItem,
       EndBatch, StartItem, ItemSucceeds, ItemFails, RecordFailure, FailLoad,
       FailNothing, FailTake, FailMiss, Finish
      <4>2. QED BY <2>3, <3>1, <4>1 DEF WakeInv, RoundOver, TypeOK
    <3>5. QED BY <3>2, <3>3, <3>4
  <2>4. QED BY <2>2, <2>3 DEF WakeInv
<1>3. ASSUME NEW h \in Helpers, HelperMain(h) PROVE WakeInv'
  BY <1>3, ThreadsAssumption, SMTT(30) DEF WakeInv, Called, RoundOver, TypeOK,
       HelperMain, SpinSees, SpinGivesUp, LockStart, TestStart, WaitStart,
       RelockStart, Awake, SeeTag
<1>4. CASE CallerMain
  <2>1. CASE Opened \/ (\E h \in Helpers : StartHelper(h) \/ StartHelperFails(h))
    BY <1>1, <2>1, ThreadsAssumption, SMTT(30) DEF WakeInv, LockInv, SleepInv, Called, RoundOver,
         TypeOK,
         Opened, StartHelper, StartHelperFails
  <2>2. CASE \E s \in Shapes : Each(s) \/ EachNothing(s)
    <3>1. pc' \in {pc, [pc EXCEPT ![Caller] = "publish"]} /\ UNCHANGED <<shutdown, ticket, tag>>
          /\ pc[Caller] = "idle"
      BY <2>2 DEF Each, EachNothing
    <3>2. QED BY <3>1, ThreadsAssumption DEF WakeInv, Called, TypeOK
  <2>3. CASE Publish \/ WakeHelpers \/ WatchSees \/ WatchGivesUp \/ LockWait
    BY <1>1, <2>3, ThreadsAssumption, SMTT(30) DEF WakeInv, LockInv, SleepInv, Called, RoundOver,
         TypeOK,
         Publish, WakeHelpers, WatchSees, WatchGivesUp, LockWait
  <2>4. CASE TestDone \/ WaitFinish \/ RelockFinish \/ Return
    BY <1>1, <2>4, ThreadsAssumption, SMTT(30) DEF WakeInv, LockInv, SleepInv, Called, RoundOver,
         TypeOK,
         TestDone, WaitFinish, RelockFinish, Return
  <2>5. CASE Close \/ Stop \/ Join
    BY <1>1, <2>5, ThreadsAssumption, SMTT(30) DEF WakeInv, LockInv, SleepInv, Called, RoundOver,
         TypeOK,
         Close, Stop, Join
  <2> QED
    BY <1>4, <2>1, <2>2, <2>3, <2>4, <2>5 DEF CallerMain
<1>5. ASSUME NEW t \in Threads, SpuriousWake(t) PROVE WakeInv'
  BY <1>5, ThreadsAssumption DEF WakeInv, Called, RoundOver, TypeOK, SpuriousWake
<1>6. CASE UNCHANGED vars
  BY <1>6 DEF WakeInv, Called, RoundOver, vars
<1>7. QED BY <1>2, <1>3, <1>4, <1>5, <1>6 DEF Next, Terminated

-----------------------------------------------------------------------------
(* Tickets, claims and accounts.                                          *)

\* Waiting touches neither items nor claims.
LEMMA WaitFrame ==
  ASSUME TypeOK,
         \/ \E h \in Helpers : HelperMain(h)
         \/ \E t \in Threads : SpuriousWake(t)
         \/ UNCHANGED vars
  PROVE  /\ UNCHANGED <<round, ticket, done, local, hand, claim, settled, fate>>
         /\ \A t \in Threads : /\ pc'[t] \in Holding <=> pc[t] \in Holding
                               /\ pc[t] \in Holding => pc'[t] = pc[t]
         /\ \/ pc'[Caller] = pc[Caller]
            \/ pc[Caller] = "asleepFinish" /\ pc'[Caller] = "wokenFinish"
<1>1. ASSUME NEW h \in Helpers, HelperMain(h)
      PROVE  /\ UNCHANGED <<round, ticket, done, local, hand, claim, settled, fate>>
             /\ \E l : pc' = [pc EXCEPT ![h] = l] /\ l \notin Holding
             /\ pc[h] \notin Holding
  BY <1>1 DEF Holding, TypeOK,
       HelperMain, SpinSees, SpinGivesUp, LockStart, TestStart, WaitStart,
       RelockStart, Awake, SeeTag
<1>2. ASSUME NEW t \in Threads, SpuriousWake(t)
      PROVE  /\ UNCHANGED <<round, ticket, done, local, hand, claim, settled, fate>>
             /\ \E l : pc' = [pc EXCEPT ![t] = l] /\ l \notin Holding
             /\ pc[t] \notin Holding
             /\ t = Caller => pc[Caller] = "asleepFinish" /\ pc'[Caller] = "wokenFinish"
  BY <1>2, ThreadsAssumption DEF SpuriousWake, Holding, TypeOK, CallerLabels, InRound, RunLabels
<1>3. QED BY <1>1, <1>2, ThreadsAssumption DEF TypeOK, vars

\* The caller's steps outside run_items touch neither items nor claims either,
\* the start and the publishing of a round aside; it leaves a round only when
\* the round is over.
LEMMA CallerFrame ==
  ASSUME TypeOK, CallerMain, ~Publish, ~\E s \in Shapes : Each(s)
  PROVE  /\ UNCHANGED <<round, ticket, done, local, hand, claim, settled, fate>>
         /\ \A t \in Threads : \/ pc'[t] \notin Holding /\ pc[t] \notin Holding
                               \/ pc'[t] = pc[t]
         /\ pc'[Caller] # "publish"
         /\ pc'[Caller] = "return" => RoundOver /\ pc[Caller] \in InRound \ {"return"}
         /\ pc'[Caller] \in InRound => pc[Caller] \in InRound
         /\ pc[Caller] \in InRound \ {"return"} => pc'[Caller] \in InRound
<1> USE DEF TypeOK
<1>1. UNCHANGED <<round, ticket, done, local, hand, claim, settled, fate>>
  BY DEF CallerMain, Opened, StartHelper, StartHelperFails, EachNothing, Publish,
       WakeHelpers, WatchSees, WatchGivesUp, LockWait, TestDone, WaitFinish,
       RelockFinish, Return, Close, Stop, Join
<1>2. \A h \in Helpers : \/ pc'[h] \notin Holding /\ pc[h] \notin Holding
                        \/ pc'[h] = pc[h]
  BY ThreadsAssumption, SMTT(30) DEF Holding, CallerMain, Opened, StartHelper, StartHelperFails, EachNothing, Publish,
       WakeHelpers, WatchSees, WatchGivesUp, LockWait, TestDone, WaitFinish,
       RelockFinish, Return, Close, Stop, Join
<1>3. /\ \/ pc'[Caller] \notin Holding /\ pc[Caller] \notin Holding
         \/ pc'[Caller] = pc[Caller]
      /\ pc'[Caller] # "publish"
      /\ pc'[Caller] = "return" => RoundOver /\ pc[Caller] \in InRound \ {"return"}
      /\ pc'[Caller] \in InRound => pc[Caller] \in InRound
      /\ pc[Caller] \in InRound \ {"return"} => pc'[Caller] \in InRound
  BY ThreadsAssumption, SMTT(30) DEF Holding, InRound, CallerMain, Opened, StartHelper, StartHelperFails, EachNothing, Publish,
       WakeHelpers, WatchSees, WatchGivesUp, LockWait, TestDone, WaitFinish,
       RelockFinish, Return, Close, Stop, Join
<1>4. QED BY <1>1, <1>2, <1>3

\* A thread that takes a batch does so inside a round, and the batch has items.
LEMMA TakeInRound ==
  ASSUME TypeOK, TicketInv, NEW t \in Threads,
         ~Exhausted(local[t], tag[t]), Current(t)
  PROVE  /\ local[t] = ticket /\ ticket.next \in Nat /\ ticket.batches \in Nat
         /\ ticket.next < ticket.batches
         /\ pc[Caller] \in InRound
         /\ round.batch > 0
         /\ ticket.next * round.batch < round.items
<1>1. local[t] = ticket /\ ticket.next \in Nat /\ ticket.batches \in Nat
  BY DEF Current, TypeOK, Ticket
<1>2. ticket.next < ticket.batches
  BY <1>1 DEF Exhausted
<1>3. pc[Caller] \in InRound
  BY <1>1, <1>2 DEF TicketInv
<1>4. round.batch > 0 /\ (ticket.batches - 1) * round.batch < round.items
  BY <1>3 DEF TicketInv
<1>5. /\ ticket.batches - 1 \in Nat /\ ticket.next <= ticket.batches - 1
      /\ round.batch \in Nat /\ round.items \in Nat
  BY <1>1, <1>2 DEF TypeOK
<1>6. ticket.next * round.batch <= (ticket.batches - 1) * round.batch
  BY <1>1, <1>5, TimesMonotone
<1>7. ticket.next * round.batch \in Nat /\ (ticket.batches - 1) * round.batch \in Nat
  BY <1>1, <1>5, TimesSuccessor
<1>8. QED BY <1>1, <1>2, <1>3, <1>4, <1>5, <1>6, <1>7

\* Once done counts every item, nothing is left on the ticket or in a hand.
LEMMA OverMeansSettled ==
  ASSUME Inv, pc[Caller] \in InRound, RoundOver
  PROVE  /\ settled = AllItems
         /\ \A t \in Threads : claim[t] = {} /\ pc[t] \notin Holding
         /\ ticket.next >= ticket.batches
<1>1. settled = AllItems
  BY ItemsFinite DEF Inv, AccountInv, RoundOver, TypeOK
<1>2. \A t \in Threads : claim[t] = {} /\ pc[t] \notin Holding
  BY <1>1 DEF Inv, AccountInv, TypeOK, HandInv, HandOk
<1>3. ticket.next \in Nat /\ ticket.batches \in Nat
  BY DEF Inv, TypeOK, Ticket
<1>4. ItemsFrom(ticket.next) = {}
  BY <1>1 DEF Inv, AccountInv, ItemsFrom
<1>5. ticket.next * round.batch >= round.items
  BY <1>3, <1>4, SkippedFacts DEF Inv
<1>6. ASSUME ticket.next < ticket.batches PROVE FALSE
  <2>1. /\ ticket.batches - 1 \in Nat /\ ticket.next <= ticket.batches - 1
        /\ round.batch \in Nat /\ round.items \in Nat
    BY <1>3, <1>6 DEF Inv, TypeOK
  <2>2. ticket.next * round.batch <= (ticket.batches - 1) * round.batch
    BY <1>3, <2>1, TimesMonotone
  <2>3. ticket.next * round.batch \in Nat /\ (ticket.batches - 1) * round.batch \in Nat
    BY <1>3, <2>1, TimesSuccessor
  <2>4. QED BY <1>5, <2>1, <2>2, <2>3 DEF Inv, TicketInv
<1>7. QED BY <1>2, <1>1, <1>3, <1>6

\* Every step keeps the batches of the round exact.
LEMMA TicketStep ==
  ASSUME Inv, [Next]_vars
  PROVE  TicketInv'
<1>1. TypeOK /\ TicketInv /\ AccountInv
  BY DEF Inv
<1>2. ASSUME NEW t \in Threads, RunItems(t) PROVE TicketInv'
  <2>1. /\ pc'[Caller] \in InRound <=> pc[Caller] \in InRound
        /\ pc'[Caller] = "publish" <=> pc[Caller] = "publish"
        /\ UNCHANGED round
    BY <1>1, <1>2, RunItemsFrame, ThreadsAssumption DEF InRound, RunLabels, Holding
  <2>2. CASE TakeBatch(t) \/ FailTake(t)
    <3>1. pc[Caller] \in InRound /\ ticket.next < ticket.batches /\ local[t] = ticket
      BY <1>1, <2>2, TakeInRound DEF TakeBatch, FailTake
    <3>2. ticket' \in Ticket /\ ticket'.batches = ticket.batches
          /\ ticket'.next <= ticket.batches
      BY <1>1, <2>2, <3>1 DEF TakeBatch, FailTake, Ticket, TypeOK
    <3>3. QED BY <1>1, <2>1, <3>1, <3>2 DEF TicketInv
  <2>3. CASE ~TakeBatch(t) /\ ~FailTake(t)
    <3>1. UNCHANGED ticket
      BY <1>2, <2>3 DEF Signal, RunItems, LoadTicket, LeaveItems, TakeBatch, MissBatch, ReadBatch, CheckItem,
       EndBatch, StartItem, ItemSucceeds, ItemFails, RecordFailure, FailLoad,
       FailNothing, FailTake, FailMiss, Finish
    <3>2. QED BY <1>1, <2>1, <3>1 DEF TicketInv
  <2>4. QED BY <2>2, <2>3
<1>3. CASE Publish
  <2>1. round.items \in Nat \ {0} /\ round.batch \in Nat \ {0}
    BY <1>1, <1>3 DEF Publish, TicketInv, TypeOK
  <2>2. pc'[Caller] \in InRound /\ UNCHANGED round
    BY <1>1, <1>3 DEF Publish, TypeOK, InRound
  <2>3. ticket'.next = 0 /\ ticket'.batches = CeilDiv(round.items, round.batch)
    BY <1>3 DEF Publish
  <2>4. QED BY <2>1, <2>2, <2>3, CeilDivBounds DEF TicketInv
<1>4. ASSUME NEW s \in Shapes, Each(s) PROVE TicketInv'
  <2>1. round'.items = Items(s) /\ round'.batch = Batch(Items(s)) /\ s.len > 0
    BY <1>4 DEF Each
  <2>2. round'.items > 0 /\ round'.batch > 0
    BY <2>1, ItemsPositive, BatchPositive
  <2>3. /\ pc[Caller] \notin InRound /\ pc'[Caller] \notin InRound
        /\ UNCHANGED ticket
    BY <1>1, <1>4 DEF Each, TypeOK, InRound, Holding
  <2>4. QED BY <1>1, <2>2, <2>3 DEF TicketInv
<1>5. CASE CallerMain /\ ~Publish /\ ~\E s \in Shapes : Each(s)
  <2>1. CASE pc[Caller] = "return" /\ pc'[Caller] \notin InRound
    <3>1. ticket.next >= ticket.batches
      BY <1>1, <2>1, OverMeansSettled DEF AccountInv, RoundOver, InRound
    <3>2. QED BY <1>1, <1>5, <2>1, <3>1, CallerFrame DEF TicketInv
  <2>2. CASE ~(pc[Caller] = "return" /\ pc'[Caller] \notin InRound)
    BY <1>1, <1>5, <2>2, CallerFrame DEF TicketInv
  <2>3. QED BY <2>1, <2>2
<1>6. CASE \/ \E h \in Helpers : HelperMain(h)
           \/ \E t \in Threads : SpuriousWake(t)
           \/ UNCHANGED vars
  BY <1>1, <1>6, WaitFrame DEF TicketInv, InRound
<1>7. QED BY <1>2, <1>3, <1>4, <1>5, <1>6 DEF Next, Terminated

\* Every step keeps each thread's hand in agreement with its claim.
LEMMA HandStep ==
  ASSUME Inv, [Next]_vars
  PROVE  HandInv'
<1>1. TypeOK /\ TicketInv /\ AccountInv /\ HandInv
  BY DEF Inv
<1>2. ASSUME NEW t \in Threads, RunItems(t) PROVE HandInv'
  <2>1. ASSUME NEW u \in Threads \ {t}
        PROVE  /\ claim'[u] = claim[u] /\ local'[u] = local[u] /\ hand'[u] = hand[u]
               /\ pc'[u] \in Holding <=> pc[u] \in Holding
               /\ pc[u] \in Holding => pc'[u] = pc[u]
    <3>1. claim'[u] = claim[u] /\ local'[u] = local[u] /\ hand'[u] = hand[u]
      BY <1>1, <1>2 DEF TypeOK, Signal, RunItems, LoadTicket, LeaveItems, TakeBatch, MissBatch, ReadBatch, CheckItem,
       EndBatch, StartItem, ItemSucceeds, ItemFails, RecordFailure, FailLoad,
       FailNothing, FailTake, FailMiss, Finish
    <3>2. QED BY <1>1, <1>2, <3>1, RunItemsFrame DEF Holding
  <2>2. UNCHANGED round
    BY <1>1, <1>2, RunItemsFrame
  <2>3. ASSUME NEW u \in Threads \ {t} PROVE HandOk(u)'
    <3>1. HandOk(u)
      BY <1>1 DEF HandInv
    <3>2. BatchItems(local[u].next)' = BatchItems(local[u].next)
      BY <2>1, <2>2 DEF BatchItems, AllItems
    <3>3. pc'[u] \notin Holding => pc'[u] # "read" /\ pc'[u] # "start"
      BY DEF Holding
    <3>4. QED BY <2>1, <2>2, <3>1, <3>2, <3>3 DEF HandOk
  <2> SUFFICES HandOk(t)'
    BY <2>3 DEF HandInv
  <2>4. CASE TakeBatch(t)
    <3>1. BatchItems(ticket.next) # {} /\ ticket.next * round.batch < round.items
          /\ local[t] = ticket
      BY <1>1, <2>4, TakeInRound, BatchFacts DEF TakeBatch
    <3>2. pc'[t] = "read" /\ claim'[t] = BatchItems(ticket.next) /\ local'[t] = ticket
      BY <1>1, <2>4, <3>1 DEF TakeBatch, TypeOK
    <3>3. QED BY <2>2, <3>1, <3>2 DEF Holding, HandOk, BatchItems, AllItems
  <2>5. CASE ReadBatch(t)
    <3>1. /\ claim[t] = BatchItems(local[t].next) /\ claim[t] # {}
          /\ local[t].next * round.batch < round.items /\ local[t].next \in Nat
      BY <1>1, <2>5 DEF ReadBatch, HandInv, HandOk, Holding, TypeOK, Ticket
    <3>2. round.batch > 0
      BY <1>1, <3>1 DEF AccountInv, TicketInv
    <3>3. LET first == local[t].next * round.batch
              end == AtMost(first + round.batch, round.items)
          IN  hand'[t] = [index |-> first, end |-> end, finished |-> end - first]
      BY <1>1, <2>5 DEF ReadBatch, TypeOK
    <3>4. pc'[t] = "item" /\ claim' = claim
      BY <1>1, <2>5 DEF ReadBatch, TypeOK
    <3>5. hand'[t].finished = Cardinality(claim[t]) /\ hand'[t].end <= round.items
      BY <1>1, <3>1, <3>2, <3>3, BatchFacts
    <3>6. QED BY <2>2, <3>1, <3>4, <3>5 DEF Holding, HandOk
  <2>6. CASE FailTake(t)
    <3>1. pc[Caller] \in InRound /\ local[t] = ticket /\ ticket.next \in Nat
      BY <1>1, <2>6, TakeInRound DEF FailTake
    <3>2. /\ claim[t] # {} /\ claim[t] \in SUBSET AllItems
          /\ hand[t].finished = Cardinality(claim[t]) /\ hand[t].end <= round.items
      BY <1>1, <2>6 DEF FailTake, HandInv, HandOk, Holding, TypeOK
    <3>3. claim[t] \intersect ItemsFrom(ticket.next) = {}
      BY <1>1, <3>1 DEF AccountInv
    <3>4. /\ IsFiniteSet(claim[t]) /\ IsFiniteSet(ItemsFrom(ticket.next))
          /\ Cardinality(claim[t]) \in Nat
          /\ Cardinality(ItemsFrom(ticket.next)) = Skipped(ticket.next)
          /\ Skipped(ticket.next) \in Nat
      BY <1>1, <3>1, <3>2, SkippedFacts, ItemsFinite
    <3>5. Cardinality(claim[t] \union ItemsFrom(ticket.next))
            = Cardinality(claim[t]) + Skipped(ticket.next)
      BY <3>3, <3>4, DisjointSum
    <3>6. /\ claim'[t] = claim[t] \union ItemsFrom(ticket.next)
          /\ hand'[t].finished = hand[t].finished + Skipped(ticket.next)
          /\ hand'[t].end = hand[t].end /\ pc'[t] = "finish"
      BY <1>1, <2>6, <3>1 DEF FailTake, TypeOK
    <3>7. QED BY <2>2, <3>2, <3>5, <3>6 DEF Holding, HandOk
  <2>7. CASE Finish(t)
    BY <1>1, <2>7 DEF HandOk, Finish, TypeOK, Holding
  <2>8. CASE \/ LoadTicket(t) \/ LeaveItems(t) \/ MissBatch(t) \/ Signal(t)
    BY <1>1, <2>8 DEF HandInv, HandOk, LoadTicket, LeaveItems, MissBatch, Signal, TypeOK, Holding
  <2>9. CASE \/ CheckItem(t) \/ EndBatch(t) \/ StartItem(t) \/ ItemSucceeds(t)
             \/ ItemFails(t) \/ RecordFailure(t) \/ FailLoad(t) \/ FailNothing(t)
             \/ FailMiss(t)
    <3>1. /\ pc[t] \in Holding \ {"read"} /\ pc'[t] \in Holding \ {"read"}
          /\ claim' = claim /\ hand'[t].finished = hand[t].finished
          /\ hand'[t].end = hand[t].end
      BY <1>1, <2>9, SMTT(30) DEF TypeOK, Holding, CheckItem, EndBatch, StartItem,
         ItemSucceeds, ItemFails, RecordFailure, FailLoad, FailNothing, FailMiss
    <3>2. pc'[t] = "start" => hand'[t].index < hand'[t].end
      BY <1>1, <2>9, SMTT(30) DEF TypeOK, CheckItem, EndBatch, StartItem,
         ItemSucceeds, ItemFails, RecordFailure, FailLoad, FailNothing, FailMiss
    <3>3. QED BY <1>1, <2>2, <3>1, <3>2 DEF HandInv, HandOk, Holding
  <2>10. QED BY <1>2, <2>4, <2>5, <2>6, <2>7, <2>8, <2>9 DEF RunItems
<1>3. CASE Publish \/ \E s \in Shapes : Each(s)
  <2>1. pc[Caller] \notin InRound /\ \A t \in Threads : pc'[t] \notin Holding <=> pc[t] \notin Holding
    BY <1>1, <1>3 DEF Publish, Each, TypeOK, InRound, Holding
  <2>2. claim' = claim /\ \A t \in Threads : claim[t] = {}
    BY <1>1, <1>3, <2>1 DEF Publish, Each, AccountInv
  <2>3. \A t \in Threads : claim'[t] = {} /\ pc'[t] \notin Holding
    BY <1>1, <2>1, <2>2 DEF HandInv, HandOk
  <2>4. QED BY <2>3 DEF HandInv, HandOk, Holding
<1>4. CASE CallerMain /\ ~Publish /\ ~\E s \in Shapes : Each(s)
  BY <1>1, <1>4, CallerFrame DEF HandInv, HandOk, BatchItems, AllItems, Holding
<1>5. CASE \/ \E h \in Helpers : HelperMain(h)
           \/ \E t \in Threads : SpuriousWake(t)
           \/ UNCHANGED vars
  BY <1>1, <1>5, WaitFrame DEF HandInv, HandOk, BatchItems, AllItems, Holding
<1>6. QED BY <1>2, <1>3, <1>4, <1>5 DEF Next, Terminated

\* Every step keeps the accounts of the round balanced.
LEMMA AccountStep ==
  ASSUME Inv, [Next]_vars
  PROVE  AccountInv'
<1>1. TypeOK /\ TicketInv /\ AccountInv /\ HandInv
  BY DEF Inv
<1>2. ASSUME NEW t \in Threads, RunItems(t) PROVE AccountInv'
  <2>1. /\ pc'[Caller] \in InRound <=> pc[Caller] \in InRound
        /\ pc'[Caller] = "return" <=> pc[Caller] = "return"
        /\ pc'[Caller] = "publish" <=> pc[Caller] = "publish"
        /\ UNCHANGED round
    BY <1>1, <1>2, RunItemsFrame, ThreadsAssumption DEF InRound, RunLabels, Holding
  <2>2. CASE TakeBatch(t)
    <3>1. /\ pc[Caller] \in InRound /\ local[t] = ticket /\ ticket.next \in Nat
          /\ round.batch > 0 /\ ticket.next * round.batch < round.items
      BY <1>1, <2>2, TakeInRound DEF TakeBatch
    <3>2. /\ ItemsFrom(ticket.next) = BatchItems(ticket.next) \union ItemsFrom(ticket.next + 1)
          /\ BatchItems(ticket.next) \intersect ItemsFrom(ticket.next + 1) = {}
          /\ BatchItems(ticket.next) # {} /\ BatchItems(ticket.next) \in SUBSET AllItems
      BY <1>1, <3>1, BatchFacts
    <3>3. /\ claim' = [claim EXCEPT ![t] = BatchItems(ticket.next)]
          /\ ticket'.next = ticket.next + 1 /\ UNCHANGED <<done, settled>>
          /\ claim[t] = {}
      BY <1>1, <2>2, <3>1
         DEF TakeBatch, TypeOK, Ticket, HandInv, HandOk, Holding
    <3>4. /\ ItemsFrom(ticket.next)' = ItemsFrom(ticket.next + 1) /\ AllItems' = AllItems
      BY <2>1, <3>3 DEF ItemsFrom, AllItems
    <3>5. pc[Caller] # "return"
      BY <1>1, <3>1, <3>2, OverMeansSettled DEF AccountInv, RoundOver
    <3>6. pc[Caller] # "publish"
      BY <3>1 DEF InRound, Holding
    <3>7. \A u, v \in Threads : u # v => claim'[u] \intersect claim'[v] = {}
      BY <1>1, <3>1, <3>2, <3>3 DEF AccountInv, TypeOK
    <3>8. \A u \in Threads : /\ claim'[u] \intersect settled = {}
                            /\ claim'[u] \intersect ItemsFrom(ticket.next + 1) = {}
      BY <1>1, <3>1, <3>2, <3>3 DEF AccountInv, TypeOK
    <3>9. settled \intersect ItemsFrom(ticket.next + 1) = {}
      BY <1>1, <3>1, <3>2 DEF AccountInv
    <3>10. \A j \in AllItems : \/ j \in settled \/ j \in ItemsFrom(ticket.next + 1)
                              \/ \E u \in Threads : j \in claim'[u]
      BY <1>1, <3>1, <3>2, <3>3 DEF AccountInv, TypeOK
    <3>11. QED BY <1>1, <2>1, <3>1, <3>3, <3>4, <3>5, <3>6, <3>7, <3>8, <3>9, <3>10
               DEF AccountInv
  <2>3. CASE FailTake(t)
    <3>1. /\ pc[Caller] \in InRound /\ local[t] = ticket /\ ticket.next \in Nat
          /\ ticket.batches \in Nat
      BY <1>1, <2>3, TakeInRound DEF FailTake
    <3>2. /\ claim' = [claim EXCEPT ![t] = @ \union ItemsFrom(ticket.next)]
          /\ ticket'.next = ticket.batches /\ UNCHANGED <<done, settled>>
          /\ claim[t] # {}
      BY <1>1, <2>3, <3>1 DEF FailTake, TypeOK, Ticket, HandInv, HandOk, Holding
    <3>3. ItemsFrom(ticket.batches) = {}
      BY <1>1, <3>1, SkippedFacts DEF TicketInv
    <3>4. ItemsFrom(ticket.next)' = {} /\ AllItems' = AllItems
      BY <2>1, <3>2, <3>3 DEF ItemsFrom, AllItems
    <3>5. pc[Caller] # "return" /\ pc[Caller] # "publish"
      BY <1>1, <3>1, <3>2 DEF AccountInv, InRound, Holding
    <3>6. \A u, v \in Threads : u # v => claim'[u] \intersect claim'[v] = {}
      BY <1>1, <3>1, <3>2 DEF AccountInv, TypeOK
    <3>7. \A u \in Threads : claim'[u] \intersect settled = {}
      BY <1>1, <3>1, <3>2 DEF AccountInv, TypeOK
    <3>8. \A j \in AllItems : j \in settled \/ \E u \in Threads : j \in claim'[u]
      BY <1>1, <3>1, <3>2 DEF AccountInv, TypeOK
    <3>9. QED BY <1>1, <2>1, <3>1, <3>2, <3>4, <3>5, <3>6, <3>7, <3>8 DEF AccountInv
  <2>4. CASE Finish(t)
    <3>1. /\ claim[t] # {} /\ claim[t] \in SUBSET AllItems
          /\ hand[t].finished = Cardinality(claim[t])
          /\ settled \in SUBSET AllItems
      BY <1>1, <2>4 DEF Finish, TypeOK, HandInv, HandOk, Holding
    <3>2. /\ claim' = [claim EXCEPT ![t] = {}] /\ settled' = settled \union claim[t]
          /\ done' = done + Cardinality(claim[t]) /\ UNCHANGED ticket
      BY <2>4, <3>1 DEF Finish, Finished
    <3>3. done' = Cardinality(settled')
      <4>1. claim[t] \intersect settled = {}
        BY <1>1 DEF AccountInv
      <4>2. IsFiniteSet(settled) /\ IsFiniteSet(claim[t])
        BY <1>1, <3>1, ItemsFinite
      <4>3. QED BY <1>1, <3>2, <4>1, <4>2, DisjointSum DEF AccountInv
    <3>4. AllItems' = AllItems /\ ItemsFrom(ticket.next)' = ItemsFrom(ticket.next)
      BY <2>1, <3>2 DEF ItemsFrom, AllItems
    <3>5. pc[Caller] \in InRound \ {"return"}
      BY <1>1, <3>1 DEF AccountInv
    <3>6. \A u, v \in Threads : u # v => claim'[u] \intersect claim'[v] = {}
      BY <1>1, <3>2 DEF AccountInv, TypeOK
    <3>7. \A u \in Threads : /\ claim'[u] \intersect settled' = {}
                            /\ claim'[u] \intersect ItemsFrom(ticket.next) = {}
      BY <1>1, <3>2, <3>5 DEF AccountInv, TypeOK
    <3>8. settled' \intersect ItemsFrom(ticket.next) = {}
      BY <1>1, <3>2, <3>5 DEF AccountInv
    <3>9. \A j \in AllItems : \/ j \in settled' \/ j \in ItemsFrom(ticket.next)
                             \/ \E u \in Threads : j \in claim'[u]
      BY <1>1, <3>2, <3>5 DEF AccountInv, TypeOK
    <3>10. pc[Caller] # "publish"
      BY <3>5 DEF InRound, Holding
    <3>11. QED BY <2>1, <3>3, <3>4, <3>5, <3>6, <3>7, <3>8, <3>9, <3>10 DEF AccountInv
  <2>5. CASE ~TakeBatch(t) /\ ~FailTake(t) /\ ~Finish(t)
    <3>1. UNCHANGED <<done, settled, claim, ticket>>
      BY <1>2, <2>5 DEF Signal, RunItems, LoadTicket, LeaveItems, TakeBatch, MissBatch, ReadBatch, CheckItem,
       EndBatch, StartItem, ItemSucceeds, ItemFails, RecordFailure, FailLoad,
       FailNothing, FailTake, FailMiss, Finish
    <3>2. AllItems' = AllItems /\ ItemsFrom(ticket.next)' = ItemsFrom(ticket.next)
      BY <2>1, <3>1 DEF ItemsFrom, AllItems
    <3>3. QED BY <1>1, <2>1, <3>1, <3>2 DEF AccountInv
  <2>6. QED BY <2>2, <2>3, <2>4, <2>5
<1>3. CASE Publish
  <2>1. /\ pc[Caller] = "publish" /\ pc'[Caller] \in InRound \ {"return"}
        /\ UNCHANGED <<round, done, settled, claim>> /\ ticket'.next = 0
        /\ pc'[Caller] # "publish"
    BY <1>1, <1>3 DEF Publish, TypeOK, InRound
  <2>2. (\A t \in Threads : claim[t] = {}) /\ settled = {}
    BY <1>1, <2>1 DEF AccountInv, InRound, Holding
  <2>3. AllItems' = AllItems /\ ItemsFrom(ticket.next)' = AllItems
    BY <1>1, <2>1 DEF ItemsFrom, AllItems, TypeOK
  <2>4. QED BY <1>1, <2>1, <2>2, <2>3 DEF AccountInv
<1>4. ASSUME NEW s \in Shapes, Each(s) PROVE AccountInv'
  <2>1. /\ pc[Caller] = "idle" /\ pc'[Caller] = "publish"
        /\ done' = 0 /\ settled' = {} /\ UNCHANGED claim
    BY <1>1, <1>4 DEF Each, TypeOK
  <2>2. \A t \in Threads : claim[t] = {}
    BY <1>1, <2>1 DEF AccountInv, InRound, Holding
  <2>3. QED BY <2>1, <2>2, FS_EmptySet DEF AccountInv, InRound, Holding
<1>5. CASE CallerMain /\ ~Publish /\ ~\E s \in Shapes : Each(s)
  <2>1. AllItems' = AllItems /\ ItemsFrom(ticket.next)' = ItemsFrom(ticket.next)
    BY <1>1, <1>5, CallerFrame DEF ItemsFrom, AllItems
  <2>2. CASE pc'[Caller] = "return"
    <3>1. RoundOver /\ \A t \in Threads : claim[t] = {}
      BY <1>1, <1>5, <2>2, CallerFrame, OverMeansSettled
    <3>2. QED BY <1>1, <1>5, <2>1, <2>2, <3>1, CallerFrame DEF AccountInv, RoundOver, InRound
  <2>3. CASE pc'[Caller] # "return"
    BY <1>1, <1>5, <2>1, <2>3, CallerFrame DEF AccountInv
  <2>4. QED BY <2>2, <2>3
<1>6. CASE \/ \E h \in Helpers : HelperMain(h)
           \/ \E t \in Threads : SpuriousWake(t)
           \/ UNCHANGED vars
  <2>1. AllItems' = AllItems /\ ItemsFrom(ticket.next)' = ItemsFrom(ticket.next)
    BY <1>1, <1>6, WaitFrame DEF ItemsFrom, AllItems
  <2>2. QED BY <1>1, <1>6, <2>1, WaitFrame DEF AccountInv, InRound
<1>7. QED BY <1>2, <1>3, <1>4, <1>5, <1>6 DEF Next, Terminated

\* Every step keeps the scratch runs of a strided round.
LEMMA ScratchStep ==
  ASSUME TypeOK, ScratchInv, [Next]_vars
  PROVE  ScratchInv'
<1> DEFINE Inside == pc[Caller] \in InRound \union {"publish"}
<1>1. ASSUME NEW t \in Threads, RunItems(t) PROVE ScratchInv'
  <2>1. UNCHANGED <<round, scratch>> /\ (Inside' => Inside)
    BY <1>1, RunItemsFrame, ThreadsAssumption DEF InRound, RunLabels
  <2>2. QED BY <2>1 DEF ScratchInv
<1>2. ASSUME NEW h \in Helpers, HelperMain(h) PROVE ScratchInv'
  BY <1>2, ThreadsAssumption DEF ScratchInv, TypeOK,
       HelperMain, SpinSees, SpinGivesUp, LockStart, TestStart, WaitStart,
       RelockStart, Awake, SeeTag
<1>3. CASE CallerMain
  <2>1. ASSUME NEW s \in Shapes, Each(s) PROVE ScratchInv'
    BY <2>1 DEF Each, ScratchInv
  <2>2. CASE Return
    BY <2>2 DEF Return, ScratchInv, TypeOK, InRound, Holding
  <2>3. CASE ~Return /\ ~\E s \in Shapes : Each(s)
    <3>1. UNCHANGED <<round, scratch>>
      BY <1>3, <2>3 DEF CallerMain, Opened, StartHelper, StartHelperFails, Each, EachNothing, Publish,
       WakeHelpers, WatchSees, WatchGivesUp, LockWait, TestDone, WaitFinish,
       RelockFinish, Return, Close, Stop, Join
    <3>2. Inside' => Inside
      BY <1>3, <2>3, CallerFrame DEF Publish
    <3>3. QED BY <3>1, <3>2 DEF ScratchInv
  <2>4. QED BY <2>1, <2>2, <2>3
<1>4. ASSUME NEW t \in Threads, SpuriousWake(t) PROVE ScratchInv'
  <2>1. UNCHANGED <<round, scratch>> /\ (Inside' => Inside)
    BY <1>4, WaitFrame DEF SpuriousWake, InRound
  <2>2. QED BY <2>1 DEF ScratchInv
<1>5. CASE UNCHANGED vars
  BY <1>5 DEF ScratchInv, vars
<1>6. QED BY <1>1, <1>2, <1>3, <1>4, <1>5 DEF Next, Terminated

\* Every step leaves a helper that runs, waits or sleeps the stack it runs on.
LEMMA StackStep ==
  ASSUME TypeOK, StackInv, [Next]_vars
  PROVE  StackInv'
<1> DEFINE Gone == {"unstarted", "exited"}
<1>1. ASSUME stacks' = stacks, \A h \in Helpers : pc[h] \in Gone => pc'[h] \in Gone
      PROVE  StackInv'
  BY <1>1 DEF StackInv
<1>2. ASSUME NEW t \in Threads, RunItems(t) PROVE StackInv'
  BY <1>1, <1>2, RunItemsFrame, ThreadsAssumption DEF outside, RunLabels, Holding
<1>3. ASSUME NEW h \in Helpers, HelperMain(h) PROVE StackInv'
  <2>1. stacks' = stacks /\ pc[h] \notin Gone /\ \E l : pc' = [pc EXCEPT ![h] = l]
    BY <1>3 DEF outside, TypeOK,
       HelperMain, SpinSees, SpinGivesUp, LockStart, TestStart, WaitStart,
       RelockStart, Awake, SeeTag
  <2>2. QED BY <1>1, <2>1 DEF TypeOK
<1>4. CASE CallerMain
  <2>1. ASSUME NEW h \in Helpers, StartHelper(h) \/ StartHelperFails(h) PROVE StackInv'
    BY <2>1, ThreadsAssumption DEF StackInv, TypeOK, StartHelper, StartHelperFails
  <2>2. CASE Join
    BY <2>2, ThreadsAssumption DEF StackInv, TypeOK, Join, Joined
  <2>3. CASE Stop
    BY <1>1, <2>3, ThreadsAssumption DEF TypeOK, Stop, outside
  <2>4. ASSUME NEW s \in Shapes, Each(s) \/ EachNothing(s) PROVE StackInv'
    BY <1>1, <2>4, ThreadsAssumption DEF TypeOK, Each, EachNothing
  <2>5. CASE Opened \/ Publish \/ WakeHelpers \/ WatchSees \/ WatchGivesUp \/ LockWait
    BY <1>1, <2>5, ThreadsAssumption, SMTT(30) DEF TypeOK, outside,
       Opened, Publish, WakeHelpers, WatchSees, WatchGivesUp, LockWait
  <2>6. CASE TestDone \/ WaitFinish \/ RelockFinish \/ Return \/ Close
    BY <1>1, <2>6, ThreadsAssumption, SMTT(30) DEF TypeOK, outside,
       TestDone, WaitFinish, RelockFinish, Return, Close
  <2>7. QED BY <1>4, <2>1, <2>2, <2>3, <2>4, <2>5, <2>6 DEF CallerMain
<1>5. ASSUME NEW t \in Threads, SpuriousWake(t) PROVE StackInv'
  BY <1>1, <1>5, ThreadsAssumption DEF TypeOK, SpuriousWake, outside
<1>6. CASE UNCHANGED vars
  BY <1>1, <1>6 DEF vars, outside
<1>7. QED BY <1>2, <1>3, <1>4, <1>5, <1>6 DEF Next, Terminated

-----------------------------------------------------------------------------
(* Types.                                                                 *)

\* A step of run_items keeps the types.
LEMMA TypeRunItems ==
  ASSUME Inv, NEW t \in Threads, RunItems(t)
  PROVE  TypeOK'
<1>1. TypeOK /\ TicketInv /\ AccountInv /\ HandInv
  BY DEF Inv
<1>2. /\ pc' \in [Threads -> HelperLabels \union CallerLabels]
      /\ pc'[Caller] \in CallerLabels
      /\ \A h \in Helpers : pc'[h] \in HelperLabels
  BY <1>1, RunItemsFrame, ThreadsAssumption DEF TypeOK, HelperLabels, CallerLabels, InRound, RunLabels, Holding
<1>3. UNCHANGED <<sync, fields, outside, tag>> /\ AllItems' = AllItems
  BY <1>1, RunItemsFrame DEF AllItems
<1>4. SUFFICES /\ ticket' \in Ticket /\ done' \in Nat /\ failure' \in Failures \union {Ok}
               /\ local' \in [Threads -> Ticket]
               /\ hand' \in [Threads -> [index : Nat, end : Nat, finished : Nat]]
               /\ code' \in [Threads -> Failures \union {Ok}]
               /\ fate' \in [AllItems -> Fates]
               /\ claim' \in [Threads -> SUBSET AllItems]
               /\ settled' \subseteq AllItems
  BY <1>1, <1>2, <1>3 DEF TypeOK
<1>5. CASE TakeBatch(t)
  <2>1. ticket' \in Ticket /\ BatchItems(local[t].next) \in SUBSET AllItems
    BY <1>1, <1>5 DEF TakeBatch, TypeOK, Ticket, BatchItems
  <2>2. QED BY <1>1, <1>5, <2>1 DEF TakeBatch, TypeOK
<1>6. CASE ReadBatch(t)
  <2>1. /\ claim[t] # {}
        /\ local[t].next * round.batch < round.items /\ local[t].next \in Nat
    BY <1>1, <1>6 DEF ReadBatch, HandInv, HandOk, Holding, TypeOK, Ticket
  <2>2. round.batch > 0
    BY <1>1, <2>1 DEF AccountInv, TicketInv
  <2>3. LET first == local[t].next * round.batch
            end == AtMost(first + round.batch, round.items)
        IN  first \in Nat /\ end \in Nat /\ end - first \in Nat
    BY <1>1, <2>1, <2>2, BatchFacts
  <2>4. QED BY <1>1, <1>6, <2>3 DEF ReadBatch, TypeOK
<1>7. CASE FailTake(t)
  <2>1. /\ ticket' \in Ticket /\ local[t].next \in Nat
        /\ ItemsFrom(local[t].next) \in SUBSET AllItems
    BY <1>1, <1>7 DEF FailTake, TypeOK, Ticket, ItemsFrom
  <2>2. Skipped(local[t].next) \in Nat
    BY <1>1, <2>1, SkippedFacts
  <2>3. QED BY <1>1, <1>7, <2>1, <2>2 DEF FailTake, TypeOK
<1>8. CASE Finish(t)
  <2>1. NoTicket \in Ticket /\ NoHand \in [index : Nat, end : Nat, finished : Nat]
    BY LimitsAssumption DEF NoTicket, Ticket, NoHand
  <2>2. QED BY <1>1, <1>8, <2>1 DEF Finish, Finished, TypeOK
<1>9. CASE StartItem(t)
  <2>1. hand[t].index \in AllItems
    <3>1. /\ hand[t].index < hand[t].end /\ hand[t].end <= round.items
          /\ hand[t].index \in Nat /\ hand[t].end \in Nat /\ round.items \in Nat
      BY <1>1, <1>9 DEF StartItem, HandInv, HandOk, Holding, TypeOK
    <3>2. QED BY <3>1 DEF AllItems
  <2>2. QED BY <1>1, <1>9, <2>1 DEF StartItem, TypeOK, Fates
<1>10. CASE ItemSucceeds(t) \/ ItemFails(t) \/ RecordFailure(t)
  <2>1. CASE ItemSucceeds(t)
    <3>1. hand' \in [Threads -> [index : Nat, end : Nat, finished : Nat]]
      <4>1. hand \in [Threads -> [index : Nat, end : Nat, finished : Nat]]
            /\ hand[t].index + 1 \in Nat
        BY <1>1 DEF TypeOK
      <4>2. hand' = [hand EXCEPT ![t].index = hand[t].index + 1]
        BY <2>1 DEF ItemSucceeds
      <4>3. QED BY <4>1, <4>2
    <3>2. fate' \in [AllItems -> Fates]
      BY <1>1, <2>1 DEF ItemSucceeds, TypeOK, Fates
    <3>3. UNCHANGED <<words, local, code, claim, settled>>
      BY <2>1 DEF ItemSucceeds
    <3>4. QED BY <1>1, <3>1, <3>2, <3>3 DEF TypeOK
  <2>2. CASE ItemFails(t)
    <3>1. PICK c \in Failures : /\ code' = [code EXCEPT ![t] = c]
                              /\ fate' = [fate EXCEPT ![hand[t].index] = c]
      BY <2>2 DEF ItemFails
    <3>2. UNCHANGED <<words, local, hand, claim, settled>>
      BY <2>2 DEF ItemFails
    <3>3. QED BY <1>1, <3>1, <3>2 DEF TypeOK, Fates
  <2>3. CASE RecordFailure(t)
    BY <1>1, <2>3 DEF RecordFailure, TypeOK
  <2>4. QED BY <1>10, <2>1, <2>2, <2>3
<1>11. CASE LoadTicket(t) \/ LeaveItems(t) \/ MissBatch(t) \/ FailLoad(t) \/ FailMiss(t)
  <2>1. NoTicket \in Ticket
    BY LimitsAssumption DEF NoTicket, Ticket
  <2>2. QED BY <1>1, <1>11, <2>1
        DEF LoadTicket, LeaveItems, MissBatch, FailLoad, FailMiss, TypeOK
<1>12. CASE CheckItem(t) \/ EndBatch(t) \/ FailNothing(t) \/ Signal(t)
  BY <1>1, <1>12 DEF CheckItem, EndBatch, FailNothing, Signal, TypeOK
<1>13. QED BY <1>5, <1>6, <1>7, <1>8, <1>9, <1>10, <1>11, <1>12 DEF RunItems

\* Every step keeps the types.
LEMMA TypeStep ==
  ASSUME Inv, [Next]_vars, SleepInv'
  PROVE  TypeOK'
<1>1. TypeOK /\ TicketInv /\ AccountInv /\ HandInv
  BY DEF Inv
<1>2. ASSUME NEW t \in Threads, RunItems(t) PROVE TypeOK'
  BY <1>2, TypeRunItems
<1>3. sleepers' \in Nat
  <2>1. IsFiniteSet(Sleeping')
    BY ThreadsAssumption, FS_Subset DEF Sleeping
  <2>2. QED BY <2>1, FS_CardinalityType DEF SleepInv
<1>4. ASSUME NEW h \in Helpers, HelperMain(h) PROVE TypeOK'
  <2>1. \E l \in HelperLabels : pc' = [pc EXCEPT ![h] = l]
    BY <1>1, <1>4 DEF TypeOK, HelperLabels, RunLabels,
       HelperMain, SpinSees, SpinGivesUp, LockStart, TestStart, WaitStart,
       RelockStart, Awake, SeeTag
  <2>2. lock' \in Threads \union {None} /\ tag' \in [Threads -> 0 .. TagMod - 1]
    BY <1>1, <1>4 DEF TypeOK, Ticket,
       HelperMain, SpinSees, SpinGivesUp, LockStart, TestStart, WaitStart,
       RelockStart, Awake, SeeTag
  <2>3. UNCHANGED <<callerSleeping, shutdown, fields, words, local, hand, code, outside,
                    fate, claim, settled>>
    BY <1>4 DEF HelperMain, SpinSees, SpinGivesUp, LockStart, TestStart, WaitStart,
       RelockStart, Awake, SeeTag
  <2>4. /\ pc' \in [Threads -> HelperLabels \union CallerLabels]
        /\ pc'[Caller] \in CallerLabels
        /\ \A g \in Helpers : pc'[g] \in HelperLabels
    BY <1>1, <2>1, ThreadsAssumption DEF TypeOK
  <2>5. QED BY <1>1, <1>3, <2>2, <2>3, <2>4 DEF TypeOK, AllItems
<1>5. CASE Publish
  <2>1. round.items \in Nat \ {0} /\ round.batch \in Nat \ {0}
    BY <1>1, <1>5 DEF Publish, TicketInv, TypeOK
  <2>2. NextTag(ticket.tag) \in 0 .. TagMod - 1
    BY <1>1, LimitsAssumption DEF NextTag, TypeOK, Ticket
  <2>3. ticket' \in Ticket /\ tag' \in [Threads -> 0 .. TagMod - 1]
    BY <1>1, <1>5, <2>1, <2>2, CeilDivBounds DEF Publish, TypeOK, Ticket
  <2>4. QED BY <1>1, <1>5, <2>3, ThreadsAssumption
        DEF Publish, TypeOK, AllItems, CallerLabels, RunLabels, InRound
<1>6. ASSUME NEW s \in Shapes, Each(s) PROVE TypeOK'
  <2>1. Items(s) \in Nat /\ Batch(Items(s)) \in Nat
    BY <1>6, ItemsPositive, BatchPositive DEF Each
  <2>2. /\ round' \in [shape : Shapes \union {NoShape}, items : Nat, batch : Nat]
        /\ AllItems' = 0 .. Items(s) - 1
    BY <1>6, <2>1 DEF Each, AllItems
  <2>3. fate' \in [AllItems' -> Fates]
    BY <1>6, <2>2 DEF Each, Fates
  <2>4. \A t \in Threads : claim[t] = {}
    BY <1>1, <1>6 DEF Each, AccountInv, InRound, Holding
  <2>5. claim' \in [Threads -> SUBSET AllItems']
    BY <1>1, <1>6, <2>4 DEF Each, TypeOK
  <2>6. /\ pc' = [pc EXCEPT ![Caller] = "publish"]
        /\ rounds' \in 0 .. MaxRounds
        /\ done' = 0 /\ failure' = Ok /\ scratch' \in BOOLEAN
        /\ settled' = {}
        /\ UNCHANGED <<sync, ticket, locals, stacks, result>>
    BY <1>1, <1>6, LimitsAssumption DEF Each, TypeOK, FirstFailure
  <2>7. QED BY <1>1, <2>2, <2>3, <2>5, <2>6, ThreadsAssumption DEF TypeOK, CallerLabels
<1>7. CASE CallerMain /\ ~Publish /\ ~\E s \in Shapes : Each(s)
  <2>1. /\ pc' \in [Threads -> HelperLabels \union CallerLabels]
        /\ pc'[Caller] \in CallerLabels
        /\ \A h \in Helpers : pc'[h] \in HelperLabels
    <3>1. CASE \E h \in Helpers : StartHelper(h)
      BY <1>1, <3>1, ThreadsAssumption DEF TypeOK, StartHelper, HelperLabels
    <3>2. CASE WakeHelpers
      BY <1>1, <3>2, ThreadsAssumption DEF TypeOK, WakeHelpers, HelperLabels, CallerLabels, InRound, RunLabels, Holding
    <3>3. CASE Stop
      BY <1>1, <3>3, ThreadsAssumption DEF TypeOK, Stop, HelperLabels, CallerLabels
    <3>4. CASE ~WakeHelpers /\ ~Stop /\ ~\E h \in Helpers : StartHelper(h)
      <4>1. \E l \in CallerLabels : pc' = [pc EXCEPT ![Caller] = l]
        BY <1>1, <1>7, <3>4 DEF TypeOK, CallerLabels, InRound, CallerMain, Opened,
           StartHelperFails, EachNothing, WatchSees, WatchGivesUp, LockWait,
           TestDone, WaitFinish, RelockFinish, Return, Close, Join
      <4>2. QED BY <1>1, <4>1, ThreadsAssumption DEF TypeOK
    <3>5. QED BY <3>1, <3>2, <3>3, <3>4
  <2>2. UNCHANGED <<round, words, locals, fate, claim, settled>>
    BY <1>7 DEF CallerMain, Opened, StartHelper, StartHelperFails, Each, EachNothing, Publish,
       WakeHelpers, WatchSees, WatchGivesUp, LockWait, TestDone, WaitFinish,
       RelockFinish, Return, Close, Stop, Join
  <2>3. /\ lock' \in Threads \union {None} /\ callerSleeping' \in BOOLEAN
        /\ shutdown' \in BOOLEAN /\ scratch' \in BOOLEAN
        /\ stacks' \subseteq Helpers /\ result' \in Failures \union {Ok, OutOfMemory}
        /\ rounds' \in 0 .. MaxRounds
    <3>1. CASE \E s \in Shapes : EachNothing(s)
      BY <1>1, <3>1, LimitsAssumption DEF TypeOK, EachNothing
    <3>2. CASE ~\E s \in Shapes : EachNothing(s)
      BY <1>1, <1>7, <3>2 DEF TypeOK, CallerMain, Opened, StartHelper,
         StartHelperFails, WakeHelpers, WatchSees, WatchGivesUp, LockWait, TestDone,
         WaitFinish, RelockFinish, Return, Close, Stop, Join
    <3>3. QED BY <3>1, <3>2
  <2>4. QED BY <1>1, <1>3, <2>1, <2>2, <2>3 DEF TypeOK, AllItems
<1>8. ASSUME NEW t \in Threads, SpuriousWake(t) PROVE TypeOK'
  <2>1. /\ pc' \in [Threads -> HelperLabels \union CallerLabels]
        /\ pc'[Caller] \in CallerLabels
        /\ \A h \in Helpers : pc'[h] \in HelperLabels
    BY <1>1, <1>8, ThreadsAssumption DEF SpuriousWake, TypeOK, HelperLabels, CallerLabels, InRound, RunLabels, Holding
  <2>2. QED BY <1>1, <1>8, <2>1 DEF SpuriousWake, TypeOK, AllItems
<1>9. CASE UNCHANGED vars
  BY <1>1, <1>9 DEF TypeOK, vars, AllItems
<1>10. QED BY <1>2, <1>4, <1>5, <1>6, <1>7, <1>8, <1>9 DEF Next, Terminated

-----------------------------------------------------------------------------
(* The theorems.                                                          *)

\* A pool that has just been allocated satisfies the invariant.
LEMMA InitInv ==
  ASSUME Init
  PROVE  Inv
<1>1. round.items = 0 /\ AllItems = {}
  BY DEF Init, AllItems
<1>2. TypeOK
  <2>1. NoShape \in {NoShape} /\ NoTicket \in Ticket
        /\ NoHand \in [index : Nat, end : Nat, finished : Nat]
    BY LimitsAssumption DEF NoTicket, Ticket, NoHand
  <2>2. fate \in [AllItems -> Fates]
    BY <1>1 DEF Init
  <2>3. /\ pc \in [Threads -> HelperLabels \union CallerLabels]
        /\ pc[Caller] \in CallerLabels
        /\ \A h \in Helpers : pc[h] \in HelperLabels
    BY ThreadsAssumption DEF Init, HelperLabels, CallerLabels
  <2>4. 0 \in 0 .. TagMod - 1 /\ 0 \in 0 .. MaxRounds
    BY LimitsAssumption
  <2>5. QED BY <1>1, <2>1, <2>2, <2>3, <2>4 DEF Init, TypeOK
<1>3. LockInv
  BY ThreadsAssumption DEF Init, LockInv
<1>4. SleepInv
  <2>1. Sleeping = {}
    BY ThreadsAssumption DEF Init, Sleeping
  <2>2. QED BY <2>1, FS_EmptySet, ThreadsAssumption DEF Init, SleepInv
<1>5. WakeInv
  BY ThreadsAssumption DEF Init, WakeInv
<1>6. TicketInv
  BY ThreadsAssumption DEF Init, TicketInv, InRound, Holding, NoTicket
<1>7. HandInv
  BY ThreadsAssumption DEF Init, HandInv, HandOk, Holding
<1>8. AccountInv
  BY <1>1, FS_EmptySet, ThreadsAssumption DEF Init, AccountInv, InRound, Holding
<1>9. ScratchInv
  BY ThreadsAssumption DEF Init, ScratchInv, InRound, Holding
<1>10. StackInv
  BY ThreadsAssumption DEF Init, StackInv
<1>11. QED BY <1>2, <1>3, <1>4, <1>5, <1>6, <1>7, <1>8, <1>9, <1>10 DEF Inv

\* Every step of the pool keeps the invariant.
LEMMA StepInv ==
  ASSUME Inv, [Next]_vars
  PROVE  Inv'
<1>1. LockInv' /\ SleepInv' /\ WakeInv' /\ ScratchInv' /\ StackInv'
  BY LockStep, SleepStep, WakeStep, ScratchStep, StackStep DEF Inv
<1>2. TicketInv' /\ HandInv' /\ AccountInv'
  BY TicketStep, HandStep, AccountStep
<1>3. QED BY <1>1, <1>2, TypeStep DEF Inv

\* The invariant holds for every pool.
THEOREM Invariance == Spec => []Inv
<1>1. Init => Inv
  BY InitInv
<1>2. Inv /\ [Next]_vars => Inv'
  BY StepInv
<1>3. QED BY <1>1, <1>2, PTL DEF Spec

\* The pool's state keeps its types: in particular done, sleepers and the items
\* a batch is counted for never go below zero.
THEOREM TypeCorrect == Spec => []TypeOK
<1>1. Inv => TypeOK
  BY DEF Inv
<1>2. QED BY <1>1, Invariance, PTL

\* Nothing a round lends outlives the call that lent it: no thread of the pool
\* is inside a batch, on the slice or on its scratch run, once the caller has
\* found the round over.
THEOREM NothingOutlivesRound == Spec => []LentOnlyDuringRound
<1>1. Inv => LentOnlyDuringRound
  BY DEF Inv, HandInv, HandOk, AccountInv, ScratchInv, LentOnlyDuringRound
<1>2. QED BY <1>1, Invariance, PTL

\* No item is lost and none is counted or held twice, whichever threads race on
\* the ticket and whichever of them fail.
THEOREM AccountsBalance == Spec => []Accounting
<1>1. Inv => Accounting
  <2>1. SUFFICES ASSUME Inv PROVE Accounting
    OBVIOUS
  <2>2. pc[Caller] \in InRound =>
          AllItems = settled \union (UNION {claim[t] : t \in Threads})
                             \union ItemsFrom(ticket.next)
    BY <2>1 DEF Inv, AccountInv, TypeOK, ItemsFrom
  <2>3. QED BY <2>1, <2>2 DEF Inv, AccountInv, Accounting
<1>2. QED BY <1>1, Invariance, PTL

\* No helper sleeps through a round or the shutdown.
THEOREM StartNotLost == Spec => []NoLostStart
<1>1. Inv => NoLostStart
  BY DEF Inv, WakeInv, NoLostStart
<1>2. QED BY <1>1, Invariance, PTL

\* The caller does not sleep through the end of its round.
THEOREM FinishNotLost == Spec => []NoLostFinish
<1>1. Inv => NoLostFinish
  BY DEF Inv, WakeInv, NoLostFinish
<1>2. QED BY <1>1, Invariance, PTL

-----------------------------------------------------------------------------
(* A slice is cut into items that are disjoint and leave nothing out.     *)

\* Quotient and remainder are what they are by being small enough.
LEMMA QuotientUnique ==
  ASSUME NEW m \in Nat \ {0}, NEW p \in Nat, NEW q \in Nat,
         NEW r \in 0 .. m - 1, NEW s \in 0 .. m - 1,
         p * m + r = q * m + s
  PROVE  p = q /\ r = s
<1>1. ASSUME NEW a \in Nat, NEW b \in Nat, NEW c \in 0 .. m - 1, NEW d \in 0 .. m - 1,
             a < b
      PROVE  a * m + c < b * m + d
  <2>1. (a + 1) * m <= b * m
    BY <1>1, TimesMonotone
  <2>2. a * m \in Nat /\ b * m \in Nat /\ (a + 1) * m = a * m + m
    BY TimesSuccessor
  <2>3. QED BY <2>1, <2>2
<1>2. p * m \in Nat /\ q * m \in Nat
  BY TimesSuccessor
<1>3. ~(p < q) /\ ~(q < p)
  BY <1>1, <1>2
<1>4. p = q
  BY <1>3
<1>5. QED BY <1>2, <1>4

\* What dividing gives.
LEMMA Dividing ==
  ASSUME NEW a \in Nat, NEW m \in Nat \ {0}
  PROVE  a \div m \in Nat /\ a % m \in 0 .. m - 1 /\ a = (a \div m) * m + (a % m)
  OBVIOUS

\* The quotient fits.
LEMMA QuotientBelow ==
  ASSUME NEW a \in Nat, NEW m \in Nat \ {0}
  PROVE  a \div m \in Nat /\ (a \div m) * m \in Nat /\ (a \div m) * m <= a
<1> DEFINE q == a \div m
           r == a % m
<1>1. q \in Nat /\ r \in 0 .. m - 1 /\ a = q * m + r
  BY Dividing
<1> HIDE DEF q, r
<1>2. q * m \in Nat
  BY <1>1, TimesSuccessor
<1>3. q * m <= a
  BY <1>1, <1>2
<1>4. QED BY <1>1, <1>2, <1>3 DEF q

\* A multiple is its quotient times.
LEMMA MultipleIs ==
  ASSUME NEW a \in Nat, NEW m \in Nat \ {0}, a % m = 0
  PROVE  \E k \in Nat : a = k * m
<1> DEFINE q == a \div m
<1>1. q \in Nat /\ a = q * m + 0
  BY Dividing
<1> HIDE DEF q
<1>2. q * m \in Nat
  BY <1>1, TimesSuccessor
<1>3. QED BY <1>1, <1>2

\* The shape's fields.
LEMMA ShapeFields ==
  ASSUME NEW s \in Shapes
  PROVE  /\ s.len \in Nat /\ s.length \in Nat \ {0} /\ s.stride \in Nat
         /\ s.stride > 0 =>
              /\ s.length * s.stride \in Nat \ {0}
              /\ s.len % (s.length * s.stride) = 0
  BY ShapesAssumption DEF Shape

\* A run of l elements from i * l on, cut off at n.
LEMMA RunOfElements ==
  ASSUME NEW n \in Nat, NEW l \in Nat \ {0}, NEW i \in Nat, NEW e
  PROVE  e \in i * l .. AtMost((i + 1) * l, n) - 1 <=> e \in 0 .. n - 1 /\ e \div l = i
<1> DEFINE a == i * l
<1>1. a \in Nat /\ (i + 1) * l = a + l
  BY TimesSuccessor
<1>2. ASSUME e \in a .. AtMost(a + l, n) - 1 PROVE e \in 0 .. n - 1 /\ e \div l = i
  <2>1. e \in Nat /\ e \in 0 .. n - 1 /\ e - a \in 0 .. l - 1 /\ e = a + (e - a)
    <3> HIDE DEF a
    <3> QED BY <1>1, <1>2 DEF AtMost
  <2>2. e \div l \in Nat /\ e % l \in 0 .. l - 1 /\ e = (e \div l) * l + (e % l)
    BY <2>1, Dividing
  <2>3. QED BY <2>1, <2>2, QuotientUnique
<1>3. ASSUME e \in 0 .. n - 1, e \div l = i PROVE e \in a .. AtMost(a + l, n) - 1
  <2>1. PICK r \in 0 .. l - 1 : e = a + r
    BY <1>3, Dividing
  <2>2. QED
    <3> HIDE DEF a
    <3> QED BY <1>1, <1>3, <2>1 DEF AtMost
<1>4. QED BY <1>1, <1>2, <1>3

\* The quotient and the remainder of q * m + r.
LEMMA QuotientIs ==
  ASSUME NEW m \in Nat \ {0}, NEW q \in Nat, NEW r \in 0 .. m - 1, NEW e, e = q * m + r
  PROVE  e \in Nat /\ e \div m = q /\ e % m = r
<1>1. q * m \in Nat
  BY TimesSuccessor
<1>2. e \in Nat
  BY <1>1
<1>3. e \div m \in Nat /\ e % m \in 0 .. m - 1 /\ e = (e \div m) * m + (e % m)
  BY <1>2, Dividing
<1>4. QED BY <1>2, <1>3, QuotientUnique

\* Products of three.
LEMMA TimesAssociate ==
  ASSUME NEW b \in Nat, NEW l \in Nat, NEW d \in Nat
  PROVE  /\ l * d \in Nat /\ b * l \in Nat /\ b * (l * d) \in Nat /\ b * l * d \in Nat
         /\ b * l * d = b * (l * d)
  OBVIOUS

\* A sum times a factor.
LEMMA TimesSum ==
  ASSUME NEW a \in Nat, NEW b \in Nat, NEW d \in Nat
  PROVE  a * d \in Nat /\ b * d \in Nat /\ (a + b) * d = a * d + b * d
  OBVIOUS

\* Step j of lane r of block b: which block, and which lane.
LEMMA LaneStep ==
  ASSUME NEW l \in Nat \ {0}, NEW d \in Nat \ {0}, NEW b \in Nat, NEW r \in 0 .. d - 1,
         NEW j \in 0 .. l - 1, NEW e, e = b * l * d + r + j * d
  PROVE  e \in Nat /\ e \div (l * d) = b /\ e % d = r
<1>1. (j + 1) * d <= l * d
  BY TimesMonotone
<1>2. j * d \in Nat /\ (j + 1) * d = j * d + d
  BY TimesSuccessor
<1>3. /\ l * d \in Nat \ {0} /\ b * (l * d) \in Nat /\ b * l \in Nat
      /\ b * l * d = b * (l * d)
  BY TimesAssociate
<1>4. j * d + r \in 0 .. l * d - 1
  BY <1>1, <1>2, <1>3
<1>5. e = b * (l * d) + (j * d + r)
  BY <1>2, <1>3
<1>6. e \in Nat /\ e \div (l * d) = b
  BY <1>3, <1>4, <1>5, QuotientIs
<1>7. b * l + j \in Nat /\ e = (b * l + j) * d + r
  <2>1. (b * l + j) * d = b * l * d + j * d
    BY <1>3, TimesSum
  <2>2. QED BY <1>2, <1>3, <2>1
<1>8. QED BY <1>6, <1>7, QuotientIs

\* An element of block b and lane r is a step of that lane.
LEMMA StepOfLane ==
  ASSUME NEW l \in Nat \ {0}, NEW d \in Nat \ {0}, NEW e \in Nat
  PROVE  \E j \in 0 .. l - 1 : e = (e \div (l * d)) * l * d + (e % d) + j * d
<1>0. PICK b \in Nat, r \in 0 .. d - 1 : b = e \div (l * d) /\ r = e % d
  <2>1. l * d \in Nat \ {0}
    BY TimesAssociate
  <2>2. QED BY <2>1, Dividing
<1>1. l * d \in Nat \ {0} /\ b * l \in Nat /\ b * l * d = b * (l * d) /\ b * (l * d) \in Nat
  BY TimesAssociate
<1>2. PICK k \in 0 .. l * d - 1 : e = b * (l * d) + k
  BY <1>0, <1>1, Dividing
<1>3. PICK j \in Nat, c \in 0 .. d - 1 : k = j * d + c
  <2>1. ASSUME NEW n \in Nat PROVE \E j \in Nat, c \in 0 .. d - 1 : n = j * d + c
    BY Dividing
  <2>2. k \in Nat
    BY <1>1, <1>2
  <2>3. QED BY <2>1, <2>2
<1>4. j * d \in Nat /\ (b * l + j) * d = b * l * d + j * d
  BY <1>1, <1>3, TimesSum
<1>5. e = (b * l + j) * d + c /\ b * l + j \in Nat
  BY <1>1, <1>2, <1>3, <1>4
<1>6. c = r
  BY <1>0, <1>5, QuotientIs
<1>7. ASSUME l <= j PROVE FALSE
  <2>1. l * d <= j * d
    BY <1>3, <1>7, TimesMonotone
  <2>2. QED BY <1>1, <1>2, <1>3, <1>4, <2>1
<1>8. e = b * l * d + r + j * d
  BY <1>1, <1>2, <1>3, <1>4, <1>6
<1>9. j \in 0 .. l - 1
  BY <1>3, <1>7
<1>10. QED BY <1>0, <1>8, <1>9, Zenon

\* The items of a shape cut its slice: every element is in one item, and in one
\* only.  The item of element e is e \div length in a chunk round, and lane
\* e % stride of block e \div (length * stride) in a lane round.
LEMMA ItemOfElement ==
  ASSUME NEW s \in Shapes, s.len > 0
  PROVE  /\ \A i \in 0 .. Items(s) - 1 : Elements(s, i) \subseteq 0 .. s.len - 1
         /\ \A i, j \in 0 .. Items(s) - 1 :
              i # j => Elements(s, i) \intersect Elements(s, j) = {}
         /\ \A e \in 0 .. s.len - 1 : \E i \in 0 .. Items(s) - 1 : e \in Elements(s, i)
<1>1. /\ s.len \in Nat \ {0} /\ s.length \in Nat \ {0} /\ s.stride \in Nat
      /\ Items(s) \in Nat \ {0}
  BY ShapeFields, ItemsPositive
<1>2. CASE s.stride = 0
  <2>1. \A i \in Nat : \A e :
          e \in Elements(s, i) <=> e \in 0 .. s.len - 1 /\ e \div s.length = i
    <3> DEFINE l == s.length
               n == s.len
    <3> SUFFICES \A i \in Nat : \A e :
                   e \in Elements(s, i) <=> e \in 0 .. n - 1 /\ e \div l = i
      OBVIOUS
    <3>1. \A i \in Nat : Elements(s, i) = i * l .. AtMost((i + 1) * l, n) - 1
      BY <1>2 DEF Elements
    <3>2. l \in Nat \ {0} /\ n \in Nat
      BY <1>1
    <3> HIDE DEF l, n
    <3>3. ASSUME NEW i \in Nat, NEW e
          PROVE  e \in Elements(s, i) <=> e \in 0 .. n - 1 /\ e \div l = i
      <4>1. e \in i * l .. AtMost((i + 1) * l, n) - 1 <=> e \in 0 .. n - 1 /\ e \div l = i
        BY ZenonT(40), <3>2, RunOfElements
      <4>2. QED BY <3>1, <4>1, Zenon
    <3>4. QED BY <3>3
  <2>2. ASSUME NEW e \in 0 .. s.len - 1 PROVE e \div s.length \in 0 .. Items(s) - 1
    <3> DEFINE l == s.length
               n == s.len
               k == CeilDiv(n, l)
               q == e \div l
    <3>1. k \in Nat \ {0} /\ k * l >= n /\ Items(s) = k
      BY <1>1, <1>2, CeilDivBounds DEF Items
    <3>2. q \in Nat /\ q * l <= e /\ q * l \in Nat
      <4>1. l \in Nat \ {0} /\ e \in Nat
        BY <1>1
      <4> HIDE DEF l
      <4>2. QED BY <4>1, QuotientBelow
    <3>3. ASSUME k <= q PROVE FALSE
      <4>1. k * l <= q * l /\ k * l \in Nat
        <5> HIDE DEF k, q
        <5> QED BY <1>1, <3>1, <3>2, <3>3, TimesMonotone, TimesSuccessor
      <4>2. QED
        <5> HIDE DEF k, q, l, n
        <5> QED BY <1>1, <3>1, <3>2, <4>1 DEF n
    <3>4. QED
      <4> HIDE DEF k, q
      <4> QED BY <3>1, <3>2, <3>3 DEF q
  <2>3. QED BY <1>1, <2>1, <2>2
<1>3. CASE s.stride > 0
  <2> DEFINE l == s.length
             d == s.stride
             m == l * d
             n == s.len
  <2>1. d \in Nat \ {0} /\ l \in Nat \ {0} /\ m \in Nat \ {0} /\ n \in Nat \ {0}
    BY <1>1, <1>3, ShapeFields
  <2>2. PICK k \in Nat : n = k * m /\ Items(s) = k * d
    <3>1. PICK k \in Nat : n = k * m
      BY <2>1, <1>3, ShapeFields, MultipleIs
    <3>2. n = (k * d) * l + 0 /\ k * d \in Nat
      BY <2>1, <3>1
    <3>3. n \div l = k * d
      <4> HIDE DEF n, l, d
      <4> QED BY <2>1, <3>2, QuotientIs
    <3>4. QED BY <1>1, <1>3, <3>1, <3>3 DEF Items
  <2>3. \A i \in Nat : \A e :
          e \in Elements(s, i) <=> e \in Nat /\ e \div m = i \div d /\ e % d = i % d
    <3>1. ASSUME NEW i \in Nat, NEW e
          PROVE  e \in Elements(s, i) <=> \E j \in 0 .. l - 1 :
                                             e = (i \div d) * l * d + (i % d) + j * d
      BY <1>3 DEF Elements
    <3>2. ASSUME NEW i \in Nat PROVE i \div d \in Nat /\ i % d \in 0 .. d - 1
      BY <2>1, Dividing
    <3> HIDE DEF l, d
    <3>3. ASSUME NEW i \in Nat, NEW e, e \in Elements(s, i)
          PROVE  e \in Nat /\ e \div (l * d) = i \div d /\ e % d = i % d
      <4> DEFINE b == i \div d
                 r == i % d
      <4> SUFFICES e \in Nat /\ e \div (l * d) = b /\ e % d = r
        OBVIOUS
      <4>1. PICK j \in 0 .. l - 1 : e = b * l * d + r + j * d
        BY <3>1, <3>3
      <4>2. b \in Nat /\ r \in 0 .. d - 1
        BY <3>2
      <4> HIDE DEF b, r
      <4>3. QED BY <2>1, <4>1, <4>2, LaneStep
    <3>4. ASSUME NEW i \in Nat, NEW e \in Nat, e \div (l * d) = i \div d, e % d = i % d
          PROVE  e \in Elements(s, i)
      <4>1. PICK j \in 0 .. l - 1 : e = (e \div (l * d)) * l * d + (e % d) + j * d
        BY ZenonT(30), <2>1, StepOfLane
      <4>2. e = (i \div d) * l * d + (i % d) + j * d
        BY <3>4, <4>1, Zenon
      <4>3. QED BY <3>1, <4>2
    <3>5. QED BY <3>3, <3>4
  <2>4. ASSUME NEW i \in 0 .. k * d - 1 PROVE i \in Nat /\ i \div d < k
    <3> HIDE DEF d
    <3>1. k * d \in Nat
      BY <2>1, TimesSuccessor
    <3>2. i \in Nat /\ i < k * d
      BY <3>1
    <3>3. i \div d \in Nat /\ (i \div d) * d <= i /\ (i \div d) * d \in Nat
      BY <2>1, <3>2, QuotientBelow
    <3>4. ASSUME k <= i \div d PROVE FALSE
      <4>1. k * d <= (i \div d) * d
        BY <2>1, <3>3, <3>4, TimesMonotone
      <4>2. QED BY <3>1, <3>2, <3>3, <4>1
    <3>5. QED BY <3>2, <3>3, <3>4
  <2>5. ASSUME NEW e \in Nat, NEW q \in Nat, e \div m = q, q < k PROVE e < n
    <3> HIDE DEF m, n
    <3>1. PICK c \in 0 .. m - 1 : e = q * m + c
      BY ZenonT(40), <2>1, <2>5, Dividing
    <3>2. (q + 1) * m <= k * m /\ (q + 1) * m = q * m + m /\ q * m \in Nat /\ k * m \in Nat
      BY <2>1, <2>5, TimesMonotone, TimesSuccessor
    <3>3. QED BY <2>1, <2>2, <3>1, <3>2
  <2>6. ASSUME NEW i \in 0 .. k * d - 1 PROVE Elements(s, i) \subseteq 0 .. n - 1
    <3>1. i \in Nat /\ i \div d \in Nat /\ i \div d < k
      BY <2>1, <2>4, Dividing
    <3>2. ASSUME NEW e \in Elements(s, i) PROVE e \in Nat /\ e < n
      <4> HIDE DEF l, d, m, n
      <4> QED BY <2>3, <2>5, <3>1
    <3>3. QED BY <2>1, <3>2
  <2>7. ASSUME NEW i \in 0 .. k * d - 1, NEW j \in 0 .. k * d - 1, NEW e,
               e \in Elements(s, i), e \in Elements(s, j)
        PROVE  i = j
    <3>1. i \in Nat /\ j \in Nat
      BY <2>4
    <3>2. i \div d = j \div d /\ i % d = j % d
      BY <2>3, <2>7, <3>1
    <3> HIDE DEF l, d, m, n
    <3>3. i = (i \div d) * d + (i % d) /\ j = (j \div d) * d + (j % d)
      BY <2>1, <3>1, Dividing
    <3>4. QED BY <3>2, <3>3
  <2>8. ASSUME NEW e \in 0 .. n - 1 PROVE \E i \in 0 .. k * d - 1 : e \in Elements(s, i)
    <3> DEFINE b == e \div m
               r == e % d
               i == b * d + r
    <3>1. b \in Nat /\ r \in 0 .. d - 1 /\ e \in Nat /\ e < n
      <4> HIDE DEF l, d, m, n
      <4> QED BY <2>1, Dividing
    <3>2. i \in Nat /\ i \div d = b /\ i % d = r
      <4> HIDE DEF b, r, l, d, m, n
      <4> QED BY <2>1, <3>1, QuotientIs
    <3>3. e \in Elements(s, i)
      <4> HIDE DEF l, d, m, n, i
      <4> QED BY <2>3, <3>1, <3>2
    <3>4. b < k
      <4>1. b * m <= e /\ b * m \in Nat
        <5> HIDE DEF m, d
        <5> QED BY <2>1, <3>1, QuotientBelow
      <4>2. ASSUME k <= b PROVE FALSE
        <5>1. k * m <= b * m
          <6> HIDE DEF m, b
          <6> QED BY <2>1, <3>1, <4>2, TimesMonotone
        <5>2. k * m \in Nat
          BY <2>1, TimesSuccessor
        <5> HIDE DEF m, b, n
        <5>3. QED BY <2>1, <2>2, <3>1, <4>1, <5>1, <5>2
      <4>3. QED BY <3>1, <4>2
    <3>5. i < k * d /\ k * d \in Nat
      <4> HIDE DEF b, r, d
      <4>1. (b + 1) * d <= k * d /\ (b + 1) * d = b * d + d /\ b * d \in Nat /\ k * d \in Nat
        BY <2>1, <3>1, <3>4, TimesMonotone, TimesSuccessor
      <4>2. QED BY <2>1, <3>1, <4>1
    <3> HIDE DEF i, d
    <3>6. QED BY <2>1, <3>2, <3>3, <3>5
  <2>9. QED BY <2>2, <2>6, <2>7, <2>8
<1>4. QED BY <1>1, <1>2, <1>3

-----------------------------------------------------------------------------
(* What becomes of the items.                                             *)

\* The verdicts are told apart.
LEMMA Verdicts ==
  /\ "waiting" # "running" /\ Ok # "waiting" /\ Ok # "running"
  /\ \A c \in Failures : c # Ok /\ c # "waiting" /\ c # "running"
  BY FailuresAssumption DEF Ok

\* A step of thread t leaves the other threads' batches alone.
LEMMA OthersKeep ==
  ASSUME TypeOK, DOMAIN gathered = Threads, NEW t \in Threads, RunItems(t),
         NEW u \in Threads \ {t}
  PROVE  /\ claim'[u] = claim[u] /\ hand'[u] = hand[u] /\ code'[u] = code[u]
         /\ gathered'[u] = gathered[u] /\ local'[u] = local[u]
         /\ pc[u] \in Holding \/ pc'[u] \in Holding => pc'[u] = pc[u]
<1>1. /\ claim'[u] = claim[u] /\ hand'[u] = hand[u] /\ code'[u] = code[u]
      /\ local'[u] = local[u]
  BY DEF TypeOK, Signal, RunItems, LoadTicket, LeaveItems, TakeBatch, MissBatch,
     ReadBatch, CheckItem, EndBatch, StartItem, ItemSucceeds, ItemFails, RecordFailure,
     FailLoad, FailNothing, FailTake, FailMiss, Finish
<1>2. gathered'[u] = gathered[u]
  BY DEF Signal, RunItems, LoadTicket, LeaveItems, TakeBatch, MissBatch,
     ReadBatch, CheckItem, EndBatch, StartItem, ItemSucceeds, ItemFails, RecordFailure,
     FailLoad, FailNothing, FailTake, FailMiss, Finish
<1>3. QED BY <1>1, <1>2, RunItemsFrame DEF Holding

\* The item a thread is about to start, or works on, is one it holds.
LEMMA AtItem ==
  ASSUME Inv, FateInv, NEW t \in Threads, pc[t] \in {"start", "working", "record"}
  PROVE  /\ hand[t].index \in claim[t] /\ hand[t].index \in AllItems
         /\ pc[t] = "start" => fate[hand[t].index] = "waiting"
         /\ pc[t] = "working" => fate[hand[t].index] = "running"
<1>1. TypeOK /\ FateOk(t) /\ HandOk(t) /\ claim[t] \in SUBSET AllItems
  BY DEF Inv, TypeOK, HandInv, FateInv
<1>2. CASE pc[t] = "start"
  <2>1. /\ hand[t].index < hand[t].end /\ hand[t].end <= round.items
        /\ hand[t].index \in Nat /\ hand[t].end \in Nat /\ round.items \in Nat
    BY <1>1, <1>2 DEF HandOk, Holding, TypeOK
  <2>2. hand[t].index \in AllItems
    BY <2>1 DEF AllItems
  <2>3. QED BY <1>1, <1>2, <2>1, <2>2 DEF FateOk
<1>3. QED BY <1>1, <1>2 DEF FateOk

\* A step of thread t changes the fate of no item but one it holds that had not
\* come to its end, and a recorded failure stays.
LEMMA FateChange ==
  ASSUME Inv, FateInv, NEW t \in Threads, RunItems(t)
  PROVE  /\ \A i \in AllItems : fate'[i] # fate[i] =>
              i \in claim[t] /\ fate[i] \in {"waiting", "running"}
         /\ failure # Ok => failure' = failure
<1>1. TypeOK
  BY DEF Inv
<1>2. CASE StartItem(t) \/ ItemSucceeds(t) \/ ItemFails(t)
  <2>1. /\ hand[t].index \in claim[t] /\ hand[t].index \in AllItems
        /\ fate[hand[t].index] \in {"waiting", "running"}
    BY <1>2, AtItem DEF StartItem, ItemSucceeds, ItemFails
  <2>2. UNCHANGED failure /\ \E c : fate' = [fate EXCEPT ![hand[t].index] = c]
    BY <1>2 DEF StartItem, ItemSucceeds, ItemFails
  <2>3. QED BY <1>1, <2>1, <2>2 DEF TypeOK
<1>3. CASE ~StartItem(t) /\ ~ItemSucceeds(t) /\ ~ItemFails(t)
  <2>1. fate' = fate /\ (failure' = failure \/ RecordFailure(t))
    BY <1>3 DEF Signal, RunItems, LoadTicket, LeaveItems, TakeBatch, MissBatch,
       ReadBatch, CheckItem, EndBatch, FailLoad, FailNothing, FailTake, FailMiss,
       Finish, RecordFailure
  <2>2. QED BY <2>1 DEF RecordFailure
<1>4. QED BY <1>2, <1>3

\* The items of a batch are the numbers its hand runs through.
LEMMA BatchRun ==
  ASSUME TypeOK, round.batch > 0, NEW n \in Nat
  PROVE  LET first == n * round.batch
             end == AtMost(first + round.batch, round.items)
         IN  /\ first \in Nat
             /\ \A i \in AllItems : i \in BatchItems(n) <=> first <= i /\ i < end
             /\ BatchItems(n) \subseteq ItemsFrom(n) /\ BatchItems(n) \subseteq AllItems
<1> DEFINE first == n * round.batch
<1>1. /\ round.items \in Nat /\ round.batch \in Nat \ {0} /\ first \in Nat
      /\ (n + 1) * round.batch = first + round.batch
  BY TimesSuccessor DEF TypeOK
<1>2. BatchItems(n) = {i \in AllItems : first <= i /\ i < first + round.batch}
  BY <1>1 DEF BatchItems
<1>3. ItemsFrom(n) = {i \in AllItems : first <= i}
  BY DEF ItemsFrom
<1> HIDE DEF first
<1>4. QED BY <1>1, <1>2, <1>3 DEF AllItems, AtMost, first

\* A step of run_items keeps what its own thread knows of its items.
LEMMA FateOwn ==
  ASSUME Inv, FateInv, NEW t \in Threads, RunItems(t)
  PROVE  FateOk(t)'
<1>1. /\ TypeOK /\ TicketInv /\ AccountInv /\ FateOk(t) /\ HandOk(t)
      /\ claim[t] \in SUBSET AllItems
  BY DEF Inv, TypeOK, HandInv, FateInv
<1>2. UNCHANGED round /\ AllItems' = AllItems
  BY <1>1, RunItemsFrame DEF AllItems
<1>3. CASE TakeBatch(t)
  <2>1. /\ local[t] = ticket /\ ticket.next \in Nat /\ pc[Caller] \in InRound
        /\ round.batch > 0
    BY <1>1, <1>3, TakeInRound DEF TakeBatch
  <2>2. pc'[t] = "read" /\ claim'[t] = BatchItems(ticket.next) /\ fate' = fate
    BY <1>1, <1>3, <2>1 DEF TakeBatch, TypeOK
  <2>3. \A i \in BatchItems(ticket.next) : fate[i] = "waiting"
    BY <1>1, <2>1, BatchRun DEF FateInv
  <2>4. QED BY <2>2, <2>3 DEF FateOk
<1>4. CASE ReadBatch(t)
  <2>1. /\ claim[t] = BatchItems(local[t].next) /\ claim[t] # {} /\ local[t].next \in Nat
        /\ \A i \in claim[t] : fate[i] = "waiting"
    BY <1>1, <1>4 DEF ReadBatch, HandOk, FateOk, Holding, TypeOK, Ticket
  <2>2. round.batch > 0
    BY <1>1, <2>1 DEF AccountInv, TicketInv
  <2> DEFINE first == local[t].next * round.batch
             end == AtMost(first + round.batch, round.items)
  <2>3. hand'[t].index = first /\ hand'[t].end = end /\ first \in Nat
    BY <1>1, <1>4, <2>1, <2>2, BatchRun DEF ReadBatch, TypeOK
  <2>4. pc'[t] = "item" /\ claim' = claim /\ fate' = fate
    BY <1>1, <1>4 DEF ReadBatch, TypeOK
  <2>5. \A i \in AllItems : i \in claim[t] <=> first <= i /\ i < end
    BY <1>1, <2>1, <2>2, BatchRun
  <2> HIDE DEF first, end
  <2>6. QED BY <1>1, <1>2, <2>1, <2>3, <2>4, <2>5 DEF FateOk, AllItems
<1>5. CASE CheckItem(t)
  BY <1>1, <1>2, <1>5 DEF CheckItem, FateOk, TypeOK
<1>6. CASE EndBatch(t)
  <2>1. /\ pc[t] = "item" /\ pc'[t] = "finish" /\ UNCHANGED <<claim, fate, failure, hand>>
        /\ hand[t].index >= hand[t].end \/ failure # Ok
    BY <1>1, <1>6 DEF EndBatch, TypeOK, MayStart
  <2>2. \A i \in claim[t] : i \in Nat /\ hand[t].index \in Nat /\ hand[t].end \in Nat
    BY <1>1 DEF TypeOK, AllItems
  <2>3. \A i \in claim[t] : /\ fate[i] = Ok \/ fate[i] = "waiting"
                            /\ fate[i] # Ok => failure # Ok
    BY <1>1, <2>1, <2>2 DEF FateOk
  <2>4. QED BY <2>1, <2>3, Verdicts DEF FateOk
<1>7. CASE StartItem(t)
  <2>1. /\ pc[t] = "start" /\ pc'[t] = "working" /\ UNCHANGED <<claim, failure, hand>>
        /\ fate' = [fate EXCEPT ![hand[t].index] = "running"]
        /\ hand[t].index \in claim[t]
    BY <1>1, <1>7, AtItem DEF StartItem, TypeOK
  <2>2. /\ fate'[hand[t].index] = "running"
        /\ \A i \in claim[t] : i # hand[t].index => fate'[i] = fate[i]
        /\ \A i \in claim[t] : i \in Nat /\ hand[t].index \in Nat
    BY <1>1, <2>1 DEF TypeOK, AllItems
  <2>3. QED BY <1>1, <1>2, <2>1, <2>2 DEF FateOk
<1>8. CASE ItemSucceeds(t)
  <2>1. /\ pc[t] = "working" /\ pc'[t] = "item" /\ UNCHANGED <<claim, failure>>
        /\ fate' = [fate EXCEPT ![hand[t].index] = Ok]
        /\ hand' = [hand EXCEPT ![t].index = hand[t].index + 1]
        /\ hand[t].index \in claim[t]
    BY <1>1, <1>8, AtItem DEF ItemSucceeds, TypeOK
  <2>2. /\ fate'[hand[t].index] = Ok
        /\ \A i \in claim[t] : i # hand[t].index => fate'[i] = fate[i]
        /\ \A i \in AllItems : i \in Nat
        /\ hand[t].index \in Nat
        /\ hand'[t].index = hand[t].index + 1 /\ hand'[t].end = hand[t].end
    BY <1>1, <2>1 DEF TypeOK, AllItems
  <2>3. QED BY <1>1, <1>2, <2>1, <2>2 DEF FateOk
<1>9. CASE ItemFails(t)
  <2>1. PICK c \in Failures : /\ code' = [code EXCEPT ![t] = c]
                              /\ fate' = [fate EXCEPT ![hand[t].index] = c]
    BY <1>9 DEF ItemFails
  <2>2. /\ pc[t] = "working" /\ pc'[t] = "record" /\ UNCHANGED <<claim, failure, hand>>
        /\ hand[t].index \in claim[t]
    BY <1>1, <1>9, AtItem DEF ItemFails, TypeOK
  <2>3. /\ fate'[hand[t].index] = c /\ code'[t] = c
        /\ \A i \in claim[t] : i # hand[t].index => fate'[i] = fate[i]
        /\ \A i \in claim[t] : i \in Nat /\ hand[t].index \in Nat
    BY <1>1, <2>1, <2>2 DEF TypeOK, AllItems
  <2>4. \A i \in claim[t] : fate'[i] # "running"
    BY <1>1, <2>2, <2>3, Verdicts DEF FateOk
  <2>5. QED BY <2>2, <2>3, <2>4 DEF FateOk
<1>10. CASE RecordFailure(t)
  <2>1. /\ pc[t] = "record" /\ pc'[t] = "failLoad" /\ UNCHANGED <<claim, fate, hand>>
        /\ failure' = IF failure = Ok THEN code[t] ELSE failure
    BY <1>1, <1>10 DEF RecordFailure, TypeOK
  <2>2. QED BY <1>1, <2>1, Verdicts DEF FateOk
<1>11. CASE FailTake(t)
  <2>1. local[t] = ticket /\ ticket.next \in Nat /\ pc[Caller] \in InRound
    BY <1>1, <1>11, TakeInRound DEF FailTake
  <2>2. /\ pc[t] = "failTake" /\ pc'[t] = "finish" /\ UNCHANGED <<fate, failure>>
        /\ claim'[t] = claim[t] \union ItemsFrom(ticket.next)
    BY <1>1, <1>11, <2>1 DEF FailTake, TypeOK
  <2>3. \A i \in ItemsFrom(ticket.next) : fate[i] = "waiting"
    BY <2>1 DEF FateInv
  <2>4. QED BY <1>1, <2>2, <2>3, Verdicts DEF FateOk
<1>12. CASE FailLoad(t) \/ FailNothing(t) \/ FailMiss(t)
  <2>1. /\ pc[t] \in {"failLoad", "failTake"} /\ pc'[t] \in {"failTake", "finish"}
        /\ UNCHANGED <<claim, fate, failure>>
    BY <1>1, <1>12 DEF FailLoad, FailNothing, FailMiss, TypeOK
  <2>2. QED BY <1>1, <2>1 DEF FateOk
<1>13. CASE LoadTicket(t) \/ LeaveItems(t) \/ MissBatch(t) \/ Finish(t) \/ Signal(t)
  <2>1. pc'[t] \in {"take", "watch", "spin", "signal", "load"}
    BY <1>1, <1>13 DEF LoadTicket, LeaveItems, MissBatch, Finish, Signal, TypeOK
  <2>2. QED BY <2>1 DEF FateOk
<1>14. QED BY <1>3, <1>4, <1>5, <1>6, <1>7, <1>8, <1>9, <1>10, <1>11, <1>12, <1>13
       DEF RunItems

\* A step of run_items keeps what is known of every item.
LEMMA FateRunItems ==
  ASSUME Inv, FateInv, DOMAIN gathered = Threads, NEW t \in Threads, RunItems(t)
  PROVE  FateInv'
<1>1. /\ TypeOK /\ TicketInv /\ AccountInv
      /\ \A u \in Threads : FateOk(u) /\ HandOk(u) /\ claim[u] \in SUBSET AllItems
  BY DEF Inv, TypeOK, HandInv, FateInv
<1>2. /\ UNCHANGED round /\ AllItems' = AllItems
      /\ pc'[Caller] \in InRound <=> pc[Caller] \in InRound
      /\ pc'[Caller] = "publish" <=> pc[Caller] = "publish"
  BY <1>1, RunItemsFrame, ThreadsAssumption DEF AllItems, InRound, RunLabels, Holding
<1>3. ASSUME NEW u \in Threads \ {t} PROVE FateOk(u)'
  <2>1. CASE pc'[u] \in Holding
    <3>1. /\ claim'[u] = claim[u] /\ hand'[u] = hand[u] /\ code'[u] = code[u]
          /\ pc'[u] = pc[u]
      BY <1>1, <2>1, OthersKeep
    <3>2. \A i \in claim[u] : i \notin claim[t] /\ i \in AllItems
      BY <1>1 DEF AccountInv
    <3>3. \A i \in claim[u] : fate'[i] = fate[i]
      BY <3>2, FateChange
    <3>4. failure # Ok => failure' # Ok
      BY FateChange
    <3>5. FateOk(u)
      BY <1>1
    <3>6. QED BY <1>2, <3>1, <3>3, <3>4, <3>5 DEF FateOk
  <2>2. CASE pc'[u] \notin Holding
    BY <2>2 DEF FateOk, Holding
  <2>3. QED BY <2>1, <2>2
<1>4. FateOk(t)'
  BY FateOwn
<1>5. ASSUME pc'[Caller] = "publish"
      PROVE  failure' = Ok /\ \A i \in AllItems' : fate'[i] = "waiting"
  <2>1. pc[Caller] = "publish" /\ claim[t] = {} /\ pc[t] \notin Holding
    BY <1>1, <1>2, <1>5 DEF AccountInv, InRound, HandOk, Holding
  <2>2. failure' = failure
    BY <2>1 DEF Holding, Signal, RunItems, LoadTicket, LeaveItems, TakeBatch, MissBatch,
       ReadBatch, CheckItem, EndBatch, StartItem, ItemSucceeds, ItemFails, RecordFailure,
       FailLoad, FailNothing, FailTake, FailMiss, Finish
  <2>3. QED BY <1>2, <2>1, <2>2, FateChange DEF FateInv
<1>6. ASSUME pc'[Caller] \in InRound
      PROVE  \A i \in ItemsFrom(ticket.next)' : fate'[i] = "waiting"
  <2>1. ItemsFrom(ticket.next)' \subseteq ItemsFrom(ticket.next)
    <3>1. ticket'.next >= ticket.next /\ ticket'.next \in Nat /\ ticket.next \in Nat
      <4>1. CASE TakeBatch(t) \/ FailTake(t)
        <5>1. local[t] = ticket /\ ticket.next < ticket.batches
          BY <1>1, <4>1, TakeInRound DEF TakeBatch, FailTake
        <5>2. QED BY <1>1, <4>1, <5>1 DEF TakeBatch, FailTake, Ticket, TypeOK
      <4>2. CASE ~TakeBatch(t) /\ ~FailTake(t)
        <5>1. UNCHANGED ticket
          BY <4>2 DEF Signal, RunItems, LoadTicket, LeaveItems, MissBatch, ReadBatch,
             CheckItem, EndBatch, StartItem, ItemSucceeds, ItemFails, RecordFailure,
             FailLoad, FailNothing, FailMiss, Finish
        <5>2. QED BY <1>1, <5>1 DEF Ticket, TypeOK
      <4>3. QED BY <4>1, <4>2
    <3>2. round.batch \in Nat /\ round.items \in Nat
      BY <1>1 DEF TypeOK
    <3>3. ticket.next * round.batch <= ticket'.next * round.batch
      BY <3>1, <3>2, TimesMonotone
    <3>4. ticket.next * round.batch \in Nat /\ ticket'.next * round.batch \in Nat
      BY <3>1, <3>2, TimesSuccessor
    <3> DEFINE a == ticket.next * round.batch
               b == ticket'.next * round.batch
    <3>5. /\ ItemsFrom(ticket.next) = {i \in AllItems : a <= i}
          /\ ItemsFrom(ticket.next)' = {i \in AllItems : b <= i}
      BY <1>2 DEF ItemsFrom
    <3>6. a \in Nat /\ b \in Nat /\ a <= b
      BY <3>3, <3>4
    <3> HIDE DEF a, b
    <3>7. QED BY <3>2, <3>5, <3>6 DEF AllItems
  <2>2. \A i \in ItemsFrom(ticket.next) : fate[i] = "waiting" /\ i \notin claim[t]
    BY <1>1, <1>2, <1>6 DEF FateInv, AccountInv
  <2>3. QED BY <2>1, <2>2, FateChange DEF ItemsFrom
<1>7. ASSUME pc'[Caller] \in InRound, NEW i \in settled'
      PROVE  fate'[i] # "running" /\ (fate'[i] # Ok => failure' # Ok)
  <2>1. CASE i \in settled
    <3>1. i \in AllItems /\ i \notin claim[t]
      BY <1>1, <2>1 DEF AccountInv, TypeOK
    <3>2. QED BY <1>2, <1>7, <2>1, <3>1, FateChange DEF FateInv
  <2>2. CASE i \notin settled
    <3>1. Finish(t)
      BY <2>2, <1>7 DEF Signal, RunItems, LoadTicket, LeaveItems, TakeBatch, MissBatch,
         ReadBatch, CheckItem, EndBatch, StartItem, ItemSucceeds, ItemFails,
         RecordFailure, FailLoad, FailNothing, FailTake, FailMiss
    <3>2. pc[t] = "finish" /\ i \in claim[t] /\ UNCHANGED <<fate, failure>>
      BY <1>7, <2>2, <3>1 DEF Finish
    <3>3. QED BY <1>1, <3>2 DEF FateOk
  <2>3. QED BY <2>1, <2>2
<1>8. ASSUME pc'[Caller] \in InRound, failure' # Ok
      PROVE  \E i \in AllItems' : fate'[i] = failure'
  <2>1. CASE failure # Ok
    <3>1. PICK i \in AllItems : fate[i] = failure
      BY <1>2, <1>8, <2>1 DEF FateInv
    <3>2. failure \in Failures
      BY <1>1, <2>1 DEF TypeOK
    <3>3. fate'[i] = failure /\ failure' = failure
      BY <2>1, <3>1, <3>2, FateChange, Verdicts
    <3>4. QED BY <1>2, <3>3
  <2>2. CASE failure = Ok
    <3>1. RecordFailure(t)
      BY <2>2, <1>8 DEF Signal, RunItems, LoadTicket, LeaveItems, TakeBatch, MissBatch,
         ReadBatch, CheckItem, EndBatch, StartItem, ItemSucceeds, ItemFails,
         FailLoad, FailNothing, FailTake, FailMiss, Finish
    <3>2. pc[t] = "record" /\ failure' = code[t] /\ fate' = fate
      BY <2>2, <3>1 DEF RecordFailure
    <3>3. hand[t].index \in AllItems /\ fate[hand[t].index] = code[t]
      BY <1>1, <3>2 DEF FateOk
    <3>4. QED BY <1>2, <3>2, <3>3
  <2>3. QED BY <2>1, <2>2
<1>9. \A u \in Threads : FateOk(u)'
  BY <1>3, <1>4
<1>10. QED BY <1>5, <1>6, <1>7, <1>8, <1>9 DEF FateInv

\* The waiting steps and the caller's own leave failure and data alone, the
\* start of a round aside.
LEMMA QuietFrame ==
  ASSUME \/ \E h \in Helpers : HelperMain(h)
         \/ \E t \in Threads : SpuriousWake(t)
         \/ UNCHANGED vars
         \/ CallerMain /\ ~\E s \in Shapes : Each(s)
  PROVE  UNCHANGED <<failure, code, gathered, data, fate, settled, claim, hand, round>>
<1>1. ASSUME NEW h \in Helpers, HelperMain(h)
      PROVE  UNCHANGED <<failure, code, gathered, data, fate, settled, claim, hand, round>>
  BY <1>1 DEF HelperMain, SpinSees, SpinGivesUp, LockStart, TestStart, WaitStart,
       RelockStart, Awake, SeeTag
<1>2. ASSUME NEW t \in Threads, SpuriousWake(t)
      PROVE  UNCHANGED <<failure, code, gathered, data, fate, settled, claim, hand, round>>
  BY <1>2 DEF SpuriousWake
<1>3. ASSUME CallerMain, ~\E s \in Shapes : Each(s)
      PROVE  UNCHANGED <<failure, code, gathered, data, fate, settled, claim, hand, round>>
  BY <1>3 DEF CallerMain, Opened, StartHelper, StartHelperFails, EachNothing, Publish,
       WakeHelpers, WatchSees, WatchGivesUp, LockWait, TestDone, WaitFinish,
       RelockFinish, Return, Close, Stop, Join
<1>4. QED BY <1>1, <1>2, <1>3 DEF vars

\* Between two rounds no thread holds a batch.
LEMMA NobodyHolds ==
  ASSUME Inv, pc[Caller] \notin InRound \ {"return"}
  PROVE  \A t \in Threads : claim[t] = {} /\ pc[t] \notin Holding
  BY DEF Inv, AccountInv, HandInv, HandOk

\* Every step keeps what is known of the items.
LEMMA FateStep ==
  ASSUME Inv, FateInv, DOMAIN gathered = Threads, [Next]_vars
  PROVE  FateInv'
<1>1. TypeOK /\ TicketInv /\ AccountInv
  BY DEF Inv
<1>2. ASSUME NEW t \in Threads, RunItems(t) PROVE FateInv'
  BY <1>2, FateRunItems
<1>3. ASSUME NEW s \in Shapes, Each(s) PROVE FateInv'
  <2>1. /\ pc[Caller] = "idle" /\ pc' = [pc EXCEPT ![Caller] = "publish"]
        /\ failure' = Ok /\ UNCHANGED hand
        /\ round'.items = Items(s) /\ fate' = [i \in 0 .. Items(s) - 1 |-> "waiting"]
    BY <1>3 DEF Each, FirstFailure
  <2>2. \A t \in Threads : pc'[t] \notin Holding
    BY <1>1, <2>1, NobodyHolds DEF InRound, Holding, TypeOK
  <2>3. \A t \in Threads : FateOk(t)'
    BY <2>2 DEF FateOk, Holding
  <2>4. pc'[Caller] = "publish"
    BY <1>1, <2>1 DEF TypeOK
  <2>5. QED BY <2>1, <2>3, <2>4 DEF FateInv, AllItems, InRound, Holding
<1>4. CASE Publish
  <2>1. /\ pc[Caller] = "publish" /\ \A i \in AllItems : fate[i] = "waiting"
        /\ failure = Ok /\ settled = {}
    BY <1>1, <1>4 DEF Publish, FateInv, AccountInv
  <2>2. UNCHANGED <<failure, fate, settled, round>>
    BY <1>4 DEF Publish
  <2>3. pc'[Caller] \in {"load", "wake"} /\ \A t \in Threads \ {Caller} : pc'[t] = pc[t]
    BY <1>1, <1>4 DEF Publish, TypeOK
  <2>4. \A t \in Threads : pc'[t] \notin Holding
    BY <2>1, <2>3, NobodyHolds DEF InRound, Holding
  <2>5. \A t \in Threads : FateOk(t)'
    BY <2>4 DEF FateOk, Holding
  <2>6. QED BY <2>1, <2>2, <2>3, <2>5 DEF FateInv, AllItems, ItemsFrom
<1>5. CASE \/ \E h \in Helpers : HelperMain(h)
           \/ \E t \in Threads : SpuriousWake(t)
           \/ UNCHANGED vars
           \/ CallerMain /\ ~Publish /\ ~\E s \in Shapes : Each(s)
  <2>1. /\ UNCHANGED <<failure, code, fate, settled, claim, hand, round>>
        /\ AllItems' = AllItems
    BY <1>5, QuietFrame DEF AllItems
  <2>2. /\ UNCHANGED ticket
        /\ \A t \in Threads : pc'[t] \in Holding => pc'[t] = pc[t]
        /\ pc'[Caller] \in InRound => pc[Caller] \in InRound
        /\ pc'[Caller] = "publish" => pc[Caller] = "publish"
    BY <1>1, <1>5, WaitFrame, CallerFrame DEF InRound
  <2>3. ASSUME NEW t \in Threads PROVE FateOk(t)'
    <3>1. FateOk(t)
      BY DEF FateInv
    <3>2. CASE pc'[t] \in Holding
      BY <2>1, <2>2, <3>1, <3>2 DEF FateOk
    <3>3. CASE pc'[t] \notin Holding
      BY <3>3 DEF FateOk, Holding
    <3>4. QED BY <3>2, <3>3
  <2>4. ItemsFrom(ticket.next)' = ItemsFrom(ticket.next)
    BY <2>1, <2>2 DEF ItemsFrom
  <2>5. QED BY <2>1, <2>2, <2>3, <2>4 DEF FateInv
<1>6. QED BY <1>2, <1>3, <1>4, <1>5 DEF Next, Terminated

-----------------------------------------------------------------------------
(* What becomes of the elements.                                          *)

\* The worker of one item changes no element of another.
LEMMA OnlyMine ==
  ASSUME Inv, DataInv, pc[Caller] \in InRound, NEW k \in AllItems
  PROVE  /\ \A i \in AllItems : Elements(round.shape, i) \subseteq DOMAIN data
         /\ \A i \in AllItems : \A e \in Elements(round.shape, i) :
              i # k => e \notin Elements(round.shape, k)
<1>1. /\ round.shape \in Shapes /\ round.shape.len > 0
      /\ AllItems = 0 .. Items(round.shape) - 1
      /\ DOMAIN data = 0 .. round.shape.len - 1
  BY DEF DataInv, AllItems
<1>2. QED BY <1>1, ItemOfElement

\* What a worker leaves in the slice: its own elements hold what it wrote, once.
LEMMA AfterWrite ==
  ASSUME Inv, FateInv, DataInv, NEW t \in Threads, pc[t] = "working",
         NEW written \in SUBSET Elements(round.shape, hand[t].index),
         WriteBack(t, written)
  PROVE  data' = [e \in DOMAIN data |->
                    IF e \notin Elements(round.shape, hand[t].index) THEN data[e]
                    ELSE IF e \in written THEN 1 ELSE 0]
<1> DEFINE mine == Elements(round.shape, hand[t].index)
<1>1. pc[Caller] \in InRound
  BY NobodyHolds DEF Holding
<1>2. hand[t].index \in AllItems /\ fate[hand[t].index] = "running"
  BY AtItem
<1>3. \A e \in mine : data[e] = 0
  BY <1>1, <1>2 DEF DataInv
<1>4. round.shape.stride > 1 => gathered[t] = [e \in mine |-> 0]
  BY <1>1 DEF DataInv
<1>5. ASSUME NEW e \in mine
      PROVE  (IF round.shape.stride > 1 THEN gathered[t][e] ELSE data[e]) = 0
  BY <1>3, <1>4
<1>6. data' = [e \in DOMAIN data |->
                 IF e \notin mine THEN data[e]
                 ELSE (IF round.shape.stride > 1 THEN gathered[t][e] ELSE data[e])
                        + (IF e \in written THEN 1 ELSE 0)]
  BY DEF WriteBack
<1> HIDE DEF mine
<1>7. data' = [e \in DOMAIN data |->
                 IF e \notin mine THEN data[e] ELSE IF e \in written THEN 1 ELSE 0]
  <2>1. ASSUME NEW e \in DOMAIN data
        PROVE  (IF e \notin mine THEN data[e]
                ELSE (IF round.shape.stride > 1 THEN gathered[t][e] ELSE data[e])
                        + (IF e \in written THEN 1 ELSE 0))
               = (IF e \notin mine THEN data[e] ELSE IF e \in written THEN 1 ELSE 0)
    BY <1>5
  <2>2. QED BY <1>6, <2>1
<1>8. QED BY <1>7 DEF mine

\* A step of run_items keeps the elements in agreement with their items.
LEMMA DataRunItems ==
  ASSUME Inv, FateInv, DataInv, NEW t \in Threads, RunItems(t)
  PROVE  DataInv'
<1>1. TypeOK /\ DOMAIN gathered = Threads
  BY DEF Inv, DataInv
<1>2. /\ UNCHANGED round /\ AllItems' = AllItems
      /\ pc'[Caller] \in InRound \union {"publish"} => pc[Caller] \in InRound \union {"publish"}
  BY <1>1, RunItemsFrame, ThreadsAssumption DEF AllItems, InRound, RunLabels, Holding
<1>3. \A u \in Threads \ {t} :
        /\ hand'[u] = hand[u] /\ gathered'[u] = gathered[u]
        /\ pc'[u] = "working" => pc[u] = "working"
  BY <1>1, OthersKeep DEF Holding
<1>4. DOMAIN gathered' = Threads
  BY <1>1 DEF Signal, RunItems, LoadTicket, LeaveItems, TakeBatch, MissBatch,
     ReadBatch, CheckItem, EndBatch, StartItem, ItemSucceeds, ItemFails, RecordFailure,
     FailLoad, FailNothing, FailTake, FailMiss, Finish
<1>5. CASE StartItem(t)
  <2>1. /\ pc[Caller] \in InRound /\ hand[t].index \in AllItems
        /\ fate[hand[t].index] = "waiting"
    BY <1>5, NobodyHolds, AtItem DEF StartItem, Holding
  <2>2. /\ UNCHANGED <<data, hand>> /\ fate' = [fate EXCEPT ![hand[t].index] = "running"]
        /\ round.shape.stride > 1 =>
             gathered'[t] = [e \in Elements(round.shape, hand[t].index) |-> data[e]]
    BY <1>1, <1>5 DEF StartItem
  <2>3. \A e \in Elements(round.shape, hand[t].index) : data[e] = 0
    BY <2>1 DEF DataInv
  <2>4. round.shape.stride > 1 =>
          gathered'[t] = [e \in Elements(round.shape, hand[t].index) |-> 0]
    BY <2>2, <2>3
  <2>5. \A i \in AllItems : \A e \in Elements(round.shape, i) :
            /\ fate'[i] \in {"waiting", "running"} => data[e] = 0
            /\ fate'[i] = Ok => data[e] = 1
    BY <1>1, <2>1, <2>2, Verdicts DEF DataInv, TypeOK
  <2>6. \A u \in Threads : pc'[u] = "working" /\ round.shape.stride > 1 =>
            gathered'[u] = [e \in Elements(round.shape, hand[u].index) |-> 0]
    BY <1>3, <2>1, <2>4 DEF DataInv
  <2>7. QED BY <1>2, <1>4, <2>1, <2>2, <2>5, <2>6 DEF DataInv
<1>6. CASE ItemSucceeds(t) \/ ItemFails(t)
  <2> DEFINE k == hand[t].index
             mine == Elements(round.shape, k)
  <2>1. pc[t] = "working" /\ pc[Caller] \in InRound /\ k \in AllItems
    BY <1>6, NobodyHolds, AtItem DEF ItemSucceeds, ItemFails, Holding
  <2>2. PICK written \in SUBSET mine, c \in Failures \union {Ok} :
          /\ WriteBack(t, written) /\ fate' = [fate EXCEPT ![k] = c]
          /\ c = Ok => written = mine
    <3>1. CASE ItemSucceeds(t)
      <4>1. WriteBack(t, mine) /\ fate' = [fate EXCEPT ![k] = Ok] /\ mine \in SUBSET mine
        BY <3>1 DEF ItemSucceeds
      <4>2. QED BY <4>1, Zenon
    <3>2. CASE ItemFails(t)
      <4>1. PICK written \in SUBSET mine : WriteBack(t, written)
        BY <3>2 DEF ItemFails
      <4>2. PICK c \in Failures : fate' = [fate EXCEPT ![k] = c]
        BY <3>2 DEF ItemFails
      <4>3. c \in Failures \union {Ok} /\ c # Ok
        BY Verdicts
      <4>4. QED BY <4>1, <4>2, <4>3, Zenon
    <3>3. QED BY <1>6, <3>1, <3>2
  <2>3. data' = [e \in DOMAIN data |-> IF e \notin mine THEN data[e]
                                       ELSE IF e \in written THEN 1 ELSE 0]
    BY <2>1, <2>2, AfterWrite
  <2>4. /\ \A i \in AllItems : Elements(round.shape, i) \subseteq DOMAIN data
        /\ \A i \in AllItems : \A e \in Elements(round.shape, i) : i # k => e \notin mine
    BY <2>1, OnlyMine
  <2>5. data \in [0 .. round.shape.len - 1 -> 0 .. 1]
    BY <2>1 DEF DataInv
  <2>6. data' \in [0 .. round.shape.len - 1 -> 0 .. 1]
    <3> HIDE DEF mine
    <3> QED BY <2>3, <2>5
  <2>7. ASSUME NEW i \in AllItems, NEW e \in Elements(round.shape, i)
        PROVE  /\ fate'[i] \in {"waiting", "running"} => data'[e] = 0
               /\ fate'[i] = Ok => data'[e] = 1
    <3>1. e \in DOMAIN data
      BY <2>4
    <3>2. CASE i = k
      <4>1. fate'[i] = c /\ e \in mine
        BY <1>1, <2>1, <2>2, <3>2 DEF TypeOK
      <4>2. QED BY <2>2, <2>3, <3>1, <4>1, Verdicts
    <3>3. CASE i # k
      <4>1. fate'[i] = fate[i] /\ e \notin mine
        BY <1>1, <2>1, <2>2, <2>4, <3>3 DEF TypeOK
      <4>2. QED BY <2>1, <2>3, <3>1, <4>1 DEF DataInv
    <3>4. QED BY <3>2, <3>3
  <2>8. pc'[t] # "working"
    BY <1>1, <1>6 DEF ItemSucceeds, ItemFails, TypeOK
  <2>9. \A u \in Threads : pc'[u] = "working" /\ round.shape.stride > 1 =>
            gathered'[u] = [e \in Elements(round.shape, hand'[u].index) |-> 0]
    BY <1>3, <2>1, <2>8 DEF DataInv
  <2>10. QED BY <1>2, <1>4, <2>1, <2>6, <2>7, <2>9 DEF DataInv
<1>7. CASE ~StartItem(t) /\ ~ItemSucceeds(t) /\ ~ItemFails(t)
  <2>1. UNCHANGED <<data, fate>>
    BY <1>7 DEF Signal, RunItems, LoadTicket, LeaveItems, TakeBatch, MissBatch,
       ReadBatch, CheckItem, EndBatch, RecordFailure, FailLoad, FailNothing, FailTake,
       FailMiss, Finish
  <2>2. pc'[t] # "working"
    BY <1>1, <1>7 DEF TypeOK, Signal, RunItems, LoadTicket, LeaveItems, TakeBatch,
       MissBatch, ReadBatch, CheckItem, EndBatch, RecordFailure, FailLoad, FailNothing,
       FailTake, FailMiss, Finish
  <2>3. ASSUME pc[Caller] \in InRound \union {"publish"}
        PROVE  \A u \in Threads : pc'[u] = "working" /\ round.shape.stride > 1 =>
                 gathered'[u] = [e \in Elements(round.shape, hand'[u].index) |-> 0]
    BY <1>3, <2>2, <2>3 DEF DataInv
  <2>4. QED BY <1>2, <1>4, <2>1, <2>3 DEF DataInv
<1>8. QED BY <1>5, <1>6, <1>7

\* Every step keeps the elements in agreement with their items.
LEMMA DataStep ==
  ASSUME Inv, FateInv, DataInv, [Next]_vars
  PROVE  DataInv'
<1>1. TypeOK
  BY DEF Inv
<1>2. ASSUME NEW t \in Threads, RunItems(t) PROVE DataInv'
  BY <1>2, DataRunItems
<1>3. ASSUME NEW s \in Shapes, Each(s) PROVE DataInv'
  <2>1. /\ pc[Caller] = "idle" /\ pc' = [pc EXCEPT ![Caller] = "publish"]
        /\ s.len > 0 /\ round'.shape = s /\ round'.items = Items(s)
        /\ data' = [e \in 0 .. s.len - 1 |-> 0]
        /\ fate' = [i \in 0 .. Items(s) - 1 |-> "waiting"] /\ UNCHANGED gathered
    BY <1>3 DEF Each
  <2>2. \A t \in Threads : pc'[t] # "working"
    BY <1>1, <2>1, NobodyHolds DEF InRound, Holding, TypeOK
  <2>3. \A i \in 0 .. Items(s) - 1 : Elements(s, i) \subseteq 0 .. s.len - 1
    BY <2>1, ItemOfElement
  <2>4. data' \in [0 .. s.len - 1 -> 0 .. 1]
    BY <2>1
  <2>5. \A i \in AllItems' : \A e \in Elements(s, i) :
          fate'[i] = "waiting" /\ data'[e] = 0
    BY <2>1, <2>3 DEF AllItems
  <2>6. DOMAIN gathered' = Threads
    BY <2>1 DEF DataInv
  <2>7. QED BY <2>1, <2>2, <2>4, <2>5, <2>6, Verdicts DEF DataInv
<1>4. CASE \/ \E h \in Helpers : HelperMain(h)
           \/ \E t \in Threads : SpuriousWake(t)
           \/ UNCHANGED vars
           \/ CallerMain /\ ~\E s \in Shapes : Each(s)
  <2>1. UNCHANGED <<gathered, data, fate, hand, round>> /\ AllItems' = AllItems
    BY <1>4, QuietFrame DEF AllItems
  <2>2. /\ \A t \in Threads : pc'[t] = "working" => pc[t] = "working"
        /\ pc'[Caller] \in InRound \union {"publish"} =>
             pc[Caller] \in InRound \union {"publish"}
    <3>1. CASE Publish
      BY <1>1, <3>1 DEF Publish, TypeOK
    <3>2. CASE ~Publish
      BY <1>1, <1>4, <3>2, WaitFrame, CallerFrame DEF InRound, Holding
    <3>3. QED BY <3>1, <3>2
  <2>3. QED BY <2>1, <2>2 DEF DataInv
<1>5. QED BY <1>2, <1>3, <1>4 DEF Next, Terminated

-----------------------------------------------------------------------------
(* The theorems.                                                          *)

\* A pool that has just been allocated satisfies the invariant.
LEMMA RoundInit ==
  ASSUME Init
  PROVE  RoundInv
<1>1. Inv
  BY InitInv
<1>2. FateInv
  BY ThreadsAssumption DEF Init, FateInv, FateOk, InRound, Holding
<1>3. DataInv
  BY ThreadsAssumption DEF Init, DataInv, InRound, Holding
<1>4. QED BY <1>1, <1>2, <1>3 DEF RoundInv

\* The invariant of the synchronization and of what it protects holds for every
\* pool: what each thread may assume of the items in its hand, what became of
\* those nobody holds, and what the slice contains meanwhile.
THEOREM RoundInvariance == Spec => []RoundInv
<1>1. Init => RoundInv
  BY RoundInit
<1>2. RoundInv /\ [Next]_vars => RoundInv'
  <2>1. SUFFICES ASSUME RoundInv, [Next]_vars PROVE RoundInv'
    OBVIOUS
  <2>2. Inv' /\ FateInv' /\ DataInv'
    BY <2>1, StepInv, FateStep, DataStep DEF RoundInv, DataInv
  <2>3. QED BY <2>2 DEF RoundInv
<1>3. QED BY <1>1, <1>2, PTL DEF Spec

\* When each or each_lane returns, whichever threads raced for the batches, every
\* element of the slice was written exactly once if no worker failed; otherwise
\* none was written twice, those of finished items were written and those of
\* items nobody started were not touched.
THEOREM ElementsWrittenOnce == Spec => []EveryElementOnce
<1>1. RoundInv => EveryElementOnce
  <2>1. SUFFICES ASSUME RoundInv, pc[Caller] = "return"
                 PROVE  /\ failure = Ok => \A e \in DOMAIN data : data[e] = 1
                        /\ \A i \in AllItems : \A e \in Elements(round.shape, i) :
                             /\ data[e] <= 1
                             /\ fate[i] = Ok => data[e] = 1
                             /\ fate[i] = "waiting" => data[e] = 0
    BY DEF EveryElementOnce
  <2>2. Inv /\ FateInv /\ DataInv /\ pc[Caller] \in InRound
    BY <2>1 DEF RoundInv, InRound
  <2>3. settled = AllItems
    BY <2>1, <2>2, OverMeansSettled DEF Inv, AccountInv, RoundOver
  <2>4. ASSUME failure = Ok, NEW e \in DOMAIN data PROVE data[e] = 1
    <3>1. /\ round.shape \in Shapes /\ round.shape.len > 0
          /\ AllItems = 0 .. Items(round.shape) - 1
          /\ DOMAIN data = 0 .. round.shape.len - 1
      BY <2>2 DEF DataInv, AllItems
    <3>2. PICK i \in AllItems : e \in Elements(round.shape, i)
      BY <2>4, <3>1, ItemOfElement
    <3>3. fate[i] = Ok
      BY <2>2, <2>3, <2>4 DEF FateInv
    <3>4. QED BY <2>2, <3>2, <3>3 DEF DataInv
  <2>5. ASSUME NEW i \in AllItems, NEW e \in Elements(round.shape, i)
        PROVE  /\ data[e] <= 1
               /\ fate[i] = Ok => data[e] = 1
               /\ fate[i] = "waiting" => data[e] = 0
    <3>1. e \in DOMAIN data
      BY <2>2, OnlyMine
    <3>2. data[e] \in 0 .. 1
      BY <2>2, <3>1 DEF DataInv
    <3>3. QED BY <2>2, <3>2 DEF DataInv
  <2>6. QED BY <2>4, <2>5
<1>2. QED BY <1>1, RoundInvariance, PTL

-----------------------------------------------------------------------------
(* The pool implements ForkJoin.                                          *)

\* What the pool shows of itself to ForkJoin.
ShownPhase == IF pc[Caller] \in InRound \union {"publish"} THEN "running" ELSE "idle"
ShownFate == [i \in AllItems |->
                IF i \in settled /\ fate[i] = "waiting" THEN "skipped" ELSE fate[i]]

\* A pool that has just been allocated shows ForkJoin's initial state.
LEMMA PromiseInit ==
  ASSUME Init
  PROVE  Promise!Init
<1>1. AllItems = {} /\ pc[Caller] = "new" /\ result = Ok
  BY ThreadsAssumption DEF Init, AllItems
<1>2. QED BY <1>1 DEF Promise!Init, InRound, Holding, Ok

\* A step of run_items is shown as the start, the end or the skipping of items,
\* or not at all.
LEMMA PromiseRunItems ==
  ASSUME RoundInv, NEW t \in Threads, RunItems(t)
  PROVE  [Promise!Next]_(Promise!vars)
<1> USE DEF ShownPhase, ShownFate
<1>1. /\ Inv /\ FateInv /\ TypeOK /\ AccountInv /\ FateOk(t) /\ HandOk(t)
      /\ claim[t] \in SUBSET AllItems
  BY DEF RoundInv, Inv, TypeOK, HandInv, FateInv
<1>2. /\ UNCHANGED <<round, result>> /\ AllItems' = AllItems
      /\ ShownPhase' = ShownPhase
  BY <1>1, RunItemsFrame, ThreadsAssumption DEF AllItems, InRound, RunLabels, Holding
<1>3. CASE StartItem(t)
  <2> DEFINE k == hand[t].index
  <2>1. /\ k \in claim[t] /\ k \in AllItems /\ fate[k] = "waiting"
        /\ pc[Caller] \in InRound /\ k \notin settled
    BY <1>1, <1>3, AtItem, NobodyHolds DEF StartItem, Holding, AccountInv
  <2>2. fate' = [fate EXCEPT ![k] = "running"] /\ UNCHANGED settled
    BY <1>3 DEF StartItem
  <2>3. ShownFate[k] = "waiting" /\ ShownPhase = "running" /\ DOMAIN ShownFate = AllItems
    BY <2>1
  <2>4. ShownFate' = [ShownFate EXCEPT ![k] = "running"]
    BY <1>1, <1>2, <2>1, <2>2 DEF TypeOK
  <2>5. \E i \in DOMAIN ShownFate : Promise!Start(i)
    BY <1>2, <2>1, <2>3, <2>4 DEF Promise!Start
  <2>6. QED BY <2>5 DEF Promise!Next
<1>4. CASE ItemSucceeds(t) \/ ItemFails(t)
  <2> DEFINE k == hand[t].index
  <2>1. /\ k \in claim[t] /\ k \in AllItems /\ fate[k] = "running"
        /\ pc[Caller] \in InRound /\ k \notin settled
    BY <1>1, <1>4, AtItem, NobodyHolds DEF ItemSucceeds, ItemFails, Holding, AccountInv
  <2>2. PICK c \in Failures \union {"ok"} : fate' = [fate EXCEPT ![k] = c]
    BY <1>4 DEF ItemSucceeds, ItemFails, Ok
  <2>3. UNCHANGED settled
    BY <1>4 DEF ItemSucceeds, ItemFails
  <2>4. ShownFate[k] = "running" /\ ShownPhase = "running" /\ DOMAIN ShownFate = AllItems
    BY <2>1
  <2>5. ShownFate' = [ShownFate EXCEPT ![k] = c]
    BY <1>1, <1>2, <2>1, <2>2, <2>3 DEF TypeOK
  <2>6. Promise!End(k, c)
    BY <1>2, <2>4, <2>5 DEF Promise!End
  <2>7. QED BY <2>1, <2>2, <2>6 DEF Promise!Next
<1>5. CASE Finish(t)
  <2>1. /\ pc[t] = "finish" /\ settled' = settled \union claim[t] /\ UNCHANGED fate
        /\ pc[Caller] \in InRound
    BY <1>1, <1>5, NobodyHolds DEF Finish, Holding
  <2> DEFINE S == {i \in claim[t] : fate[i] = "waiting"}
  <2>2. ShownFate' = [i \in AllItems |-> IF i \in S THEN "skipped" ELSE ShownFate[i]]
    BY <1>1, <1>2, <2>1
  <2>3. CASE S = {}
    <3>1. ShownFate' = ShownFate
      BY <2>2, <2>3
    <3>2. QED BY <1>2, <3>1 DEF Promise!vars
  <2>4. CASE S # {}
    <3>1. failure # Ok
      BY <1>1, <2>1, <2>4, Verdicts DEF FateOk
    <3>2. PICK f \in AllItems : fate[f] = failure
      BY <1>1, <2>1, <3>1 DEF FateInv
    <3>3. failure \in Failures /\ failure # "waiting"
      BY <1>1, <3>1, Verdicts DEF TypeOK
    <3>4. \E i \in DOMAIN ShownFate : ShownFate[i] \in Failures
      BY <3>2, <3>3
    <3>5. \A i \in S : ShownFate[i] = "waiting"
      BY <1>1 DEF AccountInv
    <3>6. /\ S \in SUBSET DOMAIN ShownFate
          /\ ShownFate' = [i \in DOMAIN ShownFate |->
                             IF i \in S THEN "skipped" ELSE ShownFate[i]]
      BY <1>1, <2>2
    <3>7. ShownPhase = "running"
      BY <2>1
    <3>8. \E T \in SUBSET DOMAIN ShownFate : Promise!Skip(T)
      <4> HIDE DEF S
      <4> QED BY <1>2, <3>4, <3>5, <3>6, <3>7 DEF Promise!Skip
    <3>9. QED BY <3>8 DEF Promise!Next
  <2>5. QED BY <2>3, <2>4
<1>6. CASE ~StartItem(t) /\ ~ItemSucceeds(t) /\ ~ItemFails(t) /\ ~Finish(t)
  <2>1. UNCHANGED <<fate, settled>>
    BY <1>6 DEF Signal, RunItems, LoadTicket, LeaveItems, TakeBatch, MissBatch,
       ReadBatch, CheckItem, EndBatch, RecordFailure, FailLoad, FailNothing, FailTake,
       FailMiss
  <2>2. QED BY <1>2, <2>1 DEF Promise!vars
<1>7. QED BY <1>3, <1>4, <1>5, <1>6

\* A step of the caller is shown as the start of a call, its return or a call
\* that runs nothing, or not at all.
LEMMA PromiseCaller ==
  ASSUME RoundInv, CallerMain
  PROVE  [Promise!Next]_(Promise!vars)
<1> USE DEF ShownPhase, ShownFate
<1>1. Inv /\ FateInv /\ TypeOK /\ AccountInv
  BY DEF RoundInv, Inv
<1>2. ASSUME NEW s \in Shapes, Each(s) PROVE Promise!Next
  <2>1. /\ pc[Caller] = "idle" /\ pc' = [pc EXCEPT ![Caller] = "publish"]
        /\ round'.items = Items(s) /\ settled' = {} /\ UNCHANGED result
        /\ fate' = [i \in 0 .. Items(s) - 1 |-> "waiting"]
    BY <1>2 DEF Each
  <2>2. ShownPhase = "idle" /\ ShownPhase' = "running"
    BY <1>1, <2>1 DEF InRound, Holding, TypeOK
  <2>3. ShownFate' = [i \in 0 .. Items(s) - 1 |-> "waiting"]
    BY <2>1 DEF AllItems
  <2>4. Promise!Begin(Items(s))
    BY <2>1, <2>2, <2>3 DEF Promise!Begin
  <2>5. QED BY <2>4 DEF Promise!Next
<1>3. ASSUME NEW s \in Shapes, EachNothing(s) PROVE Promise!Next
  <2>1. /\ pc[Caller] = "idle" /\ UNCHANGED <<pc, round, fate, settled>>
        /\ result' \in {Ok, OutOfMemory}
    BY <1>3 DEF EachNothing
  <2>2. ShownPhase = "idle" /\ UNCHANGED <<ShownPhase, ShownFate>>
    BY <2>1 DEF InRound, Holding, AllItems
  <2>3. \E r \in {"ok", "OutOfMemory"} : Promise!Refuse(r)
    BY <2>1, <2>2 DEF Promise!Refuse, Ok, OutOfMemory
  <2>4. QED BY <2>3 DEF Promise!Next
<1>4. CASE Return
  <2>1. /\ pc[Caller] = "return" /\ pc' = [pc EXCEPT ![Caller] = "idle"]
        /\ result' = failure /\ UNCHANGED <<round, fate, settled>>
    BY <1>4 DEF Return
  <2>2. settled = AllItems
    BY <1>1, <2>1, OverMeansSettled DEF AccountInv, RoundOver, InRound
  <2>3. ShownPhase = "running" /\ ShownPhase' = "idle" /\ ShownFate' = ShownFate
    BY <1>1, <2>1 DEF InRound, Holding, TypeOK, AllItems
  <2>4. \A i \in AllItems : fate[i] # "running" /\ (fate[i] # Ok => failure # Ok)
    BY <1>1, <2>1, <2>2 DEF FateInv, InRound
  <2>5. \A i \in DOMAIN ShownFate : ShownFate[i] \notin {"waiting", "running"}
    BY <2>2, <2>4
  <2>6. CASE failure = Ok
    <3>1. \A i \in DOMAIN ShownFate : ShownFate[i] = "ok"
      BY <2>4, <2>6, Verdicts DEF Ok
    <3>2. Promise!Return
      BY <2>1, <2>3, <2>5, <2>6, <3>1 DEF Promise!Return, Ok
    <3>3. QED BY <3>2 DEF Promise!Next
  <2>7. CASE failure # Ok
    <3>1. PICK f \in AllItems : fate[f] = failure
      BY <1>1, <2>1, <2>7 DEF FateInv, InRound
    <3>2. failure \in Failures /\ failure # "waiting"
      BY <1>1, <2>7, Verdicts DEF TypeOK
    <3>3. f \in DOMAIN ShownFate /\ ShownFate[f] \in Failures /\ result' = ShownFate[f]
      BY <2>1, <3>1, <3>2
    <3>4. Promise!Return
      BY <2>3, <2>5, <3>3 DEF Promise!Return
    <3>5. QED BY <3>4 DEF Promise!Next
  <2>8. QED BY <2>6, <2>7
<1>5. CASE ~Return /\ ~\E s \in Shapes : Each(s) \/ EachNothing(s)
  <2>1. UNCHANGED <<fate, settled, round>>
    BY <1>5, QuietFrame
  <2>2. UNCHANGED result
    BY <1>5 DEF CallerMain, Opened, StartHelper, StartHelperFails, Publish, WakeHelpers,
       WatchSees, WatchGivesUp, LockWait, TestDone, WaitFinish, RelockFinish, Close,
       Stop, Join
  <2>3. pc'[Caller] \in InRound \union {"publish"} <=> pc[Caller] \in InRound \union {"publish"}
    <3>1. CASE Publish
      BY <1>1, <3>1 DEF Publish, TypeOK, InRound
    <3>2. CASE ~Publish
      <4>1. pc[Caller] # "return" /\ pc[Caller] # "publish"
        BY <1>5, <3>2, ThreadsAssumption DEF CallerMain, Opened, StartHelper,
           StartHelperFails, WakeHelpers, WatchSees, WatchGivesUp, LockWait, TestDone,
           WaitFinish, RelockFinish, Close, Stop, Join
      <4>2. QED BY <1>1, <1>5, <3>2, <4>1, CallerFrame
    <3>3. QED BY <3>1, <3>2
  <2>4. QED BY <2>1, <2>2, <2>3 DEF Promise!vars, AllItems
<1>6. QED BY <1>2, <1>3, <1>4, <1>5

\* Every step of the pool is shown as one of ForkJoin's or as no step.
LEMMA PromiseStep ==
  ASSUME RoundInv, [Next]_vars
  PROVE  [Promise!Next]_(Promise!vars)
<1> USE DEF ShownPhase, ShownFate
<1>1. TypeOK
  BY DEF RoundInv, Inv
<1>2. ASSUME NEW t \in Threads, RunItems(t) PROVE [Promise!Next]_(Promise!vars)
  BY <1>2, PromiseRunItems
<1>3. CASE CallerMain
  BY <1>3, PromiseCaller
<1>4. CASE \/ \E h \in Helpers : HelperMain(h)
           \/ \E t \in Threads : SpuriousWake(t)
           \/ UNCHANGED vars
  <2>1. UNCHANGED <<fate, settled, round>>
    BY <1>4, QuietFrame
  <2>2. UNCHANGED result
    BY <1>4 DEF SpuriousWake, vars, HelperMain, SpinSees, SpinGivesUp, LockStart,
       TestStart, WaitStart, RelockStart, Awake, SeeTag
  <2>3. pc'[Caller] \in InRound \union {"publish"} <=> pc[Caller] \in InRound \union {"publish"}
    BY <1>1, <1>4, WaitFrame DEF InRound
  <2>4. QED BY <2>1, <2>2, <2>3 DEF Promise!vars, AllItems
<1>5. QED BY <1>2, <1>3, <1>4 DEF Next, Terminated

\* The pool implements what std::thread promises of each and each_lane: every
\* item of a call is run once or, after a failure, skipped, and the call returns
\* when none is waiting or running, with the failure of one that failed.
THEOREM ImplementsForkJoin == Spec => KeepsPromise
<1>1. Init => Promise!Init
  BY PromiseInit
<1>2. RoundInv /\ [Next]_vars => [Promise!Next]_(Promise!vars)
  BY PromiseStep
<1>3. QED BY <1>1, <1>2, RoundInvariance, PTL DEF Spec, KeepsPromise, Promise!Spec

============================================================================
