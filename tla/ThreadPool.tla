----------------------------- MODULE ThreadPool -----------------------------
(***************************************************************************)
(* The thread pool of the native runtime                                   *)
(* (src/internal/native/runtime/runtime.c, "Thread pools"), the mechanism  *)
(* under std::thread.  One caller opens a pool, runs rounds over a slice,  *)
(* and closes the pool; helpers wait between rounds, take batches of items *)
(* with a compare-and-swap on one ticket word, and tell the caller when    *)
(* the last item is done.                                                  *)
(*                                                                         *)
(* A label of pc is a point between two accesses to shared memory.  Every  *)
(* atomic load, store and read-modify-write is a step of its own; plain    *)
(* reads and writes are folded into a neighbouring step only where the     *)
(* pool's mutex or the ownership of a batch protects them.  The model is   *)
(* sequentially consistent.                                                *)
(***************************************************************************)
EXTENDS Integers, FiniteSets

CONSTANTS
  Caller,          \* the thread that owns the Pool value
  Helpers,         \* the threads the pool starts
  None,            \* nobody holds the mutex
  TakesPerThread,  \* batches per thread a round aims at (8 in the code)
  BatchesMax,      \* KIZU_POOL_BATCHES_MAX, 2^20 - 1 in the code
  TagMod,          \* the tag field wraps at this value, 2^24 in the code
  Shapes,          \* the slices and cuts the caller may ask for
  Failures,        \* the failure codes a worker may answer
  MaxRounds        \* bound: calls of each / each_lane in one pool's life

Threads == Helpers \union {Caller}

Ok == "ok"
OutOfMemory == "OutOfMemory"
Fates == {"waiting", "running", Ok} \union Failures

ASSUME ThreadsAssumption ==
  /\ IsFiniteSet(Helpers)
  /\ Caller \notin Helpers
  /\ None \notin Threads

ASSUME LimitsAssumption ==
  /\ TakesPerThread \in Nat \ {0}
  /\ BatchesMax \in Nat \ {0}
  /\ TagMod \in Nat \ {0}
  /\ MaxRounds \in Nat

ASSUME FailuresAssumption ==
  Failures \intersect {"waiting", "running", Ok, OutOfMemory} = {}

(***************************************************************************)
(* A shape is what one call asks for.  Stride 0 is a chunk round: items    *)
(* are runs of `length` elements, the last one perhaps shorter.  A stride  *)
(* above 0 is a lane round over whole blocks of length * stride elements.  *)
(***************************************************************************)
Shape == [len : Nat, length : Nat \ {0}, stride : Nat]

ASSUME ShapesAssumption ==
  /\ Shapes \subseteq Shape
  /\ \A s \in Shapes : s.stride > 0 => s.len % (s.length * s.stride) = 0

CeilDiv(a, b) == (a + b - 1) \div b
AtMost(a, bound) == IF a > bound THEN bound ELSE a

\* Mutant: the short chunk at the end is forgotten.
ItemsWithoutTail(s) == s.len \div s.length

\* How many items a call cuts its slice into.
Items(s) == IF s.stride = 0 THEN CeilDiv(s.len, s.length)
                            ELSE s.len \div s.length

\* The elements of item i: what the worker is handed.
Elements(s, i) ==
  IF s.stride = 0
  THEN i * s.length .. AtMost((i + 1) * s.length, s.len) - 1
  ELSE LET first == (i \div s.stride) * s.length * s.stride + (i % s.stride)
       IN  {first + j * s.stride : j \in 0 .. s.length - 1}

\* Items are taken `Batch` at a time.
Batch(items) ==
  CeilDiv(items, AtMost(AtMost((Cardinality(Helpers) + 1) * TakesPerThread, items),
                        BatchesMax))

NoShape == [len |-> 0, length |-> 1, stride |-> 0]
NoTicket == [tag |-> 0, batches |-> 0, next |-> 0]
NoHand == [index |-> 0, end |-> 0, finished |-> 0]

-----------------------------------------------------------------------------
VARIABLES
  pc,              \* pc[t]: where thread t is
  lock,            \* the holder of pool->lock, or None
  sleepers,        \* pool->sleepers
  callerSleeping,  \* pool->caller_sleeping
  shutdown,        \* pool->shutdown
  round,           \* the round's plain fields: shape, items, batch
  scratch,         \* the round's scratch runs are allocated
  ticket,          \* pool->ticket: tag, batches, next
  done,            \* pool->done
  failure,         \* pool->failure
  stacks,          \* the helpers whose stack the pool holds
  tag,             \* tag[t]: the round thread t works for (seen_tag)
  local,           \* local[t]: t's copy of the ticket
  hand,            \* hand[t]: index, end and finished of t's batch
  code,            \* code[t]: the failure t's worker answered
  gathered,        \* gathered[t]: t's scratch run
  result,          \* what the last call of each / each_lane answered
  rounds           \* calls made so far

\* The lent slice, and what happened to it: data[e] counts the writes element
\* e kept.  The rest is history no step of the program reads.
VARIABLES
  data,
  fate,            \* fate[i]: what became of item i of the round
  claim,           \* claim[t]: the items t has taken and not accounted for
  settled          \* the items accounted for in done

sync == <<lock, sleepers, callerSleeping, shutdown>>
fields == <<round, scratch>>
words == <<ticket, done, failure>>
locals == <<tag, local, hand, code, gathered>>
outside == <<stacks, result, rounds>>
history == <<fate, claim, settled>>

vars == <<pc, sync, fields, words, locals, outside, data, history>>

Goto(t, label) == pc' = [pc EXCEPT ![t] = label]

\* A thread inside run_items with a batch in hand.
Holding == {"read", "item", "start", "working", "record", "failLoad",
            "failTake", "finish"}

\* The caller is between publishing a round and returning from it.
InRound == {"wake", "load", "take", "watch", "signal", "lockWait", "testDone",
            "waitFinish", "asleepFinish", "wokenFinish", "return"}
           \union Holding

RunLabels == {"load", "take", "signal"} \union Holding

HelperLabels == RunLabels \union
  {"unstarted", "spin", "lockStart", "testStart", "waitStart", "asleepStart",
   "wokenStart", "awake", "seen", "exited"}

CallerLabels == RunLabels \union InRound \union
  {"new", "idle", "publish", "lockStop", "join", "freed"}

AllItems == 0 .. round.items - 1

\* The items of batch n, and those from batch n on.
BatchItems(n) == {i \in AllItems : n * round.batch <= i /\ i < (n + 1) * round.batch}
ItemsFrom(n) == {i \in AllItems : n * round.batch <= i}

Exhausted(w, t) == w.tag # t \/ w.next >= w.batches

\* The tag of the round after the one tagged t.
NextTag(t) == (t + 1) % TagMod

\* Mutant: the ticket is stored without comparing it.
CurrentAssumed(t) == TRUE

\* The compare-and-swap finds the word it expects.
Current(t) == ticket = local[t]

\* No failure is recorded yet.
MayStart == failure = Ok

\* What pool->failure holds when a round starts.
FirstFailure == Ok

\* How many items the batches from `next` on hold.
Skipped(next) ==
  LET taken == next * round.batch
  IN  IF taken < round.items THEN round.items - taken ELSE 0

\* What thread t adds to done for the batch in its hand.
Finished(t) == hand[t].finished

\* Mutant: the round is over once no batch is left to take.
RoundOverTaken == ticket.next >= ticket.batches

\* The test the caller leaves a round on.
RoundOver == done = round.items

\* Mutant: the wake is sent without the mutex.
MayWakeUnlocked == TRUE

\* A wake is sent under the mutex.
MayWake == lock = None

\* Every started helper has been joined.
Joined == \A h \in Helpers : pc[h] \in {"unstarted", "exited"}

-----------------------------------------------------------------------------
Init ==
  /\ pc = [t \in Threads |-> IF t = Caller THEN "new" ELSE "unstarted"]
  /\ lock = None /\ sleepers = 0 /\ callerSleeping = FALSE /\ shutdown = FALSE
  /\ round = [shape |-> NoShape, items |-> 0, batch |-> 0]
  /\ scratch = FALSE
  /\ ticket = NoTicket /\ done = 0 /\ failure = Ok
  /\ stacks = {}
  /\ tag = [t \in Threads |-> 0]
  /\ local = [t \in Threads |-> NoTicket]
  /\ hand = [t \in Threads |-> NoHand]
  /\ code = [t \in Threads |-> Ok]
  /\ gathered = [t \in Threads |-> <<>>]
  /\ result = Ok /\ rounds = 0
  /\ data = <<>>
  /\ fate = <<>>
  /\ claim = [t \in Threads |-> {}]
  /\ settled = {}

-----------------------------------------------------------------------------
(* thread_pool_new: the helpers start one by one; the first that cannot   *)
(* start ends the pool.                                                   *)

StartHelper(h) ==
  /\ pc[Caller] = "new" /\ pc[h] = "unstarted"
  /\ pc' = [pc EXCEPT ![h] = "spin"]
  /\ stacks' = stacks \union {h}
  /\ UNCHANGED <<sync, fields, words, locals, result, rounds, data, history>>

\* No stack for the helper, or a stack but no thread.
StartHelperFails(h) ==
  /\ pc[Caller] = "new" /\ pc[h] = "unstarted"
  /\ Goto(Caller, "lockStop")
  /\ \E bought \in {{}, {h}} : stacks' = stacks \union bought
  /\ UNCHANGED <<sync, fields, words, locals, result, rounds, data, history>>

Opened ==
  /\ pc[Caller] = "new"
  /\ \A h \in Helpers : pc[h] # "unstarted"
  /\ Goto(Caller, "idle")
  /\ UNCHANGED <<sync, fields, words, locals, outside, data, history>>

-----------------------------------------------------------------------------
(* kizu_pool_run_items and kizu_pool_fail: what every thread of a round   *)
(* does, the caller included.                                             *)

LoadTicket(t) ==
  /\ pc[t] = "load"
  /\ local' = [local EXCEPT ![t] = ticket]
  /\ Goto(t, "take")
  /\ UNCHANGED <<sync, fields, words, tag, hand, code, gathered, outside, data, history>>

\* Where a thread goes when the round has nothing left for it.
AfterItems(t) == IF t = Caller THEN "watch" ELSE "spin"

LeaveItems(t) ==
  /\ pc[t] = "take"
  /\ Exhausted(local[t], tag[t])
  /\ local' = [local EXCEPT ![t] = NoTicket]
  /\ Goto(t, AfterItems(t))
  /\ UNCHANGED <<sync, fields, words, tag, hand, code, gathered, outside, data, history>>

TakeBatch(t) ==
  /\ pc[t] = "take"
  /\ ~Exhausted(local[t], tag[t])
  /\ Current(t)
  /\ ticket' = [local[t] EXCEPT !.next = @ + 1]
  /\ claim' = [claim EXCEPT ![t] = BatchItems(local[t].next)]
  /\ Goto(t, "read")
  /\ UNCHANGED <<sync, fields, done, failure, locals, outside, data, fate, settled>>

\* The compare-and-swap failed: it leaves the current word in the local copy.
MissBatch(t) ==
  /\ pc[t] = "take"
  /\ ~Exhausted(local[t], tag[t])
  /\ ~Current(t)
  /\ local' = [local EXCEPT ![t] = ticket]
  /\ UNCHANGED <<pc, sync, fields, words, tag, hand, code, gathered, outside, data, history>>

\* The round's plain fields are read only now that a batch is taken.
ReadBatch(t) ==
  /\ pc[t] = "read"
  /\ LET first == local[t].next * round.batch
         end == AtMost(first + round.batch, round.items)
     IN  hand' = [hand EXCEPT ![t] =
                    [index |-> first, end |-> end, finished |-> end - first]]
  /\ Goto(t, "item")
  /\ UNCHANGED <<sync, fields, words, tag, local, code, gathered, outside, data, history>>

\* The relaxed load of pool->failure before each item.
CheckItem(t) ==
  /\ pc[t] = "item"
  /\ hand[t].index < hand[t].end
  /\ MayStart
  /\ Goto(t, "start")
  /\ UNCHANGED <<sync, fields, words, locals, outside, data, history>>

EndBatch(t) ==
  /\ pc[t] = "item"
  /\ hand[t].index >= hand[t].end \/ ~MayStart
  /\ Goto(t, "finish")
  /\ UNCHANGED <<sync, fields, words, locals, outside, data, history>>

\* run_item up to the worker's first instruction.  A strided lane is copied
\* into the thread's scratch run.
StartItem(t) ==
  /\ pc[t] = "start"
  /\ gathered' = [gathered EXCEPT ![t] =
       IF round.shape.stride > 1
       THEN [e \in Elements(round.shape, hand[t].index) |-> data[e]]
       ELSE <<>>]
  /\ fate' = [fate EXCEPT ![hand[t].index] = "running"]
  /\ Goto(t, "working")
  /\ UNCHANGED <<sync, fields, words, tag, local, hand, code, outside, data, claim, settled>>

\* The worker wrote the elements of `written` once each; a lane is copied back.
WriteBack(t, written) ==
  LET mine == Elements(round.shape, hand[t].index)
      before(e) == IF round.shape.stride > 1 THEN gathered[t][e] ELSE data[e]
  IN  data' = [e \in DOMAIN data |->
                 IF e \notin mine THEN data[e]
                 ELSE before(e) + (IF e \in written THEN 1 ELSE 0)]

ItemSucceeds(t) ==
  /\ pc[t] = "working"
  /\ WriteBack(t, Elements(round.shape, hand[t].index))
  /\ fate' = [fate EXCEPT ![hand[t].index] = Ok]
  /\ hand' = [hand EXCEPT ![t].index = @ + 1]
  /\ gathered' = [gathered EXCEPT ![t] = <<>>]
  /\ Goto(t, "item")
  /\ UNCHANGED <<sync, fields, words, tag, local, code, outside, claim, settled>>

\* What the worker wrote before it failed stays.
ItemFails(t) ==
  /\ pc[t] = "working"
  /\ \E written \in SUBSET Elements(round.shape, hand[t].index) : WriteBack(t, written)
  /\ \E c \in Failures :
       /\ code' = [code EXCEPT ![t] = c]
       /\ fate' = [fate EXCEPT ![hand[t].index] = c]
  /\ gathered' = [gathered EXCEPT ![t] = <<>>]
  /\ Goto(t, "record")
  /\ UNCHANGED <<sync, fields, words, tag, local, hand, outside, claim, settled>>

\* kizu_pool_fail: the first failure is kept.
RecordFailure(t) ==
  /\ pc[t] = "record"
  /\ failure' = IF failure = Ok THEN code[t] ELSE failure
  /\ code' = [code EXCEPT ![t] = Ok]
  /\ Goto(t, "failLoad")
  /\ UNCHANGED <<sync, fields, ticket, done, tag, local, hand, gathered, outside, data, history>>

FailLoad(t) ==
  /\ pc[t] = "failLoad"
  /\ local' = [local EXCEPT ![t] = ticket]
  /\ Goto(t, "failTake")
  /\ UNCHANGED <<sync, fields, words, tag, hand, code, gathered, outside, data, history>>

FailNothing(t) ==
  /\ pc[t] = "failTake"
  /\ Exhausted(local[t], tag[t])
  /\ Goto(t, "finish")
  /\ UNCHANGED <<sync, fields, words, locals, outside, data, history>>

\* Every batch nobody took is taken at once and counted as finished.
FailTake(t) ==
  /\ pc[t] = "failTake"
  /\ ~Exhausted(local[t], tag[t])
  /\ Current(t)
  /\ ticket' = [local[t] EXCEPT !.next = local[t].batches]
  /\ hand' = [hand EXCEPT ![t].finished = @ + Skipped(local[t].next)]
  /\ claim' = [claim EXCEPT ![t] = @ \union ItemsFrom(local[t].next)]
  /\ Goto(t, "finish")
  /\ UNCHANGED <<sync, fields, done, failure, tag, local, code, gathered, outside, data,
                 fate, settled>>

FailMiss(t) ==
  /\ pc[t] = "failTake"
  /\ ~Exhausted(local[t], tag[t])
  /\ ~Current(t)
  /\ local' = [local EXCEPT ![t] = ticket]
  /\ UNCHANGED <<pc, sync, fields, words, tag, hand, code, gathered, outside, data, history>>

\* The add to pool->done.  Skipped items of the batch count as finished.
Finish(t) ==
  /\ pc[t] = "finish"
  /\ done' = done + Finished(t)
  /\ settled' = settled \union claim[t]
  /\ claim' = [claim EXCEPT ![t] = {}]
  /\ hand' = [hand EXCEPT ![t] = NoHand]
  /\ local' = [local EXCEPT ![t] = NoTicket]
  /\ Goto(t, IF done' = round.items THEN "signal" ELSE "load")
  /\ UNCHANGED <<sync, fields, ticket, failure, tag, code, gathered, outside, data, fate>>

\* lock; wake the caller if it sleeps; unlock.
Signal(t) ==
  /\ pc[t] = "signal"
  /\ MayWake
  /\ pc' = [u \in Threads |->
              IF u = t THEN AfterItems(t)
              ELSE IF callerSleeping /\ pc[u] = "asleepFinish" THEN "wokenFinish"
              ELSE pc[u]]
  /\ UNCHANGED <<sync, fields, words, locals, outside, data, history>>

RunItems(t) ==
  \/ LoadTicket(t) \/ LeaveItems(t) \/ TakeBatch(t) \/ MissBatch(t)
  \/ ReadBatch(t) \/ CheckItem(t) \/ EndBatch(t) \/ StartItem(t)
  \/ ItemSucceeds(t) \/ ItemFails(t) \/ RecordFailure(t) \/ FailLoad(t)
  \/ FailNothing(t) \/ FailTake(t) \/ FailMiss(t) \/ Finish(t) \/ Signal(t)

-----------------------------------------------------------------------------
(* kizu_pool_await_round and kizu_pool_helper_main.                       *)

\* Mutant: shutdown is not looked at.
CalledByRound(h) == ticket.tag # tag[h]

\* The condition both waits of a helper test.
Called(h) == shutdown \/ ticket.tag # tag[h]

SpinSees(h) ==
  /\ pc[h] = "spin"
  /\ Called(h)
  /\ Goto(h, "awake")
  /\ UNCHANGED <<sync, fields, words, locals, outside, data, history>>

\* The spin budget ran out; its last load may already be stale.
SpinGivesUp(h) ==
  /\ pc[h] = "spin"
  /\ Goto(h, "lockStart")
  /\ UNCHANGED <<sync, fields, words, locals, outside, data, history>>

LockStart(h) ==
  /\ pc[h] = "lockStart"
  /\ lock = None
  /\ lock' = h
  /\ sleepers' = sleepers + 1
  /\ Goto(h, "testStart")
  /\ UNCHANGED <<callerSleeping, shutdown, fields, words, locals, outside, data, history>>

TestStart(h) ==
  /\ pc[h] = "testStart"
  /\ \/ /\ ~Called(h)
        /\ Goto(h, "waitStart")
        /\ UNCHANGED <<lock, sleepers>>
     \/ /\ Called(h)
        /\ sleepers' = sleepers - 1
        /\ lock' = None
        /\ Goto(h, "awake")
  /\ UNCHANGED <<callerSleeping, shutdown, fields, words, locals, outside, data, history>>

\* pthread_cond_wait gives the mutex up and sleeps in one step.
WaitStart(h) ==
  /\ pc[h] = "waitStart"
  /\ lock' = None
  /\ Goto(h, "asleepStart")
  /\ UNCHANGED <<sleepers, callerSleeping, shutdown, fields, words, locals, outside,
                 data, history>>

RelockStart(h) ==
  /\ pc[h] = "wokenStart"
  /\ lock = None
  /\ lock' = h
  /\ Goto(h, "testStart")
  /\ UNCHANGED <<sleepers, callerSleeping, shutdown, fields, words, locals, outside,
                 data, history>>

Awake(h) ==
  /\ pc[h] = "awake"
  /\ Goto(h, IF shutdown THEN "exited" ELSE "seen")
  /\ UNCHANGED <<sync, fields, words, locals, outside, data, history>>

SeeTag(h) ==
  /\ pc[h] = "seen"
  /\ tag' = [tag EXCEPT ![h] = ticket.tag]
  /\ Goto(h, "load")
  /\ UNCHANGED <<sync, fields, words, local, hand, code, gathered, outside, data, history>>

HelperMain(h) ==
  \/ SpinSees(h) \/ SpinGivesUp(h) \/ LockStart(h) \/ TestStart(h)
  \/ WaitStart(h) \/ RelockStart(h) \/ Awake(h) \/ SeeTag(h)

-----------------------------------------------------------------------------
(* thread_pool_each, thread_pool_each_lane and kizu_pool_round.           *)

\* A slice with no elements, or no memory for the scratch runs: no round.
EachNothing(s) ==
  /\ pc[Caller] = "idle" /\ rounds < MaxRounds
  /\ rounds' = rounds + 1
  /\ \/ s.len = 0 /\ result' = Ok
     \/ s.len > 0 /\ s.stride > 1 /\ result' = OutOfMemory
  /\ UNCHANGED <<pc, sync, fields, words, locals, stacks, data, history>>

Each(s) ==
  /\ pc[Caller] = "idle" /\ rounds < MaxRounds
  /\ s.len > 0
  /\ rounds' = rounds + 1
  /\ round' = [shape |-> s, items |-> Items(s), batch |-> Batch(Items(s))]
  /\ scratch' = (s.stride > 1)
  /\ done' = 0 /\ failure' = FirstFailure
  /\ data' = [e \in 0 .. s.len - 1 |-> 0]
  /\ fate' = [i \in 0 .. Items(s) - 1 |-> "waiting"]
  /\ settled' = {}
  /\ Goto(Caller, "publish")
  /\ UNCHANGED <<sync, ticket, locals, stacks, result, claim>>

\* The release store of the new ticket: from here helpers may take batches.
Publish ==
  /\ pc[Caller] = "publish"
  /\ LET next == NextTag(ticket.tag)
     IN  /\ ticket' = [tag |-> next, batches |-> CeilDiv(round.items, round.batch),
                       next |-> 0]
         /\ tag' = [tag EXCEPT ![Caller] = next]
  /\ Goto(Caller, IF Helpers = {} THEN "load" ELSE "wake")
  /\ UNCHANGED <<sync, fields, done, failure, local, hand, code, gathered, outside, data,
                 history>>

\* lock; broadcast `start` if anyone sleeps; unlock.
WakeHelpers ==
  /\ pc[Caller] = "wake"
  /\ MayWake
  /\ pc' = [u \in Threads |->
              IF u = Caller THEN "load"
              ELSE IF sleepers > 0 /\ pc[u] = "asleepStart" THEN "wokenStart"
              ELSE pc[u]]
  /\ UNCHANGED <<sync, fields, words, locals, outside, data, history>>

WatchSees ==
  /\ pc[Caller] = "watch"
  /\ RoundOver
  /\ Goto(Caller, "return")
  /\ UNCHANGED <<sync, fields, words, locals, outside, data, history>>

WatchGivesUp ==
  /\ pc[Caller] = "watch"
  /\ Goto(Caller, "lockWait")
  /\ UNCHANGED <<sync, fields, words, locals, outside, data, history>>

LockWait ==
  /\ pc[Caller] = "lockWait"
  /\ lock = None
  /\ lock' = Caller
  /\ callerSleeping' = TRUE
  /\ Goto(Caller, "testDone")
  /\ UNCHANGED <<sleepers, shutdown, fields, words, locals, outside, data, history>>

TestDone ==
  /\ pc[Caller] = "testDone"
  /\ \/ /\ ~RoundOver
        /\ Goto(Caller, "waitFinish")
        /\ UNCHANGED <<lock, callerSleeping>>
     \/ /\ RoundOver
        /\ callerSleeping' = FALSE
        /\ lock' = None
        /\ Goto(Caller, "return")
  /\ UNCHANGED <<sleepers, shutdown, fields, words, locals, outside, data, history>>

WaitFinish ==
  /\ pc[Caller] = "waitFinish"
  /\ lock' = None
  /\ Goto(Caller, "asleepFinish")
  /\ UNCHANGED <<sleepers, callerSleeping, shutdown, fields, words, locals, outside,
                 data, history>>

RelockFinish ==
  /\ pc[Caller] = "wokenFinish"
  /\ lock = None
  /\ lock' = Caller
  /\ Goto(Caller, "testDone")
  /\ UNCHANGED <<sleepers, callerSleeping, shutdown, fields, words, locals, outside,
                 data, history>>

\* The round's last load of failure, and the scratch runs go back.
Return ==
  /\ pc[Caller] = "return"
  /\ result' = failure
  /\ scratch' = FALSE
  /\ Goto(Caller, "idle")
  /\ UNCHANGED <<sync, round, words, locals, stacks, rounds, data, history>>

-----------------------------------------------------------------------------
(* thread_pool_close and kizu_pool_release.                               *)

Close ==
  /\ pc[Caller] = "idle"
  /\ Goto(Caller, "lockStop")
  /\ UNCHANGED <<sync, fields, words, locals, outside, data, history>>

Stop ==
  /\ pc[Caller] = "lockStop"
  /\ lock = None
  /\ shutdown' = TRUE
  /\ pc' = [u \in Threads |->
              IF u = Caller THEN "join"
              ELSE IF pc[u] = "asleepStart" THEN "wokenStart"
              ELSE pc[u]]
  /\ UNCHANGED <<lock, sleepers, callerSleeping, fields, words, locals, outside, data,
                 history>>

\* Every started helper is joined before a stack or the pool goes back.
Join ==
  /\ pc[Caller] = "join"
  /\ Joined
  /\ stacks' = {}
  /\ Goto(Caller, "freed")
  /\ UNCHANGED <<sync, fields, words, locals, result, rounds, data, history>>

CallerMain ==
  \/ Opened
  \/ \E h \in Helpers : StartHelper(h) \/ StartHelperFails(h)
  \/ \E s \in Shapes : Each(s) \/ EachNothing(s)
  \/ Publish \/ WakeHelpers \/ WatchSees \/ WatchGivesUp \/ LockWait
  \/ TestDone \/ WaitFinish \/ RelockFinish \/ Return
  \/ Close \/ Stop \/ Join

-----------------------------------------------------------------------------
\* pthread_cond_wait may return without a signal.
SpuriousWake(t) ==
  /\ \/ pc[t] = "asleepStart" /\ Goto(t, "wokenStart")
     \/ pc[t] = "asleepFinish" /\ Goto(t, "wokenFinish")
  /\ UNCHANGED <<sync, fields, words, locals, outside, data, history>>

\* The pool is gone; nothing is left to do.
Terminated == pc[Caller] = "freed" /\ UNCHANGED vars

Step(t) == RunItems(t) \/ (IF t = Caller THEN CallerMain ELSE HelperMain(t))

Next ==
  \/ CallerMain
  \/ \E h \in Helpers : HelperMain(h)
  \/ \E t \in Threads : RunItems(t) \/ SpuriousWake(t)
  \/ Terminated

Spec == Init /\ [][Next]_vars

-----------------------------------------------------------------------------
(***************************************************************************)
(* Fairness.  Every runnable thread is scheduled, a worker returns, and a  *)
(* mutex somebody keeps asking for is granted in the end.                  *)
(***************************************************************************)
CallerLocks == WakeHelpers \/ LockWait \/ RelockFinish \/ Stop

\* A helper the round depends on: one with a batch or a wake in hand, or one
\* that holds the mutex.
Needed(h) ==
  /\ pc[h] \in Holding \union {"signal"} \/ lock = h
  /\ RunItems(h) \/ HelperMain(h)

\* What a round needs, and no more: helpers with nothing in hand may stand still.
RoundFairness ==
  /\ WF_vars(pc[Caller] # "idle" /\ Step(Caller))
  /\ SF_vars(CallerLocks)
  /\ SF_vars(Signal(Caller))
  /\ \A h \in Helpers : WF_vars(Needed(h)) /\ SF_vars(Signal(h))

RoundSpec == Spec /\ RoundFairness

\* What closing needs besides: every helper is scheduled.
HelpersScheduled ==
  \A h \in Helpers : WF_vars(Step(h)) /\ SF_vars(LockStart(h) \/ RelockStart(h))

-----------------------------------------------------------------------------
Ticket == [tag : 0 .. TagMod - 1, batches : Nat, next : Nat]

TypeOK ==
  /\ pc \in [Threads -> HelperLabels \union CallerLabels]
  /\ pc[Caller] \in CallerLabels
  /\ \A h \in Helpers : pc[h] \in HelperLabels
  /\ lock \in Threads \union {None}
  /\ sleepers \in Nat /\ callerSleeping \in BOOLEAN /\ shutdown \in BOOLEAN
  /\ round \in [shape : Shapes \union {NoShape}, items : Nat, batch : Nat]
  /\ scratch \in BOOLEAN
  /\ ticket \in Ticket /\ done \in Nat /\ failure \in Failures \union {Ok}
  /\ stacks \subseteq Helpers
  /\ tag \in [Threads -> 0 .. TagMod - 1]
  /\ local \in [Threads -> Ticket]
  /\ hand \in [Threads -> [index : Nat, end : Nat, finished : Nat]]
  /\ code \in [Threads -> Failures \union {Ok}]
  /\ result \in Failures \union {Ok, OutOfMemory}
  /\ rounds \in 0 .. MaxRounds
  /\ fate \in [AllItems -> Fates]
  /\ claim \in [Threads -> SUBSET AllItems]
  /\ settled \subseteq AllItems

-----------------------------------------------------------------------------
(* What a round promises.                                                 *)

\* Nothing a round lends outlives the call: a thread reads the round's fields,
\* the slice or its scratch run only while the caller is inside the round and
\* not yet returning, so the next call may overwrite them and the caller may
\* free the scratch runs.
LentOnlyDuringRound ==
  \A t \in Threads : pc[t] \in Holding =>
    /\ pc[Caller] \in InRound \ {"return"}
    /\ round.shape.stride > 1 => scratch

\* When a call returns, each element holds what its worker wrote exactly once:
\* all of them in a round without failures; with a failure, the elements of an
\* item that ran to its end are written, those of an item nobody started are
\* untouched, and none is written twice.
EveryElementOnce ==
  pc[Caller] = "return" =>
    /\ failure = Ok => \A e \in DOMAIN data : data[e] = 1
    /\ \A i \in AllItems : \A e \in Elements(round.shape, i) :
         /\ data[e] <= 1
         /\ fate[i] = Ok => data[e] = 1
         /\ fate[i] = "waiting" => data[e] = 0

\* pool->done is the number of items accounted for; what is taken, what is left
\* on the ticket and what is accounted for never overlap; and during a round
\* together they are the whole round.
Accounting ==
  /\ done = Cardinality(settled)
  /\ \A t \in Threads :
       /\ claim[t] \intersect settled = {}
       /\ \A u \in Threads \ {t} : claim[t] \intersect claim[u] = {}
  /\ pc[Caller] \in InRound =>
       AllItems = settled \union (UNION {claim[t] : t \in Threads})
                          \union ItemsFrom(ticket.next)

\* A helper sleeps through no round and no shutdown: if the ticket moved on (or
\* the pool shut down) while it sleeps, the caller has its broadcast still to
\* send.
NoLostStart ==
  \A h \in Helpers : pc[h] = "asleepStart" /\ Called(h) => pc[Caller] = "wake"

\* The caller does not sleep on a finished round: some thread has its signal
\* still to send.
NoLostFinish ==
  pc[Caller] = "asleepFinish" /\ RoundOver => \E h \in Helpers : pc[h] = "signal"

\* A call of each or each_lane returns, however long helpers with no item in
\* hand are put aside.
RoundReturns == pc[Caller] = "publish" ~> pc[Caller] = "idle"

\* Closing a pool, also one whose helpers did not all start, ends and joins its
\* helpers and returns, if they are scheduled too.
CloseReturns == HelpersScheduled => (pc[Caller] = "lockStop" ~> pc[Caller] = "freed")

-----------------------------------------------------------------------------
\* The pool implements ForkJoin: an item that was accounted for without being
\* started has been skipped.
Promise == INSTANCE ForkJoin WITH
  ItemCounts <- {Items(s) : s \in Shapes},
  phase <- IF pc[Caller] \in InRound \union {"publish"} THEN "running" ELSE "idle",
  fate <- [i \in AllItems |->
             IF i \in settled /\ fate[i] = "waiting" THEN "skipped" ELSE fate[i]]

\* Every behaviour of the pool is one ForkJoin allows.
KeepsPromise == Promise!Spec

-----------------------------------------------------------------------------
(***************************************************************************)
(* The inductive invariant, in parts.  ThreadPoolProofs proves it for every *)
(* number of helpers, every slice and every way to cut it.                 *)
(***************************************************************************)

\* The mutex is held exactly at the labels inside a critical section.
LockInv ==
  \A t \in Threads :
    lock = t <=> pc[t] \in {"testStart", "waitStart", "testDone", "waitFinish"}

\* The helpers counted in pool->sleepers.
Sleeping ==
  {h \in Helpers : pc[h] \in {"testStart", "waitStart", "asleepStart", "wokenStart"}}

SleepInv ==
  /\ sleepers = Cardinality(Sleeping)
  /\ callerSleeping <=>
       pc[Caller] \in {"testDone", "waitFinish", "asleepFinish", "wokenFinish"}
  /\ shutdown <=> pc[Caller] \in {"join", "freed"}

\* Nobody goes to sleep on, or sleeps through, a change that will not be told.
WakeInv ==
  /\ \A h \in Helpers :
       pc[h] \in {"waitStart", "asleepStart"} /\ Called(h) => pc[Caller] = "wake"
  /\ pc[Caller] \in {"waitFinish", "asleepFinish"} /\ RoundOver =>
       \E h \in Helpers : pc[h] = "signal"

\* The batches of a round cover its items with none to spare, and between
\* rounds the ticket offers none.
TicketInv ==
  /\ pc[Caller] \in InRound \union {"publish"} => round.items > 0 /\ round.batch > 0
  /\ pc[Caller] \in InRound =>
       /\ ticket.batches * round.batch >= round.items
       /\ (ticket.batches - 1) * round.batch < round.items
       /\ ticket.batches > 0
       /\ ticket.next <= ticket.batches
  /\ pc[Caller] \notin InRound => ticket.next >= ticket.batches

\* A thread has items exactly while it holds a batch, and what its hand says
\* agrees with them.
HandOk(t) ==
  /\ pc[t] \in Holding <=> claim[t] # {}
  /\ pc[t] = "read" =>
       claim[t] = BatchItems(local[t].next) /\ local[t].next * round.batch < round.items
  /\ pc[t] \in Holding \ {"read"} =>
       hand[t].finished = Cardinality(claim[t]) /\ hand[t].end <= round.items
  /\ pc[t] = "start" => hand[t].index < hand[t].end

HandInv == \A t \in Threads : HandOk(t)

\* Taken, untaken and accounted items are disjoint and make up the round; once
\* the caller has seen the round over, all are accounted for.
AccountInv ==
  /\ done = Cardinality(settled)
  /\ \A t \in Threads :
       /\ claim[t] \intersect settled = {}
       /\ \A u \in Threads \ {t} : claim[t] \intersect claim[u] = {}
  /\ pc[Caller] \in InRound =>
       /\ settled \intersect ItemsFrom(ticket.next) = {}
       /\ \A t \in Threads : claim[t] \intersect ItemsFrom(ticket.next) = {}
       /\ \A i \in AllItems : \/ i \in settled
                              \/ i \in ItemsFrom(ticket.next)
                              \/ \E t \in Threads : i \in claim[t]
  /\ pc[Caller] \notin InRound \ {"return"} => \A t \in Threads : claim[t] = {}
  /\ pc[Caller] = "return" => done = round.items
  /\ pc[Caller] = "publish" => settled = {}

\* A strided round has its scratch runs until it returns.
ScratchInv ==
  pc[Caller] \in InRound \union {"publish"} /\ round.shape.stride > 1 => scratch

\* A helper that was started keeps its stack until its thread has exited.
StackInv == \A h \in Helpers : pc[h] \notin {"unstarted", "exited"} => h \in stacks

\* The inductive invariant of the synchronization.
Inv ==
  /\ TypeOK /\ LockInv /\ SleepInv /\ WakeInv /\ ScratchInv /\ StackInv
  /\ TicketInv /\ HandInv /\ AccountInv

\* What became of the items thread t holds: those before hand[t].index ran to
\* their end, those after it are untouched, and a batch is given up with an
\* item undone only after a failure was recorded.
FateOk(t) ==
  /\ pc[t] = "read" => \A i \in claim[t] : fate[i] = "waiting"
  /\ pc[t] \in {"item", "start", "working"} =>
       /\ \A i \in AllItems : hand[t].index <= i /\ i < hand[t].end => i \in claim[t]
       /\ \A i \in claim[t] : /\ i < hand[t].end
                              /\ i < hand[t].index => fate[i] = Ok
                              /\ i > hand[t].index => fate[i] = "waiting"
  /\ pc[t] \in {"item", "start"} /\ hand[t].index \in claim[t] =>
       fate[hand[t].index] = "waiting"
  /\ pc[t] = "working" => hand[t].index \in claim[t] /\ fate[hand[t].index] = "running"
  /\ pc[t] = "record" =>
       /\ hand[t].index \in claim[t]
       /\ code[t] \in Failures /\ fate[hand[t].index] = code[t]
  /\ pc[t] \in {"record", "failLoad", "failTake", "finish"} =>
       \A i \in claim[t] : fate[i] # "running"
  /\ pc[t] \in {"failLoad", "failTake"} => failure # Ok
  /\ pc[t] = "finish" => \A i \in claim[t] : fate[i] # Ok => failure # Ok

\* What became of the items nobody holds, and where a recorded failure is from.
FateInv ==
  /\ \A t \in Threads : FateOk(t)
  /\ pc[Caller] = "publish" => failure = Ok /\ \A i \in AllItems : fate[i] = "waiting"
  /\ pc[Caller] \in InRound =>
       /\ \A i \in ItemsFrom(ticket.next) : fate[i] = "waiting"
       /\ \A i \in settled : fate[i] # "running" /\ (fate[i] # Ok => failure # Ok)
       /\ failure # Ok => \E i \in AllItems : fate[i] = failure

\* What the elements hold follows from what became of their item; a strided lane
\* in a thread's scratch run is the lane as it was lent.
DataInv ==
  /\ DOMAIN gathered = Threads
  /\ pc[Caller] \in InRound \union {"publish"} =>
       /\ round.shape \in Shapes /\ round.shape.len > 0 /\ round.items = Items(round.shape)
       /\ data \in [0 .. round.shape.len - 1 -> 0 .. 1]
       /\ \A i \in AllItems : \A e \in Elements(round.shape, i) :
            /\ fate[i] \in {"waiting", "running"} => data[e] = 0
            /\ fate[i] = Ok => data[e] = 1
       /\ \A t \in Threads : pc[t] = "working" /\ round.shape.stride > 1 =>
            gathered[t] = [e \in Elements(round.shape, hand[t].index) |-> 0]

\* The inductive invariant: the synchronization and what it protects.
RoundInv == Inv /\ FateInv /\ DataInv

=============================================================================
