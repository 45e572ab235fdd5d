--------------------------- MODULE EventLoopProofs ---------------------------
(***************************************************************************)
(* Proofs about EventLoop, for any finite set of workers and any TaskSets. *)
(***************************************************************************)
EXTENDS EventLoop, FiniteSetTheorems, SequenceTheorems, WellFoundedInduction, TLAPS

-----------------------------------------------------------------------------
(* The inductive invariant                                                 *)

\* The stack begins at Main and holds a coroutine once, and what is on it has
\* not returned.
StackInv ==
  /\ stack # <<>> /\ IsInjective(stack) /\ Main \in ToSet(stack)
  /\ \A t \in Tasks : OnStack(t) => status[t] = "live"

\* Of whom a worker is: a Future's and a TaskSet's are told apart, and only a
\* set that is being closed holds one back from the reaping.
WorkerInv ==
  \A t \in Tasks :
    /\ owner[t] # None \/ home[t] # None => t \in Alive
    /\ owner[t] = None \/ home[t] = None
    /\ held[t] => \E c \in Contexts : op[c].kind = "close" /\ op[c].task = t

TrackInv ==
  /\ IsInjective(tasks) /\ ToSet(tasks) = Alive
  /\ \A s \in Sets : IsInjective(members[s]) /\ ToSet(members[s]) = {t \in Alive : home[t] = s}

\* A worker waits in one slot exactly while it is parked, off the stack.
ParkInv ==
  /\ \A t \in Tasks : parked[t] =>
       /\ status[t] = "live" /\ ~OnStack(t)
       /\ \E n \in 1 .. Len(parks) : parks[n].live /\ parks[n].coro = t
  /\ \A n \in 1 .. Len(parks) : parks[n].live => parks[n].coro \in Tasks /\ parked[parks[n].coro]
  /\ \A m, n \in 1 .. Len(parks) :
       parks[m].live /\ parks[n].live /\ parks[m].coro = parks[n].coro => m = n

\* A call in progress belongs to a context on the stack, and is about a worker
\* or a set of its own.
CallOf(c) ==
  /\ op[c].kind # "none" => c \in ToSet(stack)
  /\ op[c].kind \in {"await", "cancel", "deinit"} =>
       op[c].task \in Tasks /\ owner[op[c].task] = c
  /\ op[c].kind \in {"wait", "close"} => op[c].set \in Sets /\ keeper[op[c].set] = c
  /\ op[c].kind = "close" /\ op[c].task # None =>
       home[op[c].task] = op[c].set /\ held[op[c].task]

\* Who is not at the top has resumed something.
BelowInv ==
  \A c \in ToSet(stack) \ {Current} :
    op[c].kind # "none" /\ op[c].any /\ (op[c].kind = "close" => op[c].task # None)

CallInv == (\A c \in Contexts : CallOf(c)) /\ BelowInv

\* What a turn of c that has resumed nothing knows.  A worker that could have
\* been run was: in front of the poll the live ones wait or stand on the stack.
\* A poll that left nothing to come back for settled every wait, and the loop
\* behind it took them all.  What the reaping passed over stays.
TurnOf(c) ==
  /\ op[c].phase \in {"check", "run", "poll", "wake"} => op[c].i = 1
  /\ op[c].phase \in {"check", "run", "poll"} => ~op[c].more
  /\ op[c].kind = "close" /\ op[c].task = None => op[c].phase = "check"
  /\ op[c].phase \in {"poll", "wake", "reap"} =>
       \A t \in Tasks : status[t] = "live" => parked[t] \/ OnStack(t)
  /\ op[c].phase = "wake" /\ ~op[c].more => Waiting = {}
  /\ op[c].phase = "reap" /\ ~op[c].more => \A n \in 1 .. Len(parks) : ~parks[n].live
  /\ op[c].phase = "reap" =>
       \A n \in 1 .. Len(tasks) : n < op[c].i =>
         home[tasks[n]] = None \/ status[tasks[n]] # "finished" \/ held[tasks[n]]

TurnInv == \A c \in Contexts : op[c].kind # "none" /\ ~op[c].any => TurnOf(c)

SettledInv == \A n \in 1 .. Len(parks) : parks[n].done => parks[n].outcome # "retry"

LoopInv ==
  /\ TypeOK
  /\ CancelArrives
  /\ SettledInv
  /\ Intact => StackInv /\ WorkerInv /\ TrackInv /\ ParkInv /\ CallInv /\ TurnInv

-----------------------------------------------------------------------------
(* Sequences and least elements                                            *)

\* The loops of a turn take the least index that qualifies.
LEMMA MinOf ==
  ASSUME NEW S \in SUBSET Nat, S # {}
  PROVE  Min(S) \in S /\ \A x \in S : Min(S) <= x
<1> DEFINE R == OpToRel(<, Nat)
<1>1. \E x \in S : \A y \in S : ~(<<y, x>> \in R)
  BY WFMin, NatLessThanWellFounded
<1>2. \A x, y \in S : ~(<<y, x>> \in R) => x <= y
  BY DEF OpToRel
<1>3. \E x \in S : \A y \in S : x <= y
  BY <1>1, <1>2
<1> QED
  BY <1>3 DEF Min

\* What an Append changes.
LEMMA Pushed ==
  ASSUME NEW S, NEW q \in Seq(S), NEW e \in S
  PROVE  /\ Append(q, e) \in Seq(S)
         /\ Append(q, e) # <<>>
         /\ Last(Append(q, e)) = e
         /\ ToSet(Append(q, e)) = ToSet(q) \union {e}
         /\ IsInjective(q) /\ e \notin ToSet(q) => IsInjective(Append(q, e))
<1> DEFINE a == Append(q, e)
<1>1. a \in Seq(S) /\ Len(a) = Len(q) + 1 /\ a[Len(q) + 1] = e
      /\ \A n \in 1 .. Len(q) : a[n] = q[n]
  OBVIOUS
<1>2. DOMAIN q = 1 .. Len(q) /\ DOMAIN a = 1 .. Len(q) + 1 /\ Len(q) \in Nat
  BY <1>1
<1> HIDE DEF a
<1>3. a # <<>> /\ Last(a) = e
  BY <1>1, <1>2 DEF Last
<1>4. ToSet(a) = ToSet(q) \union {e}
  BY <1>1, <1>2 DEF ToSet
<1>5. ASSUME IsInjective(q), e \notin ToSet(q) PROVE IsInjective(a)
  BY <1>1, <1>2, <1>5 DEF IsInjective, ToSet
<1> QED
  BY <1>1, <1>3, <1>4, <1>5 DEF a

\* What dropping the last entry changes.
LEMMA Popped ==
  ASSUME NEW S, NEW q \in Seq(S), q # <<>>, IsInjective(q)
  PROVE  /\ Front(q) \in Seq(S)
         /\ IsInjective(Front(q))
         /\ Last(q) \in ToSet(q)
         /\ ToSet(Front(q)) = ToSet(q) \ {Last(q)}
<1> DEFINE f == Front(q)
<1>1. Len(q) \in Nat \ {0} /\ DOMAIN q = 1 .. Len(q)
  OBVIOUS
<1>2. f \in Seq(S) /\ Len(f) = Len(q) - 1 /\ \A n \in 1 .. Len(q) - 1 : f[n] = q[n]
  BY <1>1 DEF Front
<1>3. DOMAIN f = 1 .. Len(q) - 1
  BY <1>1, <1>2
<1> HIDE DEF f
<1>4. IsInjective(f)
  BY <1>1, <1>2, <1>3 DEF IsInjective
<1>5. Last(q) \in ToSet(q)
  BY <1>1 DEF Last, ToSet
<1>6. ToSet(f) = ToSet(q) \ {Last(q)}
  BY <1>1, <1>2, <1>3 DEF ToSet, IsInjective, Last
<1> QED
  BY <1>2, <1>4, <1>5, <1>6 DEF f

\* The last element of a list is one of its elements.
LEMMA LastOf ==
  ASSUME NEW S, NEW q \in Seq(S), q # <<>>
  PROVE  Last(q) \in ToSet(q) /\ Last(q) \in S
  BY DEF Last, ToSet

\* The elements of a list, by its places.
LEMMA SetOf ==
  ASSUME NEW S, NEW q \in Seq(S)
  PROVE  /\ ToSet(q) \subseteq S
         /\ \A n \in 1 .. Len(q) : q[n] \in ToSet(q)
         /\ \A e \in ToSet(q) : \E n \in 1 .. Len(q) : q[n] = e
  BY DEF ToSet

\* kizu_loop_forget and kizu_task_set_forget drop one entry and keep the rest,
\* those in front of it where they were.
LEMMA Forgotten ==
  ASSUME NEW S, NEW q \in Seq(S), IsInjective(q), NEW t
  PROVE  /\ Forget(q, t) \in Seq(S)
         /\ IsInjective(Forget(q, t))
         /\ ToSet(Forget(q, t)) = ToSet(q) \ {t}
         /\ \A n \in 1 .. Len(q) : q[n] = t =>
              \A k \in 1 .. Len(Forget(q, t)) : k < n => Forget(q, t)[k] = q[k]
         /\ Len(Forget(q, t)) <= Len(q)
<1>1. CASE t \notin ToSet(q)
  BY <1>1, SetOf DEF Forget
<1>2. CASE t \in ToSet(q)
  <2>1. PICK n \in 1 .. Len(q) : q[n] = t
    BY <1>2, SetOf
  <2>2. \A m \in 1 .. Len(q) : q[m] = t => m = n
    BY <2>1 DEF IsInjective
  <2>3. (CHOOSE m \in 1 .. Len(q) : q[m] = t) = n
    BY <2>1, <2>2
  <2> DEFINE l == q[Len(q)]
             x == [q EXCEPT ![n] = l]
             f == Front(x)
  <2>4. Forget(q, t) = f
    BY <1>2, <2>3 DEF Forget, Last
  <2>5. Len(q) \in Nat \ {0} /\ DOMAIN q = 1 .. Len(q) /\ l \in S
    BY <2>1
  <2>6. x \in Seq(S) /\ Len(x) = Len(q)
        /\ \A k \in 1 .. Len(q) : x[k] = IF k = n THEN l ELSE q[k]
    BY <2>5
  <2> HIDE DEF x
  <2>7. f \in Seq(S) /\ Len(f) = Len(q) - 1 /\ \A k \in 1 .. Len(q) - 1 : f[k] = x[k]
    BY <2>5, <2>6 DEF Front
  <2>8. DOMAIN f = 1 .. Len(q) - 1
    BY <2>5, <2>7
  <2> HIDE DEF f
  <2>9. \A k \in 1 .. Len(q) - 1 : f[k] = IF k = n THEN q[Len(q)] ELSE q[k]
    BY <2>5, <2>6, <2>7
  <2>10. IsInjective(f)
    BY <2>1, <2>5, <2>8, <2>9 DEF IsInjective
  <2>11. ToSet(f) = ToSet(q) \ {t}
    <3>1. ASSUME NEW e \in ToSet(f) PROVE e \in ToSet(q) \ {t}
      <4>1. PICK k \in 1 .. Len(q) - 1 : f[k] = e
        BY <2>8, <3>1 DEF ToSet
      <4> QED
        BY <4>1, <2>1, <2>2, <2>5, <2>9 DEF ToSet
    <3>2. ASSUME NEW e \in ToSet(q), e # t PROVE e \in ToSet(f)
      <4>1. PICK k \in 1 .. Len(q) : q[k] = e
        BY <2>5 DEF ToSet
      <4>2. CASE k = Len(q)
        <5>1. n \in 1 .. Len(q) - 1 /\ f[n] = e
          BY <4>1, <4>2, <2>1, <2>5, <2>9, <3>2
        <5> QED
          BY <5>1, <2>8 DEF ToSet
      <4>3. CASE k # Len(q)
        <5>1. k # n
          BY <4>1, <2>1, <3>2
        <5>2. k \in 1 .. Len(q) - 1
          BY <4>3
        <5>3. f[k] = q[k]
          BY <5>1, <5>2, <2>9
        <5> QED
          BY <4>1, <5>2, <5>3, <2>8 DEF ToSet
      <4> QED
        BY <4>2, <4>3
    <3> QED
      BY <3>1, <3>2
  <2> QED
    BY <2>1, <2>2, <2>4, <2>5, <2>7, <2>9, <2>10, <2>11
<1> QED
  BY <1>1, <1>2

-----------------------------------------------------------------------------
(* Types                                                                   *)

Agree == StackInv /\ WorkerInv /\ TrackInv /\ ParkInv /\ CallInv /\ TurnInv

\* Whoever acts stands on top of an intact stack.
LEMMA Acting ==
  ASSUME LoopInv, NEW c \in Contexts, Runs(c)
  PROVE  /\ TypeOK /\ CancelArrives /\ SettledInv /\ Agree
         /\ ~closed /\ Intact /\ c = Last(stack) /\ c \in ToSet(stack)
<1>1. TypeOK /\ CancelArrives /\ SettledInv /\ Agree /\ ~closed /\ Intact /\ c = Last(stack)
  BY DEF LoopInv, Agree, Runs, Current
<1>2. stack \in Seq(Contexts) /\ stack # <<>>
  BY <1>1 DEF TypeOK, Agree, StackInv
<1> QED
  BY <1>1, <1>2, LastOf

\* A step that gives control back, and one that hands it to a worker.
LEMMA Returned ==
  ASSUME LoopInv, NEW t \in Tasks, Runs(t), Return
  PROVE  /\ stack' \in Seq(Contexts) /\ stack' # <<>> /\ IsInjective(stack')
         /\ ToSet(stack') = ToSet(stack) \ {t}
         /\ Last(stack') \in ToSet(stack) \ {t}
         /\ Main \in ToSet(stack')
<1>1. t \in Contexts /\ t # Main
  BY ContextsAssumption DEF Contexts
<1>2. TypeOK /\ StackInv /\ t = Last(stack)
  BY <1>1, Acting DEF Agree
<1>3. stack \in Seq(Contexts) /\ stack # <<>> /\ IsInjective(stack) /\ Main \in ToSet(stack)
  BY <1>2 DEF TypeOK, StackInv
<1>4. stack' \in Seq(Contexts) /\ IsInjective(stack') /\ ToSet(stack') = ToSet(stack) \ {t}
  BY <1>2, <1>3, Popped DEF Return
<1>5. Main \in ToSet(stack')
  BY <1>1, <1>3, <1>4
<1>6. stack' # <<>>
  BY <1>5 DEF ToSet
<1> QED
  BY <1>4, <1>5, <1>6, LastOf

\* A coroutine resumed is on top of the stack, once.
LEMMA Resumed ==
  ASSUME LoopInv, Intact, NEW t \in Tasks, t \notin ToSet(stack), Resume(t)
  PROVE  /\ stack' \in Seq(Contexts) /\ stack' # <<>> /\ IsInjective(stack')
         /\ ToSet(stack') = ToSet(stack) \union {t}
         /\ Last(stack') = t
         /\ Main \in ToSet(stack')
<1>1. stack \in Seq(Contexts) /\ IsInjective(stack) /\ Main \in ToSet(stack) /\ t \in Contexts
  BY DEF LoopInv, TypeOK, StackInv, Contexts
<1> QED
  BY <1>1, Pushed DEF Resume

\* What the loops of a turn resume or reap is in the tables.
LEMMA Picked ==
  ASSUME LoopInv, NEW c \in Contexts, Runs(c)
  PROVE  /\ ToRun(c) # {} =>
              Min(ToRun(c)) \in ToRun(c) /\ Min(ToRun(c)) \in 1 .. Len(tasks)
         /\ ToWake(c) # {} =>
              Min(ToWake(c)) \in ToWake(c) /\ Min(ToWake(c)) \in 1 .. Len(parks)
         /\ ToReap(c) # {} =>
              /\ Min(ToReap(c)) \in ToReap(c) /\ Min(ToReap(c)) \in 1 .. Len(tasks)
              /\ \A n \in ToReap(c) : Min(ToReap(c)) <= n
<1>1. TypeOK
  BY Acting
<1>2. op[c].i \in Nat \ {0} /\ Len(tasks) \in Nat /\ Len(parks) \in Nat
  BY <1>1 DEF TypeOK, Op
<1>3. ToRun(c) \subseteq 1 .. Len(tasks)
  BY <1>2 DEF ToRun
<1>4. ToWake(c) \subseteq 1 .. Len(parks)
  BY <1>2 DEF ToWake
<1>5. ToReap(c) \subseteq 1 .. Len(tasks)
  BY <1>2 DEF ToReap
<1>6. ToRun(c) \in SUBSET Nat /\ ToWake(c) \in SUBSET Nat /\ ToReap(c) \in SUBSET Nat
  BY <1>2, <1>3, <1>4, <1>5
<1> QED
  BY <1>3, <1>4, <1>5, <1>6, MinOf

\* The worker that a turn resumes, wakes or reaps, and what is known of it.
LEMMA RunsTask ==
  ASSUME LoopInv, NEW c \in Contexts, RunTask(c)
  PROVE  \E t \in Tasks :
           /\ Resume(t) /\ t = tasks[Min(ToRun(c))]
           /\ status[t] = "live" /\ ~parked[t] /\ t \notin ToSet(stack)
<1>1. Runs(c) /\ ToRun(c) # {}
  BY DEF RunTask, In, Turns
<1>2. TypeOK /\ Min(ToRun(c)) \in ToRun(c) /\ Min(ToRun(c)) \in 1 .. Len(tasks)
  BY <1>1, Acting, Picked
<1>3. tasks[Min(ToRun(c))] \in Tasks
  BY <1>2 DEF TypeOK
<1> QED
  BY <1>2, <1>3 DEF RunTask, ToRun, Runnable, OnStack

\* A wake resumes the worker of the first settled park that is left.
LEMMA Wakes ==
  ASSUME LoopInv, NEW c \in Contexts, Wake(c)
  PROVE  \E t \in Tasks : \E n \in 1 .. Len(parks) :
           /\ Resume(t) /\ n = Min(ToWake(c)) /\ t = parks[n].coro
           /\ parks[n].live /\ parks[n].done /\ n >= op[c].i
           /\ status[t] = "live" /\ parked[t] /\ t \notin ToSet(stack)
<1>1. Runs(c) /\ ToWake(c) # {}
  BY DEF Wake, In, Turns
<1>2. TypeOK /\ ParkInv /\ Min(ToWake(c)) \in ToWake(c) /\ Min(ToWake(c)) \in 1 .. Len(parks)
  BY <1>1, Acting, Picked DEF Agree
<1> DEFINE n == Min(ToWake(c))
<1>3. parks[n].live /\ parks[n].done /\ Resume(parks[n].coro)
  BY <1>2 DEF Wake, ToWake
<1>4. n >= op[c].i
  BY <1>2 DEF ToWake, TypeOK, Op
<1>5. parks[n].coro \in Tasks /\ parked[parks[n].coro]
  BY <1>2, <1>3 DEF ParkInv
<1> QED
  BY <1>2, <1>3, <1>4, <1>5 DEF ParkInv, OnStack

\* A reap closes the first worker that is finished and that nobody holds.
LEMMA Reaps ==
  ASSUME LoopInv, NEW c \in Contexts, Reap(c)
  PROVE  \E t \in Tasks, s \in Sets : \E n \in 1 .. Len(tasks) :
           /\ n = Min(ToReap(c)) /\ t = tasks[n] /\ s = home[t]
           /\ TaskClose(t)
           /\ status[t] = "finished" /\ ~held[t]
<1>1. Runs(c) /\ ToReap(c) # {}
  BY DEF Reap, In, Turns
<1> DEFINE n == Min(ToReap(c))
           t == tasks[n]
<1>2. TypeOK /\ n \in ToReap(c) /\ n \in 1 .. Len(tasks)
  BY <1>1, Acting, Picked
<1>3. t \in Tasks /\ home[t] # None /\ status[t] = "finished" /\ ~held[t]
  BY <1>2 DEF TypeOK, ToReap
<1>4. home[t] \in Sets
  BY <1>2, <1>3 DEF TypeOK
<1>5. TaskClose(t)
  BY DEF Reap
<1> QED
  BY <1>2, <1>3, <1>4, <1>5

\* How a call returns: with nothing but its record changed, after freeing the
\* worker of the Future, or for the next member of the set that is closed.
Left(c) ==
  \/ /\ op[c].kind \in {"await", "cancel", "wait"}
     /\ op' = [op EXCEPT ![c] = NoOp]
     /\ UNCHANGED <<coros, tasks, sets>>
  \/ \E t \in Tasks :
       /\ t = op[c].task /\ op[c].kind = "deinit" /\ owner[t] = c
       /\ TaskClose(t)
       /\ op' = [op EXCEPT ![c] = NoOp]
       /\ UNCHANGED sets
  \/ \E t \in Tasks, s \in Sets :
       /\ t = op[c].task /\ s = op[c].set /\ op[c].kind = "close"
       /\ home[t] = s /\ held[t] /\ keeper[s] = c
       /\ TaskClose(t)
       /\ members' = [members EXCEPT ![s] = Forget(@, t)]
       /\ departed' = [departed EXCEPT ![s] = @ + 1]
       /\ op' = [op EXCEPT ![c] = [NoOp EXCEPT !.kind = "close", !.set = s]]
       /\ UNCHANGED keeper

\* A turn that is over goes back to the call that made it.
LEMMA Leaves ==
  ASSUME LoopInv, NEW c \in Contexts, Turns(c), op[c].kind = "close" => op[c].task # None, Leave(c)
  PROVE  Left(c)
<1>1. TypeOK /\ CallInv
  BY Acting DEF Turns, Agree
<1>2. op[c].task \in Tasks \union {None}
  BY <1>1 DEF TypeOK, Op
<1>3. CASE op[c].kind = "close"
  <2>1. op[c].task \in Tasks /\ op[c].set \in Sets
    BY <1>1, <1>2, <1>3 DEF CallInv, CallOf
  <2> QED
    BY <1>1, <1>3, <2>1 DEF CallInv, CallOf, Leave, Left
<1>4. CASE op[c].kind = "deinit"
  BY <1>1, <1>4 DEF CallInv, CallOf, Leave, Left
<1>5. CASE op[c].kind \in {"await", "cancel", "wait"}
  BY <1>5 DEF Leave, Left
<1> QED
  BY <1>3, <1>4, <1>5 DEF Leave

\* task_close.
LEMMA Freed ==
  ASSUME TypeOK, TrackInv, NEW t \in Tasks, TaskClose(t)
  PROVE  /\ status' \in [Tasks -> {"unborn", "live", "finished", "freed"}]
         /\ owner' \in [Tasks -> Contexts \union {None}]
         /\ home' \in [Tasks -> Sets \union {None}]
         /\ canceled' \in [Tasks -> BOOLEAN]
         /\ held' \in [Tasks -> BOOLEAN]
         /\ tasks' \in Seq(Tasks) /\ IsInjective(tasks')
         /\ ToSet(tasks') = ToSet(tasks) \ {t}
         /\ \A u \in Tasks : status'[u] = IF u = t THEN "freed" ELSE status[u]
         /\ \A u \in Tasks : owner'[u] = IF u = t THEN None ELSE owner[u]
         /\ \A u \in Tasks : home'[u] = IF u = t THEN None ELSE home[u]
         /\ \A u \in Tasks : canceled'[u] = IF u = t THEN FALSE ELSE canceled[u]
         /\ \A u \in Tasks : held'[u] = IF u = t THEN FALSE ELSE held[u]
<1>1. tasks' \in Seq(Tasks) /\ IsInjective(tasks') /\ ToSet(tasks') = ToSet(tasks) \ {t}
  BY Forgotten DEF TypeOK, TrackInv, TaskClose
<1>2. /\ status' \in [Tasks -> {"unborn", "live", "finished", "freed"}]
      /\ owner' \in [Tasks -> Contexts \union {None}]
      /\ home' \in [Tasks -> Sets \union {None}]
  BY DEF TypeOK, TaskClose
<1>3. canceled' \in [Tasks -> BOOLEAN] /\ held' \in [Tasks -> BOOLEAN]
  BY DEF TypeOK, TaskClose
<1> QED
  BY <1>1, <1>2, <1>3 DEF TypeOK, TaskClose

\* A set that loses a worker.
LEMMA Departed ==
  ASSUME TypeOK, TrackInv, NEW t, NEW s \in Sets,
         members' = [members EXCEPT ![s] = Forget(@, t)]
  PROVE  /\ members' \in [Sets -> Seq(Tasks)]
         /\ \A r \in Sets : IsInjective(members'[r])
         /\ ToSet(members'[s]) = ToSet(members[s]) \ {t}
         /\ \A r \in Sets : r # s => members'[r] = members[r]
<1>1. members[s] \in Seq(Tasks) /\ IsInjective(members[s])
  BY DEF TypeOK, TrackInv
<1>2. members'[s] = Forget(members[s], t) /\ \A r \in Sets : r # s => members'[r] = members[r]
  BY DEF TypeOK
<1>3. members'[s] \in Seq(Tasks) /\ IsInjective(members'[s])
      /\ ToSet(members'[s]) = ToSet(members[s]) \ {t}
  BY <1>1, <1>2, Forgotten
<1> QED
  BY <1>2, <1>3 DEF TypeOK, TrackInv

\* What a call begins with, and what the steps of a turn write in it.
LEMMA OpTypes ==
  /\ NoOp \in Op
  /\ \A kind \in {"none", "await", "cancel", "deinit", "wait", "close"},
        t \in Tasks \union {None}, s \in Sets \union {None}, seen \in Nat :
       [NoOp EXCEPT !.kind = kind, !.task = t, !.set = s, !.seen = seen] \in Op
  /\ \A s \in Sets : [NoOp EXCEPT !.kind = "close", !.set = s] \in Op
  /\ \A o \in Op : \A t \in Tasks : [o EXCEPT !.task = t] \in Op
  /\ \A o \in Op : \A phase \in Phases : [o EXCEPT !.phase = phase] \in Op
<1>1. NoOp \in Op
  BY DEF Op, NoOp, Phases
<1>2. ASSUME NEW o \in Op,
             NEW kind \in {"none", "await", "cancel", "deinit", "wait", "close"},
             NEW t \in Tasks \union {None}, NEW s \in Sets \union {None}, NEW seen \in Nat
      PROVE  [o EXCEPT !.kind = kind, !.task = t, !.set = s, !.seen = seen] \in Op
  BY DEF Op
<1>3. ASSUME NEW o \in Op, NEW s \in Sets PROVE [o EXCEPT !.kind = "close", !.set = s] \in Op
  BY DEF Op
<1>4. ASSUME NEW o \in Op, NEW t \in Tasks PROVE [o EXCEPT !.task = t] \in Op
  BY DEF Op
<1>5. ASSUME NEW o \in Op, NEW phase \in Phases PROVE [o EXCEPT !.phase = phase] \in Op
  BY DEF Op
<1> QED
  BY <1>1, <1>2, <1>3, <1>4, <1>5

\* The records of a call in progress.
LEMMA OpFields ==
  ASSUME NEW o \in Op, NEW phase \in Phases, NEW n \in Nat \ {0},
         NEW b \in BOOLEAN, NEW d \in BOOLEAN
  PROVE  /\ [o EXCEPT !.i = n, !.any = b] \in Op
         /\ [o EXCEPT !.phase = phase, !.i = n] \in Op
         /\ [o EXCEPT !.phase = phase, !.more = d] \in Op
         /\ [o EXCEPT !.phase = phase, !.i = n, !.any = b, !.more = d] \in Op
<1>1. [o EXCEPT !.i = n, !.any = b] \in Op
  BY DEF Op
<1>2. [o EXCEPT !.phase = phase, !.i = n] \in Op
  BY DEF Op
<1>3. [o EXCEPT !.phase = phase, !.more = d] \in Op
  BY DEF Op
<1>4. [o EXCEPT !.phase = phase, !.i = n, !.any = b, !.more = d] \in Op
  BY DEF Op
<1> QED
  BY <1>1, <1>2, <1>3, <1>4

\* A step of a turn goes on with the same call, and leaves the others' alone.
SameCall(c) ==
  /\ op' \in [Contexts -> Op]
  /\ \A d \in Contexts : d # c => op'[d] = op[d]
  /\ op'[c].kind = op[c].kind /\ op'[c].task = op[c].task
  /\ op'[c].set = op[c].set /\ op'[c].seen = op[c].seen

\* A call in progress changes for one context only.
LEMMA Wrote ==
  ASSUME TypeOK, NEW c \in Contexts, NEW o \in Op, op' = [op EXCEPT ![c] = o],
         o.kind = op[c].kind, o.task = op[c].task, o.set = op[c].set, o.seen = op[c].seen
  PROVE  SameCall(c) /\ op'[c] = o
  BY DEF TypeOK, SameCall

\* What each step of a turn writes in the record of its call.
LEMMA TurnMoves ==
  ASSUME LoopInv, NEW c \in Contexts
  PROVE  /\ op' = [op EXCEPT ![c].phase = "run"] =>
              /\ SameCall(c) /\ op'[c].phase = "run"
              /\ op'[c].i = op[c].i /\ op'[c].any = op[c].any /\ op'[c].more = op[c].more
         /\ RunTask(c) =>
              /\ SameCall(c) /\ op'[c].phase = "run" /\ op'[c].any = TRUE
         /\ EndRun(c) =>
              /\ SameCall(c) /\ op'[c].phase = IF op[c].any THEN "reap" ELSE "poll"
              /\ op'[c].i = 1 /\ op'[c].any = op[c].any /\ op'[c].more = op[c].more
         /\ \A b \in BOOLEAN : op' = [op EXCEPT ![c].phase = "wake", ![c].more = b] =>
              /\ SameCall(c) /\ op'[c].phase = "wake" /\ op'[c].more = b
              /\ op'[c].i = op[c].i /\ op'[c].any = op[c].any
         /\ Wake(c) =>
              /\ SameCall(c) /\ op'[c].phase = "wake" /\ op'[c].any = TRUE
         /\ EndWake(c) =>
              /\ SameCall(c) /\ op'[c].phase = "reap" /\ op'[c].i = 1
              /\ op'[c].any = op[c].any /\ op'[c].more = op[c].more
         /\ \A n \in Nat \ {0} : op' = [op EXCEPT ![c].i = n] =>
              /\ SameCall(c) /\ op'[c].phase = op[c].phase /\ op'[c].i = n
              /\ op'[c].any = op[c].any /\ op'[c].more = op[c].more
         /\ op' = [op EXCEPT ![c].phase = "check", ![c].i = 1, ![c].any = FALSE,
                             ![c].more = FALSE] =>
              /\ SameCall(c) /\ op'[c].phase = "check" /\ op'[c].i = 1
              /\ op'[c].any = FALSE /\ op'[c].more = FALSE
<1>0. TypeOK /\ op \in [Contexts -> Op] /\ op[c] \in Op
  BY DEF LoopInv, TypeOK
<1>P. {"check", "run", "poll", "wake", "reap"} \subseteq Phases /\ 1 \in Nat \ {0}
  BY DEF Phases
<1>1. ASSUME op' = [op EXCEPT ![c].phase = "run"]
      PROVE  /\ SameCall(c) /\ op'[c].phase = "run"
             /\ op'[c].i = op[c].i /\ op'[c].any = op[c].any /\ op'[c].more = op[c].more
  <2> DEFINE o == [op[c] EXCEPT !.phase = "run"]
  <2>1. o \in Op
    BY <1>0, <1>P, OpTypes
  <2>2. /\ o.kind = op[c].kind /\ o.task = op[c].task /\ o.set = op[c].set
        /\ o.seen = op[c].seen /\ o.phase = "run" /\ o.i = op[c].i
        /\ o.any = op[c].any /\ o.more = op[c].more
    BY <1>0 DEF Op
  <2>3. op' = [op EXCEPT ![c] = o]
    BY <1>1
  <2> HIDE DEF o
  <2> QED
    BY <1>0, <2>1, <2>2, <2>3, Wrote
<1>2. ASSUME NEW n \in Nat \ {0}, op' = [op EXCEPT ![c].i = n, ![c].any = TRUE]
      PROVE  /\ SameCall(c) /\ op'[c].phase = op[c].phase /\ op'[c].i = n /\ op'[c].any = TRUE
             /\ op'[c].more = op[c].more
  <2> DEFINE o == [op[c] EXCEPT !.i = n, !.any = TRUE]
  <2>1. o \in Op
    BY <1>0 DEF Op
  <2>2. /\ o.kind = op[c].kind /\ o.task = op[c].task /\ o.set = op[c].set
        /\ o.seen = op[c].seen /\ o.phase = op[c].phase /\ o.i = n
        /\ o.any = TRUE /\ o.more = op[c].more
    BY <1>0 DEF Op
  <2>3. op' = [op EXCEPT ![c] = o]
    BY <1>2
  <2> HIDE DEF o
  <2> QED
    BY <1>0, <2>1, <2>2, <2>3, Wrote
<1>3. ASSUME RunTask(c)
      PROVE  SameCall(c) /\ op'[c].phase = "run" /\ op'[c].any = TRUE
  <2>1. Min(ToRun(c)) + 1 \in Nat \ {0}
    BY <1>3, Picked DEF RunTask, In, Turns
  <2>2. op[c].phase = "run" /\ op' = [op EXCEPT ![c].i = Min(ToRun(c)) + 1, ![c].any = TRUE]
    BY <1>3 DEF RunTask, In
  <2> QED
    BY <1>2, <2>1, <2>2
<1>4. ASSUME NEW phase \in Phases, op' = [op EXCEPT ![c].phase = phase, ![c].i = 1]
      PROVE  /\ SameCall(c) /\ op'[c].phase = phase /\ op'[c].i = 1
             /\ op'[c].any = op[c].any /\ op'[c].more = op[c].more
  <2> DEFINE o == [op[c] EXCEPT !.phase = phase, !.i = 1]
  <2>1. o \in Op
    BY <1>0, <1>P, OpFields
  <2>2. /\ o.kind = op[c].kind /\ o.task = op[c].task /\ o.set = op[c].set
        /\ o.seen = op[c].seen /\ o.phase = phase /\ o.i = 1
        /\ o.any = op[c].any /\ o.more = op[c].more
    BY <1>0 DEF Op
  <2>3. op' = [op EXCEPT ![c] = o]
    BY <1>4
  <2> HIDE DEF o
  <2> QED
    BY <1>0, <2>1, <2>2, <2>3, Wrote
<1>5. ASSUME EndRun(c)
      PROVE  /\ SameCall(c) /\ op'[c].phase = IF op[c].any THEN "reap" ELSE "poll"
             /\ op'[c].i = 1 /\ op'[c].any = op[c].any /\ op'[c].more = op[c].more
  <2> DEFINE phase == IF op[c].any THEN "reap" ELSE "poll"
  <2>1. phase \in Phases
    BY <1>P
  <2>2. op' = [op EXCEPT ![c].phase = phase, ![c].i = 1]
    BY <1>5 DEF EndRun
  <2> HIDE DEF phase
  <2>3. /\ SameCall(c) /\ op'[c].phase = phase /\ op'[c].i = 1
        /\ op'[c].any = op[c].any /\ op'[c].more = op[c].more
    BY <1>4, <2>1, <2>2
  <2> QED
    BY <2>3 DEF phase
<1>6. ASSUME NEW b \in BOOLEAN, op' = [op EXCEPT ![c].phase = "wake", ![c].more = b]
      PROVE  /\ SameCall(c) /\ op'[c].phase = "wake" /\ op'[c].more = b
             /\ op'[c].i = op[c].i /\ op'[c].any = op[c].any
  <2> DEFINE o == [op[c] EXCEPT !.phase = "wake", !.more = b]
  <2>1. o \in Op
    BY <1>0, <1>P, OpFields
  <2>2. /\ o.kind = op[c].kind /\ o.task = op[c].task /\ o.set = op[c].set
        /\ o.seen = op[c].seen /\ o.phase = "wake" /\ o.i = op[c].i
        /\ o.any = op[c].any /\ o.more = b
    BY <1>0 DEF Op
  <2>3. op' = [op EXCEPT ![c] = o]
    BY <1>6
  <2> HIDE DEF o
  <2> QED
    BY <1>0, <2>1, <2>2, <2>3, Wrote
<1>7. ASSUME Wake(c) PROVE SameCall(c) /\ op'[c].phase = "wake" /\ op'[c].any = TRUE
  <2>1. Min(ToWake(c)) + 1 \in Nat \ {0}
    BY <1>7, Picked DEF Wake, In, Turns
  <2>2. op[c].phase = "wake" /\ op' = [op EXCEPT ![c].i = Min(ToWake(c)) + 1, ![c].any = TRUE]
    BY <1>7 DEF Wake, In
  <2> QED
    BY <1>2, <2>1, <2>2
<1>8. ASSUME EndWake(c)
      PROVE  /\ SameCall(c) /\ op'[c].phase = "reap" /\ op'[c].i = 1
             /\ op'[c].any = op[c].any /\ op'[c].more = op[c].more
  <2>1. op' = [op EXCEPT ![c].phase = "reap", ![c].i = 1] /\ "reap" \in Phases
    BY <1>8, <1>P DEF EndWake
  <2> QED
    BY <1>4, <2>1
<1>9. ASSUME NEW n \in Nat \ {0}, op' = [op EXCEPT ![c].i = n]
      PROVE  /\ SameCall(c) /\ op'[c].phase = op[c].phase /\ op'[c].i = n
             /\ op'[c].any = op[c].any /\ op'[c].more = op[c].more
  <2> DEFINE o == [op[c] EXCEPT !.i = n]
  <2>1. o \in Op
    BY <1>0 DEF Op
  <2>2. /\ o.kind = op[c].kind /\ o.task = op[c].task /\ o.set = op[c].set
        /\ o.seen = op[c].seen /\ o.phase = op[c].phase /\ o.i = n
        /\ o.any = op[c].any /\ o.more = op[c].more
    BY <1>0 DEF Op
  <2>3. op' = [op EXCEPT ![c] = o]
    BY <1>9
  <2> HIDE DEF o
  <2> QED
    BY <1>0, <2>1, <2>2, <2>3, Wrote
<1>10. ASSUME op' = [op EXCEPT ![c].phase = "check", ![c].i = 1, ![c].any = FALSE,
                               ![c].more = FALSE]
       PROVE  /\ SameCall(c) /\ op'[c].phase = "check" /\ op'[c].i = 1
              /\ op'[c].any = FALSE /\ op'[c].more = FALSE
  <2> DEFINE o == [op[c] EXCEPT !.phase = "check", !.i = 1, !.any = FALSE, !.more = FALSE]
  <2>1. o \in Op
    BY <1>0, <1>P, OpFields
  <2>2. /\ o.kind = op[c].kind /\ o.task = op[c].task /\ o.set = op[c].set
        /\ o.seen = op[c].seen /\ o.phase = "check" /\ o.i = 1
        /\ o.any = FALSE /\ o.more = FALSE
    BY <1>0 DEF Op
  <2>3. op' = [op EXCEPT ![c] = o]
    BY <1>10
  <2> HIDE DEF o
  <2> QED
    BY <1>0, <2>1, <2>2, <2>3, Wrote
<1> QED
  BY <1>1, <1>3, <1>5, <1>6, <1>7, <1>8, <1>9, <1>10

\* task_set_close takes up its next worker.
LEMMA TookUp ==
  ASSUME LoopInv, NEW c \in Contexts, NEW t \in Tasks, op' = [op EXCEPT ![c].task = t]
  PROVE  /\ \A d \in Contexts : d # c => op'[d] = op[d]
         /\ op'[c].kind = op[c].kind /\ op'[c].task = t /\ op'[c].set = op[c].set
         /\ op'[c].phase = op[c].phase /\ op'[c].i = op[c].i
         /\ op'[c].any = op[c].any /\ op'[c].more = op[c].more
<1> DEFINE o == [op[c] EXCEPT !.task = t]
<1>0. op \in [Contexts -> Op] /\ op[c] \in Op
  BY DEF LoopInv, TypeOK
<1>1. /\ o.kind = op[c].kind /\ o.task = t /\ o.set = op[c].set /\ o.phase = op[c].phase
      /\ o.i = op[c].i /\ o.any = op[c].any /\ o.more = op[c].more
  BY <1>0 DEF Op
<1>2. op' = [op EXCEPT ![c] = o]
  OBVIOUS
<1> HIDE DEF o
<1> QED
  BY <1>0, <1>1, <1>2

\* A park, and what settling it changes.
LEMMA ParkTypes ==
  /\ NoPark \in Park
  /\ \A p \in Park : \A o \in Outcomes : Settle(p, o) \in Park
  /\ \A p \in Park : \A o \in Outcomes :
       /\ Settle(p, o).coro = p.coro /\ Settle(p, o).live = p.live
       /\ p.live => Settle(p, o).done
       /\ p.done => Settle(p, o) = p
       /\ Settle(p, o).done /\ ~p.done => Settle(p, o).outcome = o
<1>1. NoPark \in Park
  BY DEF Park, NoPark, Outcomes
<1>2. ASSUME NEW p \in Park, NEW o \in Outcomes
      PROVE  /\ Settle(p, o) \in Park
             /\ Settle(p, o).coro = p.coro /\ Settle(p, o).live = p.live
             /\ p.live => Settle(p, o).done
             /\ p.done => Settle(p, o) = p
             /\ Settle(p, o).done /\ ~p.done => Settle(p, o).outcome = o
  <2>1. CASE p.live /\ ~p.done
    BY <2>1 DEF Park, Settle
  <2>2. CASE ~(p.live /\ ~p.done)
    BY <2>2 DEF Park, Settle
  <2> QED
    BY <2>1, <2>2
<1> QED
  BY <1>1, <1>2

\* Canceling a worker settles its own parks only.
LEMMA Canceling ==
  ASSUME TypeOK, NEW t \in Tasks
  PROVE  /\ CanceledParks(t) \in Seq(Park)
         /\ Len(CanceledParks(t)) = Len(parks)
         /\ \A n \in 1 .. Len(parks) :
              CanceledParks(t)[n] =
                IF parks[n].coro = t THEN Settle(parks[n], "canceled") ELSE parks[n]
<1>1. parks \in Seq(Park) /\ Len(parks) \in Nat
  BY DEF TypeOK
<1>2. \A n \in 1 .. Len(parks) :
        (IF parks[n].coro = t THEN Settle(parks[n], "canceled") ELSE parks[n]) \in Park
  <2> TAKE n \in 1 .. Len(parks)
  <2>1. parks[n] \in Park /\ "canceled" \in Outcomes
    BY <1>1 DEF Outcomes
  <2> QED
    BY <2>1, ParkTypes
<1>3. CanceledParks(t) \in [1 .. Len(parks) -> Park]
  BY <1>2 DEF CanceledParks
<1> QED
  BY <1>1, <1>3 DEF CanceledParks

\* The slot of a new wait.
LEMMA Slots ==
  ASSUME TypeOK
  PROVE  Slot \in 1 .. Len(parks) + 1 /\ (Slot <= Len(parks) => ~parks[Slot].live)
<1> DEFINE free == {n \in 1 .. Len(parks) : ~parks[n].live}
<1>1. Len(parks) \in Nat /\ free \in SUBSET Nat
  BY DEF TypeOK
<1>2. CASE free = {}
  BY <1>1, <1>2 DEF Slot
<1>3. CASE free # {}
  <2>1. Min(free) \in free
    BY <1>1, <1>3, MinOf
  <2>2. Slot = Min(free)
    BY <1>3 DEF Slot
  <2> QED
    BY <1>1, <2>1, <2>2
<1> QED
  BY <1>2, <1>3

\* Every step keeps the types.
LEMMA LoopTypeStep == LoopInv /\ [Next]_vars => TypeOK'
<1> SUFFICES ASSUME LoopInv, [Next]_vars PROVE TypeOK'
  OBVIOUS
<1>0. TypeOK /\ op \in [Contexts -> Op]
  BY DEF LoopInv, TypeOK
<1> USE DEF Quiet, coros, sets
<1>1. CASE UNCHANGED vars
  BY <1>0, <1>1 DEF vars, TypeOK
<1>2. ASSUME NEW t \in Tasks, ParkIo(t) PROVE TypeOK'
  <2>1. Runs(t) /\ Return /\ t \in Contexts
    BY <1>2 DEF ParkIo, Calls, Contexts
  <2> DEFINE p == [NoPark EXCEPT !.coro = t, !.live = TRUE]
  <2>2. stack' \in Seq(Contexts)
    BY <2>1, Returned
  <2>3. p \in Park /\ parks \in Seq(Park)
    BY <1>0, ParkTypes DEF Park, NoPark, Outcomes, TypeOK
  <2>4. parks' = IF Slot > Len(parks) THEN Append(parks, p) ELSE [parks EXCEPT ![Slot] = p]
    BY <1>2 DEF ParkIo
  <2>5. parks' \in Seq(Park)
    <3> HIDE DEF p
    <3>1. CASE Slot > Len(parks)
      BY <2>3, <2>4, <3>1
    <3>2. CASE ~(Slot > Len(parks))
      <4>1. parks' = [parks EXCEPT ![Slot] = p]
        BY <2>4, <3>2
      <4>2. Slot \in 1 .. Len(parks)
        BY <1>0, <2>3, <3>2, Slots
      <4> QED
        BY <2>3, <4>1, <4>2, ExceptSeq
    <3> QED
      BY <3>1, <3>2
  <2>6. parked' \in [Tasks -> BOOLEAN]
    BY <1>0, <1>2 DEF ParkIo, TypeOK
  <2> QED
    BY <1>0, <1>2, <2>2, <2>5, <2>6 DEF ParkIo, TypeOK
<1>3. ASSUME NEW t \in Tasks, Suspend(t) PROVE TypeOK'
  <2>1. stack' \in Seq(Contexts)
    BY <1>3, Returned DEF Suspend, Calls
  <2> QED
    BY <1>0, <1>3, <2>1 DEF Suspend, TypeOK
<1>4. ASSUME NEW t \in Tasks, Finish(t) PROVE TypeOK'
  <2>1. stack' \in Seq(Contexts)
    BY <1>4, Returned DEF Finish, Calls
  <2>2. status' \in [Tasks -> {"unborn", "live", "finished", "freed"}]
    BY <1>0, <1>4 DEF Finish, TypeOK
  <2> QED
    BY <1>0, <1>4, <2>1, <2>2 DEF Finish, TypeOK
<1>5. ASSUME NEW c \in Contexts, Async(c) PROVE TypeOK'
  BY <1>0, <1>5 DEF Async, TypeOK
<1>6. ASSUME NEW c \in Contexts, TaskSetNew(c) PROVE TypeOK'
  BY <1>0, <1>6 DEF TaskSetNew, TypeOK
<1>7. ASSUME NEW c \in Contexts, Spawn(c) PROVE TypeOK'
  BY <1>0, <1>7 DEF Spawn, Kept, TypeOK
<1>8. ASSUME NEW c \in Contexts, Await(c) PROVE TypeOK'
  <2>1. PICK t \in Tasks : Begin(c, "await", t, None, 0)
    BY <1>8 DEF Await, Futures
  <2>2. op' \in [Contexts -> Op]
    BY <1>0, <2>1, OpTypes DEF Begin, TypeOK
  <2> QED
    BY <1>0, <1>8, <2>2 DEF Await, TypeOK
<1>9. ASSUME NEW c \in Contexts, Cancel(c) PROVE TypeOK'
  <2>1. PICK t \in Tasks, kind \in {"cancel", "deinit"} :
          /\ canceled' = [canceled EXCEPT ![t] = TRUE]
          /\ parks' = CanceledParks(t)
          /\ Begin(c, kind, t, None, 0)
    BY <1>9 DEF Cancel, Futures
  <2>2. op' \in [Contexts -> Op]
    BY <1>0, <2>1, OpTypes DEF Begin, TypeOK
  <2>3. parks' \in Seq(Park) /\ canceled' \in [Tasks -> BOOLEAN]
    BY <1>0, <2>1, Canceling DEF TypeOK
  <2> QED
    BY <1>0, <1>9, <2>2, <2>3 DEF Cancel, TypeOK
<1>10. ASSUME NEW c \in Contexts, Deinit(c) PROVE TypeOK'
  <2>1. PICK t \in Tasks : TaskClose(t)
    BY <1>10 DEF Deinit, Futures
  <2>2. TrackInv
    BY <1>10, Acting DEF Deinit, Calls, Agree
  <2> QED
    BY <1>0, <1>10, <2>1, <2>2, Freed DEF Deinit, TypeOK
<1>11. ASSUME NEW c \in Contexts, WaitOne(c) PROVE TypeOK'
  <2>1. PICK s \in Sets : Begin(c, "wait", None, s, departed[s])
    BY <1>11 DEF WaitOne, Kept
  <2>2. departed[s] \in Nat
    BY <1>0 DEF TypeOK
  <2>3. op' \in [Contexts -> Op]
    BY <1>0, <2>1, <2>2, OpTypes DEF Begin, TypeOK
  <2> QED
    BY <1>0, <1>11, <2>3 DEF WaitOne, TypeOK
<1>12. ASSUME NEW c \in Contexts, TaskSetClose(c) PROVE TypeOK'
  <2>1. PICK s \in Sets : Begin(c, "close", None, s, 0)
    BY <1>12 DEF TaskSetClose, Kept
  <2>2. op' \in [Contexts -> Op]
    BY <1>0, <2>1, OpTypes DEF Begin, TypeOK
  <2> QED
    BY <1>0, <1>12, <2>2 DEF TaskSetClose, TypeOK
<1>13. ASSUME NEW c \in Contexts, NextMember(c) PROVE TypeOK'
  <2> DEFINE s == op[c].set
             t == Last(members[s])
  <2>1. CallInv
    BY <1>13, Acting DEF NextMember, Turns, Agree
  <2>2. s \in Sets
    BY <1>13, <2>1 DEF NextMember, CallInv, CallOf
  <2>3. CASE members[s] # <<>>
    <3>1. t \in Tasks
      BY <1>0, <2>2, <2>3, LastOf DEF TypeOK
    <3>2. /\ held' = Hold(t)
          /\ canceled' = [canceled EXCEPT ![t] = @ \/ status[t] = "live"]
          /\ parks' = IF status[t] = "live" THEN CanceledParks(t) ELSE parks
          /\ op' = [op EXCEPT ![c] = [op[c] EXCEPT !.task = t]]
          /\ UNCHANGED keeper
      BY <1>0, <1>13, <2>3 DEF NextMember, TypeOK
    <3>3. op' \in [Contexts -> Op]
      BY <1>0, <3>1, <3>2, OpTypes DEF TypeOK
    <3>4. parks' \in Seq(Park)
      BY <1>0, <3>1, <3>2, Canceling DEF TypeOK
    <3>5. held' \in [Tasks -> BOOLEAN]
      BY <1>0, <3>2 DEF Hold, TypeOK
    <3>6. (canceled[t] \/ status[t] = "live") \in BOOLEAN
      OBVIOUS
    <3>7. canceled' \in [Tasks -> BOOLEAN]
      BY <1>0, <3>2, <3>6 DEF TypeOK
    <3> QED
      BY <1>0, <1>13, <3>2, <3>3, <3>4, <3>5, <3>7 DEF NextMember, TypeOK
  <2>4. CASE members[s] = <<>>
    <3>1. /\ keeper' = [keeper EXCEPT ![s] = None]
          /\ op' = [op EXCEPT ![c] = NoOp]
          /\ UNCHANGED <<held, canceled, parks>>
      BY <1>13, <2>4 DEF NextMember
    <3>2. op' \in [Contexts -> Op]
      BY <1>0, <3>1, OpTypes DEF TypeOK
    <3>3. keeper' \in [Sets -> Contexts \union {None}]
      BY <1>0, <3>1 DEF TypeOK
    <3> QED
      BY <1>0, <1>13, <3>1, <3>2, <3>3 DEF NextMember, TypeOK
  <2> QED
    BY <2>3, <2>4
<1>14. CASE LoopClose
  BY <1>0, <1>14 DEF LoopClose, TypeOK
<1>15. ASSUME NEW c \in Contexts, Turns(c), op[c].kind = "close" => op[c].task # None, Leave(c),
              UNCHANGED <<parked, parks, stack, closed>>, Quiet
       PROVE  TypeOK'
  <2>1. TrackInv
    BY <1>15, Acting DEF Turns, Agree
  <2>2. CASE op' = [op EXCEPT ![c] = NoOp] /\ UNCHANGED <<coros, tasks, sets>>
    <3>1. op' \in [Contexts -> Op]
      BY <1>0, <2>2, OpTypes DEF TypeOK
    <3> QED
      BY <1>0, <1>15, <2>2, <3>1 DEF TypeOK
  <2>3. ASSUME NEW t \in Tasks, TaskClose(t), op' = [op EXCEPT ![c] = NoOp], UNCHANGED sets
        PROVE  TypeOK'
    <3>1. op' \in [Contexts -> Op]
      BY <1>0, <2>3, OpTypes DEF TypeOK
    <3> QED
      BY <1>0, <1>15, <2>1, <2>3, <3>1, Freed DEF TypeOK
  <2>4. ASSUME NEW t \in Tasks, NEW s \in Sets, TaskClose(t),
               members' = [members EXCEPT ![s] = Forget(@, t)],
               departed' = [departed EXCEPT ![s] = @ + 1],
               op' = [op EXCEPT ![c] = [NoOp EXCEPT !.kind = "close", !.set = s]],
               UNCHANGED keeper
        PROVE  TypeOK'
    <3>1. op' \in [Contexts -> Op]
      BY <1>0, <2>4, OpTypes DEF TypeOK
    <3>2. members' \in [Sets -> Seq(Tasks)]
      BY <1>0, <2>1, <2>4, Departed
    <3>3. departed' \in [Sets -> Nat]
      BY <1>0, <2>4 DEF TypeOK
    <3> QED
      BY <1>0, <1>15, <2>1, <2>4, <3>1, <3>2, <3>3, Freed DEF TypeOK
  <2>5. Left(c)
    BY <1>15, Leaves
  <2> QED
    BY <2>2, <2>3, <2>4, <2>5 DEF Left
<1>16. ASSUME NEW c \in Contexts, Check(c) PROVE TypeOK'
  <2>1. CASE Leave(c)
    BY <1>15, <1>16, <2>1 DEF Check, In
  <2>2. CASE op' = [op EXCEPT ![c].phase = "run"] /\ UNCHANGED <<coros, tasks, sets>>
    <3>1. op' \in [Contexts -> Op]
      BY <1>0, <2>2, OpTypes DEF TypeOK, Phases
    <3> QED
      BY <1>0, <1>16, <2>2, <3>1 DEF Check, TypeOK
  <2> QED
    BY <1>16, <2>1, <2>2 DEF Check
<1>17. ASSUME NEW c \in Contexts, RunTask(c) PROVE TypeOK'
  <2>1. stack' \in Seq(Contexts)
    BY <1>17, RunsTask, Resumed DEF RunTask, In, Turns, Runs
  <2>2. op' \in [Contexts -> Op]
    BY <1>17, TurnMoves DEF SameCall
  <2> QED
    BY <1>0, <1>17, <2>1, <2>2 DEF RunTask, TypeOK
<1>18. ASSUME NEW c \in Contexts, EndRun(c) PROVE TypeOK'
  <2>1. op' \in [Contexts -> Op]
    BY <1>18, TurnMoves DEF SameCall
  <2> QED
    BY <1>0, <1>18, <2>1 DEF EndRun, TypeOK
<1>19. ASSUME NEW c \in Contexts, Poll(c) PROVE TypeOK'
  <2>1. PICK early \in SUBSET Waiting, found \in SUBSET Waiting :
          /\ parks' = [n \in 1 .. Len(parks) |->
                         IF n \in early \union found THEN Settle(parks[n], "io") ELSE parks[n]]
          /\ op' = [op EXCEPT ![c].phase = "wake", ![c].more = (Waiting # early)]
    BY <1>19 DEF Poll
  <2>2. parks \in Seq(Park) /\ Len(parks) \in Nat
    BY <1>0 DEF TypeOK
  <2>3. \A n \in 1 .. Len(parks) :
          (IF n \in early \union found THEN Settle(parks[n], "io") ELSE parks[n]) \in Park
    <3> TAKE n \in 1 .. Len(parks)
    <3>1. parks[n] \in Park /\ "io" \in Outcomes
      BY <2>2 DEF Outcomes
    <3> QED
      BY <3>1, ParkTypes
  <2>4. parks' \in [1 .. Len(parks) -> Park]
    BY <2>1, <2>3
  <2>5. parks' \in Seq(Park)
    BY <2>2, <2>4
  <2>6. (Waiting # early) \in BOOLEAN
    OBVIOUS
  <2>7. op' \in [Contexts -> Op]
    BY <2>1, <2>6, TurnMoves DEF SameCall
  <2> QED
    BY <1>0, <1>19, <2>5, <2>7 DEF Poll, TypeOK
<1>20. ASSUME NEW c \in Contexts, Wake(c) PROVE TypeOK'
  <2>1. stack' \in Seq(Contexts)
    BY <1>20, Wakes, Resumed DEF Wake, In, Turns, Runs
  <2>2. Min(ToWake(c)) \in 1 .. Len(parks)
    BY <1>20, Picked DEF Wake, In, Turns
  <2> DEFINE n == Min(ToWake(c))
             t == parks[n].coro
  <2>3. /\ parks' = [parks EXCEPT ![n] = NoPark]
        /\ parked' = [parked EXCEPT ![t] = FALSE]
        /\ answer' = Answer(parks[n])
        /\ op' = [op EXCEPT ![c].i = n + 1, ![c].any = TRUE]
        /\ UNCHANGED <<coros, tasks, sets, closed>>
    BY <1>20 DEF Wake
  <2>4. parks' \in Seq(Park)
    BY <1>0, <2>2, <2>3, ParkTypes DEF TypeOK
  <2>5. parked' \in [Tasks -> BOOLEAN]
    BY <1>0, <2>3 DEF TypeOK
  <2>6. answer' \in Outcomes
    <3>1. parks[n] \in Park
      BY <1>0, <2>2 DEF TypeOK
    <3> QED
      BY <2>3, <3>1 DEF Answer, Park, Outcomes
  <2>7. op' \in [Contexts -> Op]
    BY <1>20, TurnMoves DEF SameCall
  <2> QED
    BY <1>0, <2>1, <2>3, <2>4, <2>5, <2>6, <2>7 DEF TypeOK
<1>21. ASSUME NEW c \in Contexts, EndWake(c) PROVE TypeOK'
  <2>1. op' \in [Contexts -> Op]
    BY <1>21, TurnMoves DEF SameCall
  <2> QED
    BY <1>0, <1>21, <2>1 DEF EndWake, TypeOK
<1>22. ASSUME NEW c \in Contexts, Reap(c) PROVE TypeOK'
  <2>1. PICK t \in Tasks, s \in Sets, n \in 1 .. Len(tasks) :
          /\ n = Min(ToReap(c)) /\ t = tasks[n] /\ s = home[t]
          /\ TaskClose(t)
    BY <1>22, Reaps
  <2>2. /\ members' = [members EXCEPT ![s] = Forget(@, t)]
        /\ departed' = [departed EXCEPT ![s] = @ + 1]
        /\ op' = [op EXCEPT ![c].i = n]
        /\ UNCHANGED <<parked, parks, keeper, stack, closed>>
    BY <1>22, <2>1 DEF Reap
  <2>3. TrackInv
    BY <1>22, Acting DEF Reap, In, Turns, Agree
  <2>4. n \in Nat \ {0}
    OBVIOUS
  <2>5. op' \in [Contexts -> Op]
    BY <2>2, <2>4, TurnMoves DEF SameCall
  <2>6. members' \in [Sets -> Seq(Tasks)]
    BY <1>0, <2>2, <2>3, Departed
  <2>7. departed' \in [Sets -> Nat]
    BY <1>0, <2>2 DEF TypeOK
  <2>8. answer' = "none"
    BY <1>22 DEF Reap
  <2> QED
    BY <1>0, <2>1, <2>2, <2>3, <2>5, <2>6, <2>7, <2>8, Freed DEF TypeOK
<1>23. ASSUME NEW c \in Contexts, EndTurn(c) PROVE TypeOK'
  <2>1. CASE Leave(c)
    BY <1>15, <1>23, <2>1 DEF EndTurn, In
  <2>2. CASE /\ op' = [op EXCEPT ![c].phase = "check", ![c].i = 1, ![c].any = FALSE,
                                 ![c].more = FALSE]
             /\ UNCHANGED <<coros, tasks, sets>>
    <3>1. op' \in [Contexts -> Op]
      BY <2>2, TurnMoves DEF SameCall
    <3> QED
      BY <1>0, <1>23, <2>2, <3>1 DEF EndTurn, TypeOK
  <2> QED
    BY <1>23, <2>1, <2>2 DEF EndTurn
<1> QED
  BY <1>1, <1>2, <1>3, <1>4, <1>5, <1>6, <1>7, <1>8, <1>9, <1>10, <1>11, <1>12, <1>13, <1>14,
     <1>16, <1>17, <1>18, <1>19, <1>20, <1>21, <1>22, <1>23
  DEF Next, Own, Turn

-----------------------------------------------------------------------------
(* Cancels arrive                                                          *)

\* Steps that leave the parks alone keep what is said of canceled workers.
LEMMA ParksKept ==
  ASSUME LoopInv, Intact, parks' = parks, \A t \in Tasks : canceled'[t] => canceled[t]
  PROVE  CancelArrives' /\ SettledInv'
<1>1. CancelArrives /\ SettledInv /\ ParkInv
  BY DEF LoopInv
<1>2. CancelArrives'
  BY <1>1 DEF CancelArrives, ParkInv
<1>3. SettledInv'
  BY <1>1 DEF SettledInv
<1> QED
  BY <1>2, <1>3

\* A worker that is canceled has its waits settled in the same step.
LEMMA CanceledNow ==
  ASSUME LoopInv, Intact, NEW t \in Tasks, parks' = CanceledParks(t),
         \A u \in Tasks : u # t => canceled'[u] = canceled[u]
  PROVE  CancelArrives' /\ SettledInv'
<1>1. TypeOK /\ CancelArrives /\ SettledInv /\ ParkInv
  BY DEF LoopInv
<1>2. Len(parks') = Len(parks) /\ Len(parks) \in Nat
      /\ \A n \in 1 .. Len(parks) : parks'[n] =
            IF parks[n].coro = t THEN Settle(parks[n], "canceled") ELSE parks[n]
  BY <1>1, Canceling DEF TypeOK
<1>3. ASSUME NEW n \in 1 .. Len(parks)
      PROVE  /\ parks'[n].live /\ canceled'[parks'[n].coro] => parks'[n].done
             /\ parks'[n].done => parks'[n].outcome # "retry"
  <2>1. parks[n] \in Park /\ "canceled" \in Outcomes
    BY <1>1 DEF TypeOK, Outcomes
  <2>2. CASE parks[n].coro = t
    <3>1. parks'[n] = Settle(parks[n], "canceled")
      BY <1>2, <2>2
    <3>2. /\ Settle(parks[n], "canceled").live = parks[n].live
          /\ parks[n].live => Settle(parks[n], "canceled").done
          /\ parks[n].done => Settle(parks[n], "canceled") = parks[n]
          /\ Settle(parks[n], "canceled").done /\ ~parks[n].done =>
               Settle(parks[n], "canceled").outcome = "canceled"
      BY <2>1, ParkTypes
    <3>3. parks[n].done => parks[n].outcome # "retry"
      BY <1>1 DEF SettledInv
    <3> QED
      BY <3>1, <3>2, <3>3
  <2>3. CASE parks[n].coro # t
    <3>1. parks'[n] = parks[n]
      BY <1>2, <2>3
    <3> QED
      BY <1>1, <2>3, <3>1 DEF CancelArrives, SettledInv, ParkInv
  <2> QED
    BY <2>2, <2>3
<1> QED
  BY <1>2, <1>3 DEF CancelArrives, SettledInv

\* Every step keeps a canceled worker's wait settled, and what is settled has an
\* answer.
LEMMA SettleStep == LoopInv /\ [Next]_vars => CancelArrives' /\ SettledInv'
<1> SUFFICES ASSUME LoopInv, [Next]_vars PROVE CancelArrives' /\ SettledInv'
  OBVIOUS
<1>0. TypeOK /\ CancelArrives /\ SettledInv
  BY DEF LoopInv
<1> DEFINE Goal == CancelArrives' /\ SettledInv'
<1>1. CASE UNCHANGED vars
  BY <1>0, <1>1 DEF vars, coros, CancelArrives, SettledInv
<1>2. ASSUME Intact, UNCHANGED <<parks, canceled>> PROVE Goal
  BY <1>2, ParksKept
<1>3. ASSUME NEW t \in Tasks, Intact, TaskClose(t), UNCHANGED parks PROVE Goal
  <2>1. TrackInv
    BY <1>3 DEF LoopInv
  <2>2. \A u \in Tasks : canceled'[u] => canceled[u]
    BY <1>0, <1>3, <2>1, Freed
  <2> QED
    BY <1>3, <2>2, ParksKept
<1>4. ASSUME NEW c \in Contexts, Turns(c), op[c].kind = "close" => op[c].task # None, Leave(c),
             UNCHANGED parks
      PROVE  Goal
  <2>1. Intact
    BY <1>4 DEF Turns, Runs
  <2>2. (UNCHANGED coros) \/ \E t \in Tasks : TaskClose(t)
    BY <1>4, Leaves DEF Left
  <2> QED
    BY <1>2, <1>3, <1>4, <2>1, <2>2 DEF coros
<1>5. ASSUME NEW t \in Tasks, ParkIo(t) PROVE Goal
  <2> DEFINE p == [NoPark EXCEPT !.coro = t, !.live = TRUE]
  <2>1. /\ ~canceled[t] /\ canceled' = canceled
        /\ parks' = IF Slot > Len(parks) THEN Append(parks, p) ELSE [parks EXCEPT ![Slot] = p]
    BY <1>5 DEF ParkIo, MayPark, coros
  <2>2. p.coro = t /\ p.live /\ ~p.done
    BY DEF NoPark
  <2>3. parks \in Seq(Park) /\ Len(parks) \in Nat /\ Slot \in 1 .. Len(parks) + 1
    BY <1>0, Slots DEF TypeOK
  <2> HIDE DEF p
  <2>4. \A n \in 1 .. Len(parks') : parks'[n] = p \/ (n \in 1 .. Len(parks) /\ parks'[n] = parks[n])
    <3>1. CASE Slot > Len(parks)
      BY <2>1, <2>3, <3>1
    <3>2. CASE ~(Slot > Len(parks))
      BY <2>1, <2>3, <3>2
    <3> QED
      BY <3>1, <3>2
  <2> QED
    BY <1>0, <2>1, <2>2, <2>4 DEF CancelArrives, SettledInv
<1>6. ASSUME NEW c \in Contexts, Cancel(c) PROVE Goal
  <2>1. PICK t \in Tasks :
          parks' = CanceledParks(t) /\ canceled' = [canceled EXCEPT ![t] = TRUE]
    BY <1>6 DEF Cancel, Futures
  <2>2. \A u \in Tasks : u # t => canceled'[u] = canceled[u]
    BY <1>0, <2>1 DEF TypeOK
  <2> QED
    BY <1>6, <2>1, <2>2, CanceledNow DEF Cancel, Calls, Runs
<1>7. ASSUME NEW c \in Contexts, NextMember(c) PROVE Goal
  <2>1. Intact
    BY <1>7 DEF NextMember, Turns, Runs
  <2> DEFINE t == Last(members[op[c].set])
  <2>2. CASE UNCHANGED <<canceled, parks>>
    BY <1>2, <2>1, <2>2
  <2>3. CASE /\ members[op[c].set] # <<>>
             /\ canceled' = [canceled EXCEPT ![t] = @ \/ status[t] = "live"]
             /\ parks' = IF status[t] = "live" THEN CanceledParks(t) ELSE parks
    <3>1. op[c].set \in Sets
      BY <1>7, Acting DEF NextMember, Turns, Agree, CallInv, CallOf
    <3>2. t \in Tasks
      BY <1>0, <2>3, <3>1, LastOf DEF TypeOK
    <3>3. \A u \in Tasks : u # t => canceled'[u] = canceled[u]
      BY <1>0, <2>3 DEF TypeOK
    <3>4. CASE status[t] = "live"
      BY <2>1, <2>3, <3>2, <3>3, <3>4, CanceledNow
    <3>5. CASE status[t] # "live"
      <4>1. canceled'[t] => canceled[t]
        BY <1>0, <2>3, <3>2, <3>5 DEF TypeOK
      <4> QED
        BY <2>1, <2>3, <3>3, <3>5, <4>1, ParksKept
    <3> QED
      BY <3>4, <3>5
  <2> QED
    BY <1>7, <2>2, <2>3 DEF NextMember
<1>8. ASSUME NEW c \in Contexts, Poll(c) PROVE Goal
  <2>1. PICK early \in SUBSET Waiting, found \in SUBSET Waiting :
          parks' = [n \in 1 .. Len(parks) |->
                      IF n \in early \union found THEN Settle(parks[n], "io") ELSE parks[n]]
    BY <1>8 DEF Poll
  <2>2. canceled' = canceled
    BY <1>8 DEF Poll, coros
  <2>3. parks \in Seq(Park) /\ Len(parks) \in Nat
    BY <1>0 DEF TypeOK
  <2>4. Len(parks') = Len(parks)
    BY <2>1, <2>3
  <2>5. ASSUME NEW n \in 1 .. Len(parks)
        PROVE  /\ parks'[n].live /\ canceled'[parks'[n].coro] => parks'[n].done
               /\ parks'[n].done => parks'[n].outcome # "retry"
    <3>1. parks[n] \in Park /\ "io" \in Outcomes
      BY <2>3 DEF Outcomes
    <3>2. parks'[n] = parks[n] \/ parks'[n] = Settle(parks[n], "io")
      BY <2>1
    <3>3. CASE parks'[n] = parks[n]
      BY <1>0, <2>2, <3>3 DEF CancelArrives, SettledInv
    <3>4. CASE parks'[n] = Settle(parks[n], "io")
      <4>1. /\ Settle(parks[n], "io").live = parks[n].live
            /\ parks[n].live => Settle(parks[n], "io").done
            /\ parks[n].done => Settle(parks[n], "io") = parks[n]
            /\ Settle(parks[n], "io").done /\ ~parks[n].done =>
                 Settle(parks[n], "io").outcome = "io"
        BY <3>1, ParkTypes
      <4>2. parks[n].done => parks[n].outcome # "retry"
        BY <1>0 DEF SettledInv
      <4> QED
        BY <3>4, <4>1, <4>2
    <3> QED
      BY <3>2, <3>3, <3>4
  <2> QED
    BY <2>4, <2>5 DEF CancelArrives, SettledInv
<1>9. ASSUME NEW c \in Contexts, Wake(c) PROVE Goal
  <2>1. Min(ToWake(c)) \in 1 .. Len(parks)
    BY <1>9, Picked DEF Wake, In, Turns
  <2>2. parks' = [parks EXCEPT ![Min(ToWake(c))] = NoPark] /\ canceled' = canceled
    BY <1>9 DEF Wake, coros
  <2>3. parks \in Seq(Park)
    BY <1>0 DEF TypeOK
  <2>4. Len(parks') = Len(parks)
        /\ \A n \in 1 .. Len(parks) : parks'[n] = NoPark \/ parks'[n] = parks[n]
    BY <2>1, <2>2, <2>3
  <2>5. ~NoPark.live /\ ~NoPark.done
    BY DEF NoPark
  <2> QED
    BY <1>0, <2>2, <2>4, <2>5 DEF CancelArrives, SettledInv
<1>10. ASSUME NEW c \in Contexts, Deinit(c) PROVE Goal
  <2>1. PICK t \in Tasks : TaskClose(t)
    BY <1>10 DEF Deinit, Futures
  <2> QED
    BY <1>3, <1>10, <2>1 DEF Deinit, Calls, Runs
<1>11. ASSUME NEW c \in Contexts, Reap(c) PROVE Goal
  <2>1. PICK t \in Tasks : TaskClose(t)
    BY <1>11, Reaps
  <2> QED
    BY <1>3, <1>11, <2>1 DEF Reap, In, Turns, Runs
<1>12. ASSUME NEW c \in Contexts,
              Async(c) \/ TaskSetNew(c) \/ Spawn(c) \/ Await(c) \/ WaitOne(c) \/ TaskSetClose(c)
       PROVE  Goal
  BY <1>2, <1>12
  DEF Async, TaskSetNew, Spawn, Await, WaitOne, TaskSetClose, Calls, Runs, coros
<1>13. ASSUME NEW t \in Tasks, Suspend(t) \/ Finish(t) PROVE Goal
  BY <1>2, <1>13 DEF Suspend, Finish, Calls, Runs, coros, Contexts
<1>14. ASSUME NEW c \in Contexts, RunTask(c) \/ EndRun(c) \/ EndWake(c) PROVE Goal
  BY <1>2, <1>14 DEF RunTask, EndRun, EndWake, In, Turns, Runs, coros
<1>15. CASE LoopClose
  BY <1>2, <1>15 DEF LoopClose, Calls, Runs, coros, Contexts
<1>16. ASSUME NEW c \in Contexts, Check(c) \/ EndTurn(c) PROVE Goal
  <2>1. Turns(c) /\ (op[c].kind = "close" => op[c].task # None) /\ parks' = parks
    BY <1>16 DEF Check, EndTurn, In
  <2>2. Intact
    BY <2>1 DEF Turns, Runs
  <2>3. Leave(c) \/ UNCHANGED coros
    BY <1>16 DEF Check, EndTurn
  <2> QED
    BY <1>2, <1>4, <2>1, <2>2, <2>3 DEF coros
<1> QED
  BY <1>1, <1>5, <1>6, <1>7, <1>8, <1>9, <1>10, <1>11, <1>12, <1>13, <1>14, <1>15, <1>16
  DEF Next, Own, Turn

-----------------------------------------------------------------------------
(* The stack                                                               *)

\* A step that leaves the stack alone and finishes nobody on it.
LEMMA StackKept ==
  ASSUME LoopInv, Intact, Intact', stack' = stack,
         \A t \in Tasks : status[t] = "live" => status'[t] \in {"live", "freed"}
  PROVE  StackInv'
<1>1. StackInv
  BY DEF LoopInv
<1> QED
  BY <1>1 DEF StackInv, OnStack, Intact

\* Closing a worker leaves the stack as it should be.
LEMMA ClosedKeepsStack ==
  ASSUME LoopInv, Intact, Intact', stack' = stack, NEW t \in Tasks, TaskClose(t)
  PROVE  StackInv'
<1>1. TypeOK /\ TrackInv
  BY DEF LoopInv
<1>2. \A u \in Tasks : status'[u] = IF u = t THEN "freed" ELSE status[u]
  BY <1>1, Freed
<1> QED
  BY <1>2, StackKept

\* Every step keeps the stack: main below, each worker once.
LEMMA StackStep == LoopInv /\ Intact /\ [Next]_vars /\ Intact' => StackInv'
<1> SUFFICES ASSUME LoopInv, Intact, [Next]_vars, Intact' PROVE StackInv'
  OBVIOUS
<1>0. TypeOK /\ StackInv
  BY DEF LoopInv
<1>1. ASSUME UNCHANGED <<stack, status>> PROVE StackInv'
  BY <1>1, StackKept
<1>2. ASSUME NEW t \in Tasks, Runs(t), Return, \A u \in Tasks : u # t => status'[u] = status[u]
      PROVE  StackInv'
  <2>1. /\ stack' # <<>> /\ IsInjective(stack') /\ Main \in ToSet(stack')
        /\ ToSet(stack') = ToSet(stack) \ {t}
    BY <1>2, Returned
  <2> QED
    BY <1>0, <1>2, <2>1 DEF StackInv, OnStack
<1>3. ASSUME NEW t \in Tasks, t \notin ToSet(stack), status[t] = "live", Resume(t),
             UNCHANGED status
      PROVE  StackInv'
  <2>1. /\ stack' # <<>> /\ IsInjective(stack') /\ Main \in ToSet(stack')
        /\ ToSet(stack') = ToSet(stack) \union {t}
    BY <1>3, Resumed
  <2> QED
    BY <1>0, <1>3, <2>1 DEF StackInv, OnStack
<1>4. ASSUME NEW c \in Contexts, Async(c) \/ Spawn(c) PROVE StackInv'
  <2>1. PICK t \in Tasks : status[t] = "unborn" /\ status' = [status EXCEPT ![t] = "live"]
    BY <1>4 DEF Async, Spawn
  <2>2. \A u \in Tasks : status[u] = "live" => status'[u] = "live"
    BY <1>0, <2>1 DEF TypeOK
  <2> QED
    BY <1>4, <2>2, StackKept DEF Async, Spawn
<1>5. ASSUME NEW c \in Contexts, Deinit(c) PROVE StackInv'
  <2>1. PICK t \in Tasks : TaskClose(t)
    BY <1>5 DEF Deinit, Futures
  <2> QED
    BY <1>5, <2>1, ClosedKeepsStack DEF Deinit
<1>6. ASSUME NEW c \in Contexts, Reap(c) PROVE StackInv'
  <2>1. PICK t \in Tasks : TaskClose(t)
    BY <1>6, Reaps
  <2> QED
    BY <1>6, <2>1, ClosedKeepsStack DEF Reap
<1>7. ASSUME NEW c \in Contexts, Check(c) \/ EndTurn(c) PROVE StackInv'
  <2>1. Turns(c) /\ (op[c].kind = "close" => op[c].task # None) /\ stack' = stack
    BY <1>7 DEF Check, EndTurn, In
  <2>2. Leave(c) \/ UNCHANGED coros
    BY <1>7 DEF Check, EndTurn
  <2>3. (UNCHANGED coros) \/ \E t \in Tasks : TaskClose(t)
    BY <2>1, <2>2, Leaves DEF Left
  <2> QED
    BY <1>1, <2>1, <2>3, ClosedKeepsStack DEF coros
<1>8. ASSUME NEW t \in Tasks, ParkIo(t) \/ Suspend(t) PROVE StackInv'
  BY <1>2, <1>8 DEF ParkIo, Suspend, Calls, coros
<1>9. ASSUME NEW t \in Tasks, Finish(t) PROVE StackInv'
  <2>1. \A u \in Tasks : u # t => status'[u] = status[u]
    BY <1>0, <1>9 DEF Finish, TypeOK
  <2> QED
    BY <1>2, <1>9, <2>1 DEF Finish, Calls
<1>10. ASSUME NEW c \in Contexts, RunTask(c) PROVE StackInv'
  <2>1. UNCHANGED status
    BY <1>10 DEF RunTask, coros
  <2> QED
    BY <1>3, <1>10, <2>1, RunsTask
<1>11. ASSUME NEW c \in Contexts, Wake(c) PROVE StackInv'
  <2>1. UNCHANGED status
    BY <1>11 DEF Wake, coros
  <2> QED
    BY <1>3, <1>11, <2>1, Wakes
<1>12. ASSUME NEW c \in Contexts,
              \/ TaskSetNew(c) \/ Await(c) \/ Cancel(c) \/ WaitOne(c) \/ TaskSetClose(c)
              \/ NextMember(c) \/ EndRun(c) \/ Poll(c) \/ EndWake(c)
       PROVE  StackInv'
  BY <1>1, <1>12
  DEF TaskSetNew, Await, Cancel, WaitOne, TaskSetClose, NextMember, EndRun, Poll, EndWake, coros
<1>13. CASE LoopClose
  BY <1>1, <1>13 DEF LoopClose, coros
<1>14. CASE UNCHANGED vars
  BY <1>1, <1>14 DEF vars, coros
<1> QED
  BY <1>4, <1>5, <1>6, <1>7, <1>8, <1>9, <1>10, <1>11, <1>12, <1>13, <1>14 DEF Next, Own, Turn

-----------------------------------------------------------------------------
(* The workers' tables                                                     *)

\* Whoever closes a set by way of a worker goes on with it.
ClosersKept ==
  \A d \in Contexts : op[d].kind = "close" /\ op[d].task # None =>
    op'[d].kind = "close" /\ op'[d].task = op[d].task

\* Steps that leave the workers alone keep what is said of them.
LEMMA WorkersKept ==
  ASSUME LoopInv, Intact, UNCHANGED <<owner, home, held>>, Alive' = Alive, ClosersKept
  PROVE  WorkerInv'
<1>1. WorkerInv
  BY DEF LoopInv
<1>2. ASSUME NEW t \in Tasks, held[t]
      PROVE  \E c \in Contexts : op'[c].kind = "close" /\ op'[c].task = t
  <2>1. PICK c \in Contexts : op[c].kind = "close" /\ op[c].task = t
    BY <1>1, <1>2 DEF WorkerInv
  <2>2. t # None
    BY ContextsAssumption DEF Contexts
  <2> QED
    BY <2>1, <2>2 DEF ClosersKept
<1> QED
  BY <1>1, <1>2 DEF WorkerInv

\* A step of the call of c that is not about closing a set.
LEMMA ClosersKeptBut ==
  ASSUME TypeOK, NEW c \in Contexts, op[c].kind # "close" \/ op[c].task = None,
         NEW o, op' = [op EXCEPT ![c] = o]
  PROVE  ClosersKept
  BY DEF TypeOK, ClosersKept

\* A step within one call leaves every closing call closing its worker.
LEMMA ClosersSame ==
  ASSUME NEW c \in Contexts, SameCall(c)
  PROVE  ClosersKept
  BY DEF SameCall, ClosersKept

\* Closing a worker keeps what is said of the others.
LEMMA ClosedWorkers ==
  ASSUME LoopInv, Intact, NEW t \in Tasks, TaskClose(t),
         \A d \in Contexts : op[d].kind = "close" /\ op[d].task \notin {None, t} =>
           op'[d].kind = "close" /\ op'[d].task = op[d].task
  PROVE  WorkerInv'
<1>1. TypeOK /\ TrackInv /\ WorkerInv
  BY DEF LoopInv
<1>2. /\ \A u \in Tasks : status'[u] = IF u = t THEN "freed" ELSE status[u]
      /\ \A u \in Tasks : owner'[u] = IF u = t THEN None ELSE owner[u]
      /\ \A u \in Tasks : home'[u] = IF u = t THEN None ELSE home[u]
      /\ \A u \in Tasks : held'[u] = IF u = t THEN FALSE ELSE held[u]
  BY <1>1, Freed
<1>3. Alive' = Alive \ {t}
  BY <1>2 DEF Alive
<1>4. ASSUME NEW u \in Tasks, held'[u]
      PROVE  \E c \in Contexts : op'[c].kind = "close" /\ op'[c].task = u
  <2>1. u # t /\ held[u]
    BY <1>2, <1>4
  <2>2. PICK c \in Contexts : op[c].kind = "close" /\ op[c].task = u
    BY <1>1, <2>1 DEF WorkerInv
  <2>3. u # None
    BY ContextsAssumption DEF Contexts
  <2> QED
    BY <2>1, <2>2, <2>3
<1> QED
  BY <1>1, <1>2, <1>3, <1>4 DEF WorkerInv

\* A call begins at the condition of its loop, and ends without a trace.
LEMMA Begun ==
  ASSUME LoopInv, NEW c \in Contexts,
         NEW kind \in {"none", "await", "cancel", "deinit", "wait", "close"},
         NEW t \in Tasks \union {None}, NEW s \in Sets \union {None}, NEW seen \in Nat,
         Begin(c, kind, t, s, seen)
  PROVE  /\ \A d \in Contexts : d # c => op'[d] = op[d]
         /\ op'[c].kind = kind /\ op'[c].task = t /\ op'[c].set = s
         /\ op'[c].phase = "check" /\ op'[c].i = 1 /\ ~op'[c].any /\ ~op'[c].more
<1> DEFINE o == [NoOp EXCEPT !.kind = kind, !.task = t, !.set = s, !.seen = seen]
<1>1. op \in [Contexts -> Op] /\ op' = [op EXCEPT ![c] = o]
  BY DEF LoopInv, TypeOK, Begin
<1>2. /\ o.kind = kind /\ o.task = t /\ o.set = s
      /\ o.phase = "check" /\ o.i = 1 /\ ~o.any /\ ~o.more
  BY DEF NoOp
<1> HIDE DEF o
<1> QED
  BY <1>1, <1>2

\* A call that is over is no call.
LEMMA Cleared ==
  ASSUME LoopInv, NEW c \in Contexts, op' = [op EXCEPT ![c] = NoOp]
  PROVE  (\A d \in Contexts : d # c => op'[d] = op[d]) /\ op'[c].kind = "none"
<1>1. NoOp.kind = "none"
  BY DEF NoOp
<1> QED
  BY <1>1 DEF LoopInv, TypeOK

\* A set that is being closed goes on to its next worker.
LEMMA NextToClose ==
  ASSUME LoopInv, NEW c \in Contexts, NEW s \in Sets,
         op' = [op EXCEPT ![c] = [NoOp EXCEPT !.kind = "close", !.set = s]]
  PROVE  /\ \A d \in Contexts : d # c => op'[d] = op[d]
         /\ op'[c].kind = "close" /\ op'[c].task = None /\ op'[c].set = s
         /\ op'[c].phase = "check" /\ op'[c].i = 1 /\ ~op'[c].any /\ ~op'[c].more
<1> DEFINE o == [NoOp EXCEPT !.kind = "close", !.set = s]
<1>1. op \in [Contexts -> Op] /\ op' = [op EXCEPT ![c] = o]
  BY DEF LoopInv, TypeOK
<1>2. /\ o.kind = "close" /\ o.task = None /\ o.set = s
      /\ o.phase = "check" /\ o.i = 1 /\ ~o.any /\ ~o.more
  BY DEF NoOp
<1> HIDE DEF o
<1> QED
  BY <1>1, <1>2

\* What task_set_close does next: the last member, or the end.
LEMMA ClosesNext ==
  ASSUME LoopInv, NEW c \in Contexts, NextMember(c)
  PROVE  \E s \in Sets :
           /\ s = op[c].set /\ keeper[s] = c /\ op[c].kind = "close" /\ op[c].task = None
           /\ \/ \E t \in Tasks :
                   /\ t = Last(members[s]) /\ t \in Alive /\ home[t] = s
                   /\ held' = [held EXCEPT ![t] = TRUE]
                   /\ op' = [op EXCEPT ![c].task = t]
                   /\ parks' = parks \/ parks' = CanceledParks(t)
                   /\ UNCHANGED keeper
              \/ /\ keeper' = [keeper EXCEPT ![s] = None]
                 /\ op' = [op EXCEPT ![c] = NoOp]
                 /\ UNCHANGED <<held, canceled, parks>>
<1>1. TypeOK /\ CallInv /\ TrackInv /\ op[c].kind = "close" /\ op[c].task = None
  BY Acting DEF NextMember, Turns, Agree
<1> DEFINE s == op[c].set
           t == Last(members[s])
<1>2. s \in Sets /\ keeper[s] = c
  BY <1>1 DEF CallInv, CallOf
<1>3. CASE members[s] # <<>>
  <2>1. t \in Tasks /\ t \in ToSet(members[s])
    BY <1>1, <1>2, <1>3, LastOf DEF TypeOK
  <2>2. t \in Alive /\ home[t] = s
    BY <1>1, <1>2, <2>1 DEF TrackInv
  <2>3. /\ held' = [held EXCEPT ![t] = TRUE]
        /\ op' = [op EXCEPT ![c].task = t]
        /\ parks' = parks \/ parks' = CanceledParks(t)
        /\ UNCHANGED keeper
    BY <1>3 DEF NextMember, Hold
  <2> QED
    BY <1>1, <1>2, <2>1, <2>2, <2>3
<1>4. CASE members[s] = <<>>
  <2>1. /\ keeper' = [keeper EXCEPT ![s] = None]
        /\ op' = [op EXCEPT ![c] = NoOp]
        /\ UNCHANGED <<held, canceled, parks>>
    BY <1>4 DEF NextMember
  <2> QED
    BY <1>1, <1>2, <2>1
<1> QED
  BY <1>3, <1>4

\* A worker is born without a Future, a set or a hold.
LEMMA Unborn ==
  ASSUME LoopInv, Intact, NEW t \in Tasks, status[t] = "unborn"
  PROVE  /\ owner[t] = None /\ home[t] = None /\ ~parked[t] /\ t \notin ToSet(stack)
         /\ t \notin Alive
<1>1. WorkerInv /\ ParkInv /\ StackInv
  BY DEF LoopInv
<1> QED
  BY <1>1 DEF WorkerInv, ParkInv, StackInv, OnStack, Alive

\* Every step keeps what is said of workers, owners and closing calls.
LEMMA WorkerStep == LoopInv /\ Intact /\ [Next]_vars => WorkerInv'
<1> SUFFICES ASSUME LoopInv, Intact, [Next]_vars PROVE WorkerInv'
  OBVIOUS
<1>0. TypeOK /\ WorkerInv /\ TrackInv /\ CallInv
  BY DEF LoopInv
<1>N. None \notin Tasks /\ None \notin Contexts /\ None \notin Sets
  BY ContextsAssumption DEF Contexts
<1>1. ASSUME UNCHANGED coros, ClosersKept PROVE WorkerInv'
  BY <1>1, WorkersKept DEF coros, Alive
<1>2. ASSUME UNCHANGED <<coros, op>> PROVE WorkerInv'
  BY <1>1, <1>2 DEF ClosersKept
<1>3. ASSUME NEW c \in Contexts, Async(c) PROVE WorkerInv'
  <2>1. PICK t \in Tasks :
          /\ status[t] = "unborn"
          /\ status' = [status EXCEPT ![t] = "live"]
          /\ owner' = [owner EXCEPT ![t] = c]
    BY <1>3 DEF Async
  <2>2. owner[t] = None /\ home[t] = None
    BY <2>1, Unborn
  <2>3. UNCHANGED <<home, held, op>>
    BY <1>3 DEF Async
  <2>4. Alive' = Alive \union {t} /\ \A u \in Tasks : owner'[u] = IF u = t THEN c ELSE owner[u]
    BY <1>0, <2>1 DEF Alive, TypeOK
  <2> QED
    BY <1>0, <2>2, <2>3, <2>4 DEF WorkerInv
<1>4. ASSUME NEW c \in Contexts, Spawn(c) PROVE WorkerInv'
  <2>1. PICK t \in Tasks, s \in Sets :
          /\ status[t] = "unborn"
          /\ status' = [status EXCEPT ![t] = "live"]
          /\ home' = [home EXCEPT ![t] = s]
    BY <1>4 DEF Spawn, Kept
  <2>2. owner[t] = None /\ home[t] = None
    BY <2>1, Unborn
  <2>3. UNCHANGED <<owner, held, op>>
    BY <1>4 DEF Spawn
  <2>4. Alive' = Alive \union {t} /\ \A u \in Tasks : home'[u] = IF u = t THEN s ELSE home[u]
    BY <1>0, <2>1 DEF Alive, TypeOK
  <2> QED
    BY <1>0, <2>2, <2>3, <2>4 DEF WorkerInv
<1>5. ASSUME NEW t \in Tasks, Finish(t) PROVE WorkerInv'
  <2>1. StackInv /\ t \in ToSet(stack)
    BY <1>5, Acting DEF Finish, Calls, Agree, Contexts
  <2>2. status[t] = "live"
    BY <2>1 DEF StackInv, OnStack
  <2>3. Alive' = Alive
    BY <1>0, <1>5, <2>2 DEF Finish, Alive, TypeOK
  <2> QED
    BY <1>5, <2>3, WorkersKept DEF Finish, ClosersKept
<1>6. ASSUME NEW c \in Contexts, Await(c) \/ WaitOne(c) \/ TaskSetClose(c) PROVE WorkerInv'
  <2>1. op[c].kind = "none" /\ UNCHANGED coros
    BY <1>6 DEF Await, WaitOne, TaskSetClose, Calls
  <2>2. \E o : op' = [op EXCEPT ![c] = o]
    BY <1>6 DEF Await, WaitOne, TaskSetClose, Begin
  <2> QED
    BY <1>0, <1>1, <2>1, <2>2, ClosersKeptBut
<1>7. ASSUME NEW c \in Contexts, Cancel(c) PROVE WorkerInv'
  <2>1. op[c].kind = "none" /\ UNCHANGED <<status, owner, home, held>>
    BY <1>7 DEF Cancel, Calls
  <2>2. \E o : op' = [op EXCEPT ![c] = o]
    BY <1>7 DEF Cancel, Begin
  <2>3. ClosersKept
    BY <1>0, <2>1, <2>2, ClosersKeptBut
  <2> QED
    BY <2>1, <2>3, WorkersKept DEF Alive
<1>8. ASSUME NEW c \in Contexts, Deinit(c) PROVE WorkerInv'
  <2>1. PICK t \in Tasks : TaskClose(t)
    BY <1>8 DEF Deinit, Futures
  <2>2. op' = op
    BY <1>8 DEF Deinit
  <2> QED
    BY <2>1, <2>2, ClosedWorkers
<1>9. ASSUME NEW c \in Contexts, NextMember(c) PROVE WorkerInv'
  <2>1. PICK s \in Sets :
          /\ op[c].kind = "close" /\ op[c].task = None
          /\ \/ \E t \in Tasks :
                  /\ t \in Alive
                  /\ held' = [held EXCEPT ![t] = TRUE]
                  /\ op' = [op EXCEPT ![c].task = t]
             \/ op' = [op EXCEPT ![c] = NoOp] /\ UNCHANGED held
    BY <1>9, ClosesNext
  <2>2. UNCHANGED <<status, owner, home>>
    BY <1>9 DEF NextMember
  <2>3. CASE op' = [op EXCEPT ![c] = NoOp] /\ UNCHANGED held
    BY <1>0, <2>1, <2>2, <2>3, ClosersKeptBut, WorkersKept DEF Alive
  <2>4. ASSUME NEW t \in Tasks, t \in Alive, held' = [held EXCEPT ![t] = TRUE],
               op' = [op EXCEPT ![c].task = t]
        PROVE  WorkerInv'
    <3>1. op'[c].kind = "close" /\ op'[c].task = t /\ \A d \in Contexts : d # c => op'[d] = op[d]
      BY <2>1, <2>4, TookUp
    <3>2. \A u \in Tasks : held'[u] => u = t \/ held[u]
      BY <1>0, <2>4 DEF TypeOK
    <3>3. Alive' = Alive
      BY <2>2 DEF Alive
    <3>4. ASSUME NEW u \in Tasks, held'[u]
          PROVE  \E d \in Contexts : op'[d].kind = "close" /\ op'[d].task = u
      <4>1. CASE u = t
        BY <3>1, <4>1
      <4>2. CASE u # t
        <5>1. PICK d \in Contexts : op[d].kind = "close" /\ op[d].task = u
          BY <1>0, <3>2, <3>4, <4>2 DEF WorkerInv
        <5>2. d # c
          BY <1>N, <2>1, <5>1
        <5> QED
          BY <3>1, <5>1, <5>2
      <4> QED
        BY <4>1, <4>2
    <3> QED
      BY <1>0, <2>2, <3>3, <3>4 DEF WorkerInv
  <2> QED
    BY <2>1, <2>3, <2>4
<1>10. ASSUME NEW c \in Contexts, Reap(c) PROVE WorkerInv'
  <2>1. PICK t \in Tasks, n \in 1 .. Len(tasks) : TaskClose(t) /\ n = Min(ToReap(c))
    BY <1>10, Reaps
  <2>2. n \in Nat \ {0} /\ op' = [op EXCEPT ![c].i = n]
    BY <1>10, <2>1 DEF Reap
  <2>3. SameCall(c)
    BY <2>2, TurnMoves
  <2> QED
    BY <2>1, <2>3, ClosersSame, ClosedWorkers DEF ClosersKept
<1>11. ASSUME NEW c \in Contexts, Turns(c), op[c].kind = "close" => op[c].task # None, Leave(c)
       PROVE  WorkerInv'
  <2>1. CASE /\ op[c].kind \in {"await", "cancel", "wait"}
             /\ op' = [op EXCEPT ![c] = NoOp]
             /\ UNCHANGED <<coros, tasks, sets>>
    BY <1>0, <1>1, <2>1, ClosersKeptBut
  <2>2. ASSUME NEW t \in Tasks, op[c].kind = "deinit", TaskClose(t), op' = [op EXCEPT ![c] = NoOp]
        PROVE  WorkerInv'
    <3>1. ClosersKept
      BY <1>0, <2>2, ClosersKeptBut
    <3> QED
      BY <2>2, <3>1, ClosedWorkers DEF ClosersKept
  <2>3. ASSUME NEW t \in Tasks, NEW s \in Sets, t = op[c].task, TaskClose(t),
               op' = [op EXCEPT ![c] = [NoOp EXCEPT !.kind = "close", !.set = s]]
        PROVE  WorkerInv'
    <3>1. \A d \in Contexts : d # c => op'[d] = op[d]
      BY <2>3, NextToClose
    <3> QED
      BY <2>3, <3>1, ClosedWorkers
  <2>4. Left(c)
    BY <1>11, Leaves
  <2> QED
    BY <2>1, <2>2, <2>3, <2>4 DEF Left
<1>12. ASSUME NEW c \in Contexts, Check(c) PROVE WorkerInv'
  <2>1. CASE Leave(c)
    BY <1>11, <1>12, <2>1 DEF Check, In
  <2>2. CASE op' = [op EXCEPT ![c].phase = "run"] /\ UNCHANGED coros
    BY <1>1, <2>2, TurnMoves, ClosersSame
  <2> QED
    BY <1>12, <2>1, <2>2 DEF Check
<1>13. ASSUME NEW c \in Contexts, EndTurn(c) PROVE WorkerInv'
  <2>1. CASE Leave(c)
    BY <1>11, <1>13, <2>1 DEF EndTurn, In
  <2>2. CASE /\ op' = [op EXCEPT ![c].phase = "check", ![c].i = 1, ![c].any = FALSE,
                                 ![c].more = FALSE]
             /\ UNCHANGED coros
    BY <1>1, <2>2, TurnMoves, ClosersSame
  <2> QED
    BY <1>13, <2>1, <2>2 DEF EndTurn
<1>14. ASSUME NEW c \in Contexts, RunTask(c) \/ EndRun(c) \/ Wake(c) \/ EndWake(c) PROVE WorkerInv'
  <2>1. SameCall(c)
    BY <1>14, TurnMoves
  <2>2. UNCHANGED coros
    BY <1>14 DEF RunTask, EndRun, Wake, EndWake
  <2> QED
    BY <1>1, <2>1, <2>2, ClosersSame
<1>15. ASSUME NEW c \in Contexts, Poll(c) PROVE WorkerInv'
  <2>1. PICK b \in BOOLEAN : op' = [op EXCEPT ![c].phase = "wake", ![c].more = b]
    BY <1>15 DEF Poll
  <2> QED
    BY <1>1, <1>15, <2>1, TurnMoves, ClosersSame DEF Poll
<1>16. ASSUME NEW t \in Tasks, ParkIo(t) \/ Suspend(t) PROVE WorkerInv'
  BY <1>2, <1>16 DEF ParkIo, Suspend
<1>17. ASSUME NEW c \in Contexts, TaskSetNew(c) PROVE WorkerInv'
  BY <1>2, <1>17 DEF TaskSetNew
<1>18. CASE LoopClose \/ UNCHANGED vars
  BY <1>2, <1>18 DEF LoopClose, vars
<1> QED
  BY <1>3, <1>4, <1>5, <1>6, <1>7, <1>8, <1>9, <1>10, <1>12, <1>13, <1>14, <1>15, <1>16, <1>17,
     <1>18
  DEF Next, Own, Turn

-----------------------------------------------------------------------------
(* What the loop and the sets track                                        *)

\* Steps that leave the tables alone keep them.
LEMMA TrackKept ==
  ASSUME LoopInv, Intact, UNCHANGED <<tasks, members, home>>, Alive' = Alive
  PROVE  TrackInv'
<1>1. TrackInv
  BY DEF LoopInv
<1> QED
  BY <1>1 DEF TrackInv

\* A worker that is freed leaves the loop, and its set if it has one.
LEMMA ClosedTracks ==
  ASSUME LoopInv, Intact, NEW t \in Tasks, TaskClose(t),
         \/ home[t] = None /\ members' = members
         \/ \E s \in Sets : home[t] = s /\ members' = [members EXCEPT ![s] = Forget(@, t)]
  PROVE  TrackInv'
<1>0. TypeOK /\ TrackInv
  BY DEF LoopInv
<1>N. None \notin Sets
  BY ContextsAssumption
<1>1. /\ IsInjective(tasks') /\ ToSet(tasks') = ToSet(tasks) \ {t}
      /\ \A u \in Tasks : status'[u] = IF u = t THEN "freed" ELSE status[u]
      /\ \A u \in Tasks : home'[u] = IF u = t THEN None ELSE home[u]
  BY <1>0, Freed
<1>2. Alive' = Alive \ {t} /\ ToSet(tasks') = Alive'
  BY <1>0, <1>1 DEF Alive, TrackInv
<1>3. ASSUME NEW r \in Sets
      PROVE  IsInjective(members'[r]) /\ ToSet(members'[r]) = {u \in Alive' : home'[u] = r}
  <2>0. IsInjective(members[r]) /\ ToSet(members[r]) = {u \in Alive : home[u] = r}
    BY <1>0 DEF TrackInv
  <2>A. Alive \subseteq Tasks
    BY DEF Alive
  <2>1. {u \in Alive' : home'[u] = r} = {u \in Alive : home[u] = r} \ {t}
    BY <1>1, <1>2, <2>A
  <2>2. CASE home[t] = None /\ members' = members
    <3>1. t \notin ToSet(members[r])
      BY <1>N, <2>0, <2>2
    <3> QED
      BY <2>0, <2>1, <2>2, <3>1
  <2>3. ASSUME NEW s \in Sets, home[t] = s, members' = [members EXCEPT ![s] = Forget(@, t)]
        PROVE  IsInjective(members'[r]) /\ ToSet(members'[r]) = {u \in Alive' : home'[u] = r}
    <3>1. /\ IsInjective(members'[r])
          /\ ToSet(members'[s]) = ToSet(members[s]) \ {t}
          /\ r # s => members'[r] = members[r]
      BY <1>0, <2>3, Departed
    <3>2. r # s => t \notin ToSet(members[r])
      BY <2>0, <2>3
    <3> QED
      BY <2>0, <2>1, <3>1, <3>2
  <2> QED
    BY <2>2, <2>3
<1> QED
  BY <1>1, <1>2, <1>3 DEF TrackInv

\* Every step keeps loop->tasks and the TaskSets in agreement with the workers.
LEMMA TrackStep == LoopInv /\ Intact /\ [Next]_vars => TrackInv'
<1> SUFFICES ASSUME LoopInv, Intact, [Next]_vars PROVE TrackInv'
  OBVIOUS
<1>0. TypeOK /\ TrackInv /\ WorkerInv /\ CallInv
  BY DEF LoopInv
<1>N. None \notin Tasks /\ None \notin Contexts /\ None \notin Sets
  BY ContextsAssumption DEF Contexts
<1>1. ASSUME UNCHANGED <<tasks, members, home, status>> PROVE TrackInv'
  BY <1>1, TrackKept DEF Alive
<1>2. ASSUME NEW c \in Contexts, Async(c) PROVE TrackInv'
  <2>1. PICK t \in Tasks :
          /\ status[t] = "unborn"
          /\ status' = [status EXCEPT ![t] = "live"]
          /\ tasks' = Append(tasks, t)
    BY <1>2 DEF Async
  <2>2. t \notin Alive /\ home[t] = None
    BY <2>1, Unborn
  <2>3. Alive' = Alive \union {t}
    BY <1>0, <2>1 DEF Alive, TypeOK
  <2>4. tasks \in Seq(Tasks) /\ IsInjective(tasks) /\ ToSet(tasks) = Alive
    BY <1>0 DEF TypeOK, TrackInv
  <2>5. IsInjective(tasks') /\ ToSet(tasks') = Alive'
    BY <2>1, <2>2, <2>3, <2>4, Pushed
  <2>6. home' = home /\ members' = members
    BY <1>2 DEF Async, sets
  <2>7. \A s \in Sets : {u \in Alive' : home'[u] = s} = {u \in Alive : home[u] = s}
    BY <1>N, <2>2, <2>3, <2>6
  <2> QED
    BY <1>0, <2>5, <2>6, <2>7 DEF TrackInv
<1>3. ASSUME NEW c \in Contexts, Spawn(c) PROVE TrackInv'
  <2>1. PICK t \in Tasks, s \in Sets :
          /\ status[t] = "unborn"
          /\ status' = [status EXCEPT ![t] = "live"]
          /\ home' = [home EXCEPT ![t] = s]
          /\ tasks' = Append(tasks, t)
          /\ members' = [members EXCEPT ![s] = Append(@, t)]
    BY <1>3 DEF Spawn, Kept
  <2>2. t \notin Alive /\ home[t] = None
    BY <2>1, Unborn
  <2>3. Alive' = Alive \union {t} /\ \A u \in Tasks : home'[u] = IF u = t THEN s ELSE home[u]
    BY <1>0, <2>1 DEF Alive, TypeOK
  <2>4. tasks \in Seq(Tasks) /\ IsInjective(tasks) /\ ToSet(tasks) = Alive
    BY <1>0 DEF TypeOK, TrackInv
  <2>5. IsInjective(tasks') /\ ToSet(tasks') = Alive'
    BY <2>1, <2>2, <2>3, <2>4, Pushed
  <2>6. ASSUME NEW r \in Sets
        PROVE  IsInjective(members'[r]) /\ ToSet(members'[r]) = {u \in Alive' : home'[u] = r}
    <3>0. /\ members[r] \in Seq(Tasks) /\ IsInjective(members[r])
          /\ ToSet(members[r]) = {u \in Alive : home[u] = r}
      BY <1>0 DEF TypeOK, TrackInv
    <3>A. Alive \subseteq Tasks
      BY DEF Alive
    <3>1. CASE r = s
      <4>1. members'[r] = Append(members[r], t)
        BY <1>0, <2>1, <3>1 DEF TypeOK
      <4>2. t \notin ToSet(members[r])
        BY <2>2, <3>0
      <4>3. IsInjective(members'[r]) /\ ToSet(members'[r]) = ToSet(members[r]) \union {t}
        BY <3>0, <4>1, <4>2, Pushed
      <4>4. {u \in Alive' : home'[u] = r} = {u \in Alive : home[u] = r} \union {t}
        BY <2>2, <2>3, <3>1, <3>A
      <4> QED
        BY <3>0, <4>3, <4>4
    <3>2. CASE r # s
      <4>1. members'[r] = members[r]
        BY <1>0, <2>1, <3>2 DEF TypeOK
      <4>2. {u \in Alive' : home'[u] = r} = {u \in Alive : home[u] = r}
        BY <2>2, <2>3, <3>2, <3>A
      <4> QED
        BY <3>0, <4>1, <4>2
    <3> QED
      BY <3>1, <3>2
  <2> QED
    BY <2>5, <2>6 DEF TrackInv
<1>4. ASSUME NEW t \in Tasks, Finish(t) PROVE TrackInv'
  <2>1. StackInv /\ t \in ToSet(stack)
    BY <1>4, Acting DEF Finish, Calls, Agree, Contexts
  <2>2. status[t] = "live"
    BY <2>1 DEF StackInv, OnStack
  <2>3. Alive' = Alive
    BY <1>0, <1>4, <2>2 DEF Finish, Alive, TypeOK
  <2> QED
    BY <1>4, <2>3, TrackKept DEF Finish, sets
<1>5. ASSUME NEW c \in Contexts, Deinit(c) PROVE TrackInv'
  <2>1. PICK t \in Tasks : TaskClose(t) /\ owner[t] = c
    BY <1>5 DEF Deinit, Futures
  <2>2. home[t] = None
    BY <1>0, <1>N, <2>1 DEF WorkerInv
  <2> QED
    BY <1>5, <2>1, <2>2, ClosedTracks DEF Deinit, sets
<1>6. ASSUME NEW c \in Contexts, Reap(c) PROVE TrackInv'
  <2>1. PICK t \in Tasks, s \in Sets, n \in 1 .. Len(tasks) :
          n = Min(ToReap(c)) /\ t = tasks[n] /\ s = home[t] /\ TaskClose(t)
    BY <1>6, Reaps
  <2>2. members' = [members EXCEPT ![s] = Forget(@, t)]
    BY <1>6, <2>1 DEF Reap
  <2> QED
    BY <2>1, <2>2, ClosedTracks
<1>7. ASSUME NEW c \in Contexts, Left(c) PROVE TrackInv'
  <2>1. CASE UNCHANGED <<coros, tasks, sets>>
    BY <1>1, <2>1 DEF coros, sets
  <2>2. ASSUME NEW t \in Tasks, owner[t] = c, TaskClose(t), UNCHANGED sets PROVE TrackInv'
    <3>1. home[t] = None
      BY <1>0, <1>N, <2>2 DEF WorkerInv
    <3> QED
      BY <2>2, <3>1, ClosedTracks DEF sets
  <2>3. ASSUME NEW t \in Tasks, NEW s \in Sets, home[t] = s, TaskClose(t),
               members' = [members EXCEPT ![s] = Forget(@, t)]
        PROVE  TrackInv'
    BY <2>3, ClosedTracks
  <2> QED
    BY <1>7, <2>1, <2>2, <2>3 DEF Left
<1>8. ASSUME NEW c \in Contexts, Check(c) \/ EndTurn(c) PROVE TrackInv'
  <2>1. Turns(c) /\ (op[c].kind = "close" => op[c].task # None)
    BY <1>8 DEF Check, EndTurn, In
  <2>2. Leave(c) \/ UNCHANGED <<coros, tasks, sets>>
    BY <1>8 DEF Check, EndTurn
  <2>3. Left(c) \/ UNCHANGED <<coros, tasks, sets>>
    BY <2>1, <2>2, Leaves
  <2> QED
    BY <1>1, <1>7, <2>3 DEF coros, sets
<1>9. ASSUME NEW c \in Contexts,
             \/ TaskSetNew(c) \/ Await(c) \/ Cancel(c) \/ WaitOne(c) \/ TaskSetClose(c)
             \/ NextMember(c) \/ RunTask(c) \/ EndRun(c) \/ Poll(c) \/ Wake(c) \/ EndWake(c)
      PROVE  TrackInv'
  BY <1>1, <1>9
  DEF TaskSetNew, Await, Cancel, WaitOne, TaskSetClose, NextMember, RunTask, EndRun, Poll, Wake,
      EndWake, coros, sets
<1>10. ASSUME NEW t \in Tasks, ParkIo(t) \/ Suspend(t) PROVE TrackInv'
  BY <1>1, <1>10 DEF ParkIo, Suspend, coros, sets
<1>11. CASE LoopClose \/ UNCHANGED vars
  BY <1>1, <1>11 DEF LoopClose, vars, coros, sets
<1> QED
  BY <1>2, <1>3, <1>4, <1>5, <1>6, <1>8, <1>9, <1>10, <1>11 DEF Next, Own, Turn

-----------------------------------------------------------------------------
(* Who waits where                                                         *)

\* Steps that leave the parks alone keep the workers waiting in them.
LEMMA WaitsKept ==
  ASSUME LoopInv, Intact, parked' = parked, Len(parks') = Len(parks),
         \A n \in 1 .. Len(parks) : parks'[n].live = parks[n].live /\ parks'[n].coro = parks[n].coro,
         \A t \in Tasks : parked[t] => status'[t] = "live" /\ t \notin ToSet(stack')
  PROVE  ParkInv'
<1>1. ParkInv
  BY DEF LoopInv
<1> QED
  BY <1>1 DEF ParkInv, OnStack

\* Canceling leaves every park its worker.
LEMMA WaitsSettled ==
  ASSUME LoopInv, NEW t \in Tasks, parks' = CanceledParks(t)
  PROVE  /\ Len(parks') = Len(parks)
         /\ \A n \in 1 .. Len(parks) :
              parks'[n].live = parks[n].live /\ parks'[n].coro = parks[n].coro
<1>1. TypeOK /\ parks \in Seq(Park)
  BY DEF LoopInv, TypeOK
<1>2. Len(parks') = Len(parks)
      /\ \A n \in 1 .. Len(parks) : parks'[n] =
            IF parks[n].coro = t THEN Settle(parks[n], "canceled") ELSE parks[n]
  BY <1>1, Canceling
<1>3. ASSUME NEW n \in 1 .. Len(parks)
      PROVE  parks'[n].live = parks[n].live /\ parks'[n].coro = parks[n].coro
  <2>1. parks[n] \in Park /\ "canceled" \in Outcomes
    BY <1>1 DEF Outcomes
  <2>2. Settle(parks[n], "canceled").live = parks[n].live
        /\ Settle(parks[n], "canceled").coro = parks[n].coro
    BY <2>1, ParkTypes
  <2> QED
    BY <1>2, <2>2
<1> QED
  BY <1>2, <1>3

\* A worker that is freed waits nowhere.
LEMMA ClosedWaits ==
  ASSUME LoopInv, Intact, UNCHANGED <<parked, parks, stack>>, NEW t \in Tasks, ~parked[t],
         TaskClose(t)
  PROVE  ParkInv'
<1>1. TypeOK /\ TrackInv /\ ParkInv
  BY DEF LoopInv
<1>2. \A u \in Tasks : status'[u] = IF u = t THEN "freed" ELSE status[u]
  BY <1>1, Freed
<1>3. \A u \in Tasks : parked[u] => status'[u] = "live" /\ u \notin ToSet(stack')
  BY <1>1, <1>2 DEF ParkInv, OnStack
<1> QED
  BY <1>3, WaitsKept

\* A call that ends where its loop stands frees nobody who waits: either the
\* worker has finished, or the turn found no wait at all.
LEMMA LeavesNoWait ==
  ASSUME LoopInv, Intact, NEW c \in Contexts, NEW t \in Tasks, t = op[c].task,
         op[c].kind \in {"deinit", "close"},
         \/ Satisfied(c)
         \/ op[c].phase = "reap" /\ ~op[c].any /\ ~op[c].more
  PROVE  ~parked[t]
<1>1. ParkInv /\ TurnInv
  BY DEF LoopInv
<1>2. CASE Satisfied(c)
  BY <1>1, <1>2 DEF Satisfied, ParkInv
<1>3. CASE op[c].phase = "reap" /\ ~op[c].any /\ ~op[c].more
  <2>1. \A n \in 1 .. Len(parks) : ~parks[n].live
    BY <1>1, <1>3 DEF TurnInv, TurnOf
  <2> QED
    BY <1>1, <2>1 DEF ParkInv
<1> QED
  BY <1>2, <1>3

\* Every step keeps each parked worker in one park.
LEMMA ParkStep == LoopInv /\ Intact /\ [Next]_vars => ParkInv'
<1> SUFFICES ASSUME LoopInv, Intact, [Next]_vars PROVE ParkInv'
  OBVIOUS
<1>0. TypeOK /\ ParkInv /\ StackInv /\ CallInv
  BY DEF LoopInv
<1>S. parks \in Seq(Park) /\ Len(parks) \in Nat
  BY <1>0 DEF TypeOK
<1>W. \A t \in Tasks : parked[t] => status[t] = "live" /\ t \notin ToSet(stack)
  BY <1>0 DEF ParkInv, OnStack
<1>1. ASSUME UNCHANGED <<parked, parks, stack>>,
             \A t \in Tasks : status[t] = "live" => status'[t] = "live"
      PROVE  ParkInv'
  BY <1>1, <1>W, WaitsKept
<1>2. ASSUME NEW t \in Tasks, ParkIo(t) PROVE ParkInv'
  <2> DEFINE p == [NoPark EXCEPT !.coro = t, !.live = TRUE]
  <2>1. /\ parks' = IF Slot > Len(parks) THEN Append(parks, p) ELSE [parks EXCEPT ![Slot] = p]
        /\ parked' = [parked EXCEPT ![t] = TRUE]
        /\ status' = status /\ Return /\ Runs(t)
    BY <1>2 DEF ParkIo, Calls, coros
  <2>2. p.coro = t /\ p.live
    BY DEF NoPark
  <2> HIDE DEF p
  <2>3. ToSet(stack') = ToSet(stack) \ {t}
    BY <2>1, Returned
  <2>4. t \in ToSet(stack)
    BY <2>1, Acting DEF Contexts
  <2>5. ~parked[t] /\ status[t] = "live"
    BY <1>0, <1>W, <2>4 DEF StackInv, OnStack
  <2>6. \A u \in Tasks : parked'[u] = IF u = t THEN TRUE ELSE parked[u]
    BY <1>0, <2>1 DEF TypeOK
  <2>7. Slot \in 1 .. Len(parks) + 1 /\ (Slot <= Len(parks) => ~parks[Slot].live)
    BY <1>0, Slots
  <2>8. /\ Slot \in 1 .. Len(parks') /\ Len(parks') \in Nat /\ parks'[Slot] = p
        /\ \A n \in 1 .. Len(parks') : n # Slot => n \in 1 .. Len(parks) /\ parks'[n] = parks[n]
        /\ \A n \in 1 .. Len(parks) : n # Slot => n \in 1 .. Len(parks') /\ parks'[n] = parks[n]
    <3>1. CASE Slot > Len(parks)
      <4>1. Slot = Len(parks) + 1 /\ parks' = Append(parks, p)
        BY <1>S, <2>1, <2>7, <3>1
      <4> QED
        BY <1>S, <4>1
    <3>2. CASE ~(Slot > Len(parks))
      <4>1. Slot \in 1 .. Len(parks) /\ parks' = [parks EXCEPT ![Slot] = p]
        BY <1>S, <2>1, <2>7, <3>2
      <4> QED
        BY <1>S, <4>1
    <3> QED
      BY <3>1, <3>2
  <2>9. \A n \in 1 .. Len(parks) : parks[n].live => n # Slot /\ parks[n].coro # t
    BY <1>0, <1>S, <2>5, <2>7 DEF ParkInv
  <2>10. ASSUME NEW u \in Tasks, parked'[u]
         PROVE  /\ status'[u] = "live" /\ u \notin ToSet(stack')
                /\ \E n \in 1 .. Len(parks') : parks'[n].live /\ parks'[n].coro = u
    <3>1. CASE u = t
      BY <2>1, <2>2, <2>3, <2>5, <2>8, <3>1
    <3>2. CASE u # t
      <4>1. parked[u]
        BY <2>6, <2>10, <3>2
      <4>2. PICK n \in 1 .. Len(parks) : parks[n].live /\ parks[n].coro = u
        BY <1>0, <4>1 DEF ParkInv
      <4>3. n \in 1 .. Len(parks') /\ parks'[n] = parks[n]
        BY <2>8, <2>9, <4>2
      <4> QED
        BY <1>W, <2>1, <2>3, <4>1, <4>2, <4>3
    <3> QED
      BY <3>1, <3>2
  <2>11. ASSUME NEW n \in 1 .. Len(parks'), parks'[n].live
         PROVE  parks'[n].coro \in Tasks /\ parked'[parks'[n].coro]
    <3>1. CASE n = Slot
      BY <2>2, <2>6, <2>8, <3>1
    <3>2. CASE n # Slot
      BY <1>0, <2>6, <2>8, <2>11, <3>2 DEF ParkInv
    <3> QED
      BY <3>1, <3>2
  <2>12. ASSUME NEW m \in 1 .. Len(parks'), NEW n \in 1 .. Len(parks'),
                parks'[m].live, parks'[n].live, parks'[m].coro = parks'[n].coro
         PROVE  m = n
    <3>1. CASE m # Slot /\ n # Slot
      BY <1>0, <2>8, <2>12, <3>1 DEF ParkInv
    <3>2. CASE m = Slot /\ n # Slot
      BY <2>2, <2>8, <2>9, <2>12, <3>2
    <3>3. CASE m # Slot /\ n = Slot
      BY <2>2, <2>8, <2>9, <2>12, <3>3
    <3> QED
      BY <3>1, <3>2, <3>3
  <2> QED
    BY <2>10, <2>11, <2>12 DEF ParkInv, OnStack
<1>3. ASSUME NEW t \in Tasks, Suspend(t) PROVE ParkInv'
  <2>1. ToSet(stack') = ToSet(stack) \ {t}
    BY <1>3, Returned DEF Suspend, Calls
  <2> QED
    BY <1>3, <1>W, <2>1, WaitsKept DEF Suspend, coros
<1>4. ASSUME NEW t \in Tasks, Finish(t) PROVE ParkInv'
  <2>1. ToSet(stack') = ToSet(stack) \ {t}
    BY <1>4, Returned DEF Finish, Calls
  <2>2. t \in ToSet(stack)
    BY <1>4, Acting DEF Finish, Calls, Contexts
  <2>3. \A u \in Tasks : u # t => status'[u] = status[u]
    BY <1>0, <1>4 DEF Finish, TypeOK
  <2>4. \A u \in Tasks : parked[u] => status'[u] = "live" /\ u \notin ToSet(stack')
    BY <1>W, <2>1, <2>2, <2>3
  <2> QED
    BY <1>4, <2>4, WaitsKept DEF Finish
<1>5. ASSUME NEW c \in Contexts, Async(c) \/ Spawn(c) PROVE ParkInv'
  <2>1. PICK t \in Tasks : status[t] = "unborn" /\ status' = [status EXCEPT ![t] = "live"]
    BY <1>5 DEF Async, Spawn
  <2>2. \A u \in Tasks : status[u] = "live" => status'[u] = "live"
    BY <1>0, <2>1 DEF TypeOK
  <2> QED
    BY <1>1, <1>5, <2>2 DEF Async, Spawn
<1>6. ASSUME NEW c \in Contexts, Cancel(c) PROVE ParkInv'
  <2>1. PICK t \in Tasks : parks' = CanceledParks(t)
    BY <1>6 DEF Cancel, Futures
  <2> QED
    BY <1>6, <1>W, <2>1, WaitsSettled, WaitsKept DEF Cancel
<1>7. ASSUME NEW c \in Contexts, NextMember(c) PROVE ParkInv'
  <2>1. parks' = parks \/ \E t \in Tasks : parks' = CanceledParks(t)
    BY <1>7, ClosesNext
  <2>2. Len(parks') = Len(parks)
        /\ \A n \in 1 .. Len(parks) :
             parks'[n].live = parks[n].live /\ parks'[n].coro = parks[n].coro
    BY <2>1, WaitsSettled
  <2>3. UNCHANGED <<parked, status, stack>>
    BY <1>7 DEF NextMember
  <2> QED
    BY <1>W, <2>2, <2>3, WaitsKept
<1>8. ASSUME NEW c \in Contexts, Poll(c) PROVE ParkInv'
  <2>1. PICK early \in SUBSET Waiting, found \in SUBSET Waiting :
          parks' = [n \in 1 .. Len(parks) |->
                      IF n \in early \union found THEN Settle(parks[n], "io") ELSE parks[n]]
    BY <1>8 DEF Poll
  <2>2. UNCHANGED <<parked, status, stack>>
    BY <1>8 DEF Poll, coros
  <2>3. ASSUME NEW n \in 1 .. Len(parks)
        PROVE  parks'[n].live = parks[n].live /\ parks'[n].coro = parks[n].coro
    <3>1. parks[n] \in Park /\ "io" \in Outcomes
      BY <1>S DEF Outcomes
    <3>2. Settle(parks[n], "io").live = parks[n].live /\ Settle(parks[n], "io").coro = parks[n].coro
      BY <3>1, ParkTypes
    <3>3. parks'[n] = parks[n] \/ parks'[n] = Settle(parks[n], "io")
      BY <2>1
    <3> QED
      BY <3>2, <3>3
  <2>4. Len(parks') = Len(parks)
    BY <1>S, <2>1
  <2> QED
    BY <1>W, <2>2, <2>3, <2>4, WaitsKept
<1>9. ASSUME NEW c \in Contexts, RunTask(c) PROVE ParkInv'
  <2>1. PICK t \in Tasks : ~parked[t] /\ t \notin ToSet(stack) /\ Resume(t)
    BY <1>9, RunsTask
  <2>2. ToSet(stack') = ToSet(stack) \union {t}
    BY <2>1, Resumed
  <2>3. UNCHANGED <<parked, parks, status>>
    BY <1>9 DEF RunTask, coros
  <2> QED
    BY <1>W, <2>1, <2>2, <2>3, WaitsKept
<1>10. ASSUME NEW c \in Contexts, Wake(c) PROVE ParkInv'
  <2>1. PICK t \in Tasks, n \in 1 .. Len(parks) :
          /\ Resume(t) /\ n = Min(ToWake(c)) /\ t = parks[n].coro
          /\ parks[n].live /\ t \notin ToSet(stack)
    BY <1>10, Wakes
  <2>2. /\ parks' = [parks EXCEPT ![n] = NoPark] /\ parked' = [parked EXCEPT ![t] = FALSE]
        /\ status' = status
    BY <1>10, <2>1 DEF Wake, coros
  <2>3. ToSet(stack') = ToSet(stack) \union {t}
    BY <2>1, Resumed
  <2>4. /\ Len(parks') = Len(parks) /\ ~parks'[n].live
        /\ \A m \in 1 .. Len(parks) : m # n => parks'[m] = parks[m]
    BY <1>S, <2>2 DEF NoPark
  <2>5. \A u \in Tasks : parked'[u] = IF u = t THEN FALSE ELSE parked[u]
    BY <1>0, <2>2 DEF TypeOK
  <2>6. ASSUME NEW u \in Tasks, parked'[u]
        PROVE  /\ status'[u] = "live" /\ u \notin ToSet(stack')
               /\ \E m \in 1 .. Len(parks') : parks'[m].live /\ parks'[m].coro = u
    <3>1. u # t /\ parked[u]
      BY <2>5, <2>6
    <3>2. PICK m \in 1 .. Len(parks) : parks[m].live /\ parks[m].coro = u
      BY <1>0, <3>1 DEF ParkInv
    <3>3. m # n
      BY <2>1, <3>1, <3>2
    <3> QED
      BY <1>W, <2>2, <2>3, <2>4, <3>1, <3>2, <3>3
  <2>7. \A m \in 1 .. Len(parks') : parks'[m].live =>
          m # n /\ parks[m].live /\ parks'[m] = parks[m] /\ parks[m].coro \in Tasks
    BY <1>0, <2>4 DEF ParkInv
  <2>8. \A m \in 1 .. Len(parks') : parks'[m].live => parks[m].coro # t
    BY <1>0, <2>1, <2>4, <2>7 DEF ParkInv
  <2>9. ASSUME NEW m \in 1 .. Len(parks'), parks'[m].live
        PROVE  parks'[m].coro \in Tasks /\ parked'[parks'[m].coro]
    <3>1. m \in 1 .. Len(parks) /\ parks[m].live /\ parks'[m].coro = parks[m].coro
      BY <2>4, <2>7, <2>9
    <3>2. parks[m].coro \in Tasks /\ parked[parks[m].coro] /\ parks[m].coro # t
      BY <1>0, <2>8, <2>9, <3>1 DEF ParkInv
    <3> QED
      BY <2>5, <3>1, <3>2
  <2>10. \A k, m \in 1 .. Len(parks') :
           parks'[k].live /\ parks'[m].live /\ parks'[k].coro = parks'[m].coro => k = m
    BY <1>0, <2>4, <2>7 DEF ParkInv
  <2> QED
    BY <2>6, <2>9, <2>10 DEF ParkInv, OnStack
<1>11. ASSUME NEW c \in Contexts, Deinit(c) PROVE ParkInv'
  <2>1. PICK t \in Tasks : status[t] = "finished" /\ TaskClose(t)
    BY <1>11 DEF Deinit, Futures
  <2> QED
    BY <1>11, <1>W, <2>1, ClosedWaits DEF Deinit
<1>12. ASSUME NEW c \in Contexts, Reap(c) PROVE ParkInv'
  <2>1. PICK t \in Tasks : status[t] = "finished" /\ TaskClose(t)
    BY <1>12, Reaps
  <2> QED
    BY <1>12, <1>W, <2>1, ClosedWaits DEF Reap
<1>13. ASSUME NEW c \in Contexts, Check(c) \/ EndTurn(c) PROVE ParkInv'
  <2>1. Turns(c) /\ (op[c].kind = "close" => op[c].task # None)
        /\ UNCHANGED <<parked, parks, stack>>
    BY <1>13 DEF Check, EndTurn, In
  <2>2. \/ UNCHANGED coros
        \/ /\ Leave(c)
           /\ Satisfied(c) \/ (op[c].phase = "reap" /\ ~op[c].any /\ ~op[c].more)
    BY <1>13 DEF Check, EndTurn, In
  <2>3. CASE UNCHANGED coros
    BY <1>1, <2>1, <2>3 DEF coros
  <2>4. CASE Left(c) /\ (Satisfied(c) \/ (op[c].phase = "reap" /\ ~op[c].any /\ ~op[c].more))
    <3>1. (UNCHANGED coros)
          \/ \E t \in Tasks : t = op[c].task /\ op[c].kind \in {"deinit", "close"} /\ TaskClose(t)
      BY <2>4 DEF Left
    <3>2. ASSUME NEW t \in Tasks, t = op[c].task, op[c].kind \in {"deinit", "close"}, TaskClose(t)
          PROVE  ParkInv'
      BY <2>1, <2>4, <3>2, LeavesNoWait, ClosedWaits
    <3> QED
      BY <2>3, <3>1, <3>2
  <2> QED
    BY <2>1, <2>2, <2>3, <2>4, Leaves
<1>14. ASSUME NEW c \in Contexts,
              \/ TaskSetNew(c) \/ Await(c) \/ WaitOne(c) \/ TaskSetClose(c)
              \/ EndRun(c) \/ EndWake(c)
       PROVE  ParkInv'
  BY <1>1, <1>14 DEF TaskSetNew, Await, WaitOne, TaskSetClose, EndRun, EndWake, coros
<1>15. CASE LoopClose \/ UNCHANGED vars
  BY <1>1, <1>15 DEF LoopClose, vars, coros
<1> QED
  BY <1>2, <1>3, <1>4, <1>5, <1>6, <1>7, <1>8, <1>9, <1>10, <1>11, <1>12, <1>13, <1>14, <1>15
  DEF Next, Own, Turn

-----------------------------------------------------------------------------
(* The calls in progress                                                   *)

\* A call that goes on, about the same worker or set, which nobody took away.
LEMMA CallKept ==
  ASSUME LoopInv, Intact, NEW d \in Contexts,
         op'[d].kind = op[d].kind, op'[d].task = op[d].task, op'[d].set = op[d].set,
         op[d].kind # "none" => d \in ToSet(stack'),
         \A t \in Tasks : t = op[d].task /\ op[d].kind \notin {"none", "wait"} =>
           owner'[t] = owner[t] /\ home'[t] = home[t] /\ (held[t] => held'[t]),
         \A s \in Sets : keeper[s] = d /\ s = op[d].set => keeper'[s] = d
  PROVE  CallOf(d)'
<1>1. CallOf(d) /\ TypeOK
  BY DEF LoopInv, CallInv
<1>2. op[d].task \in Tasks \union {None}
  BY <1>1 DEF TypeOK, Op
<1>3. op'[d].kind # "none" => d \in ToSet(stack')
  OBVIOUS
<1>4. op'[d].kind \in {"await", "cancel", "deinit"} =>
        op'[d].task \in Tasks /\ owner'[op'[d].task] = d
  BY <1>1 DEF CallOf
<1>5. op'[d].kind \in {"wait", "close"} => op'[d].set \in Sets /\ keeper'[op'[d].set] = d
  BY <1>1 DEF CallOf
<1>6. op'[d].kind = "close" /\ op'[d].task # None =>
        home'[op'[d].task] = op'[d].set /\ held'[op'[d].task]
  BY <1>1, <1>2 DEF CallOf
<1> QED
  BY <1>3, <1>4, <1>5, <1>6 DEF CallOf

\* Nothing is to be said of a context without a call.
LEMMA NoCall ==
  ASSUME NEW d \in Contexts, op'[d].kind = "none"
  PROVE  CallOf(d)'
  BY DEF CallOf

\* A step of the running context keeps what is said of those below it.
LEMMA BelowKept ==
  ASSUME LoopInv, Intact, stack' = stack, \A d \in Contexts : d # Current => op'[d] = op[d]
  PROVE  BelowInv'
<1>1. BelowInv /\ stack \in Seq(Contexts)
  BY DEF LoopInv, CallInv, TypeOK
<1>2. ToSet(stack) \subseteq Contexts
  BY <1>1, SetOf
<1> QED
  BY <1>1, <1>2 DEF BelowInv, Current

\* A worker that returns leaves those below it as they were.
LEMMA BelowReturned ==
  ASSUME LoopInv, NEW t \in Tasks, Runs(t), Return, op' = op
  PROVE  BelowInv'
<1>1. BelowInv /\ t = Current
  BY Acting DEF Agree, CallInv, Contexts, Current
<1>2. ToSet(stack') = ToSet(stack) \ {t}
  BY Returned
<1> QED
  BY <1>1, <1>2 DEF BelowInv

\* A worker resumed stands above the context that resumed it.
LEMMA BelowResumed ==
  ASSUME LoopInv, NEW c \in Contexts, Runs(c), NEW t \in Tasks, t \notin ToSet(stack), Resume(t),
         SameCall(c), op'[c].any, op[c].kind # "none", op[c].kind = "close" => op[c].task # None
  PROVE  BelowInv'
<1>1. BelowInv /\ c = Current /\ Intact /\ stack \in Seq(Contexts)
  BY Acting DEF Agree, CallInv, Current, TypeOK
<1>2. ToSet(stack') = ToSet(stack) \union {t} /\ Current' = t
  BY <1>1, Resumed DEF Current
<1>3. ToSet(stack) \subseteq Contexts
  BY <1>1, SetOf
<1>4. ASSUME NEW d \in ToSet(stack') \ {Current'}
      PROVE  op'[d].kind # "none" /\ op'[d].any /\ (op'[d].kind = "close" => op'[d].task # None)
  <2>1. d \in ToSet(stack) /\ d \in Contexts
    BY <1>2, <1>3, <1>4
  <2>2. CASE d = c
    BY <2>2 DEF SameCall
  <2>3. CASE d # c
    <3>1. op'[d] = op[d]
      BY <2>1, <2>3 DEF SameCall
    <3> QED
      BY <1>1, <2>1, <2>3, <3>1 DEF BelowInv
  <2> QED
    BY <2>2, <2>3
<1> QED
  BY <1>4 DEF BelowInv

\* A step that writes no call, and takes nothing from any.
LEMMA CallsKept ==
  ASSUME LoopInv, Intact, UNCHANGED <<owner, home, held, keeper, stack>>, NEW c \in Contexts,
         c = Current, SameCall(c)
  PROVE  CallInv'
<1>0. CallInv
  BY DEF LoopInv
<1>1. ASSUME NEW d \in Contexts PROVE CallOf(d)'
  <2>1. op'[d].kind = op[d].kind /\ op'[d].task = op[d].task /\ op'[d].set = op[d].set
    BY DEF SameCall
  <2>2. op[d].kind # "none" => d \in ToSet(stack)
    BY <1>0 DEF CallInv, CallOf
  <2> QED
    BY <2>1, <2>2, CallKept
<1>2. BelowInv'
  BY BelowKept DEF SameCall
<1> QED
  BY <1>1, <1>2 DEF CallInv

\* A step of c that writes only its own call.
LEMMA CallsOfOthers ==
  ASSUME LoopInv, Intact, UNCHANGED <<owner, home, stack>>, NEW c \in Contexts, c = Current,
         \A d \in Contexts : d # c => op'[d] = op[d],
         \A t \in Tasks : held[t] => held'[t],
         \A s \in Sets : keeper[s] # c => keeper'[s] = keeper[s],
         CallOf(c)'
  PROVE  CallInv'
<1>0. CallInv
  BY DEF LoopInv
<1>1. ASSUME NEW d \in Contexts, d # c PROVE CallOf(d)'
  <2>1. op[d].kind # "none" => d \in ToSet(stack)
    BY <1>0 DEF CallInv, CallOf
  <2>2. op'[d] = op[d]
    BY <1>1
  <2>3. \A s \in Sets : keeper[s] = d => keeper'[s] = d
    BY <1>1
  <2> QED
    BY <2>1, <2>2, <2>3, CallKept
<1>2. BelowInv'
  BY BelowKept
<1> QED
  BY <1>1, <1>2 DEF CallInv

\* The worker that c frees is in no other call.
LEMMA ClosedCalls ==
  ASSUME LoopInv, Intact, UNCHANGED <<keeper, stack>>, NEW c \in Contexts, c = Current,
         \A d \in Contexts : d # c => op'[d] = op[d],
         NEW t \in Tasks, TaskClose(t),
         owner[t] = c \/ (home[t] \in Sets /\ (~held[t] \/ keeper[home[t]] = c)),
         CallOf(c)'
  PROVE  CallInv'
<1>0. CallInv /\ TypeOK /\ TrackInv /\ WorkerInv
  BY DEF LoopInv
<1>N. None \notin Contexts /\ None \notin Sets
  BY ContextsAssumption
<1>F. /\ \A u \in Tasks : owner'[u] = IF u = t THEN None ELSE owner[u]
      /\ \A u \in Tasks : home'[u] = IF u = t THEN None ELSE home[u]
      /\ \A u \in Tasks : held'[u] = IF u = t THEN FALSE ELSE held[u]
  BY <1>0, Freed
<1>1. ASSUME NEW d \in Contexts, d # c PROVE CallOf(d)'
  <2>0. CallOf(d) /\ op'[d] = op[d] /\ op[d] \in Op
    BY <1>0, <1>1 DEF CallInv, TypeOK
  <2>1. op[d].kind # "none" => d \in ToSet(stack)
    BY <2>0 DEF CallOf
  <2>2. op[d].kind \notin {"none", "wait"} => op[d].task # t
    <3>1. CASE op[d].kind \in {"await", "cancel", "deinit"} /\ op[d].task = t
      <4>1. owner[t] = d
        BY <2>0, <3>1 DEF CallOf
      <4>2. home[t] = None
        BY <1>0, <1>N, <4>1 DEF WorkerInv
      <4> QED
        BY <1>N, <1>1, <4>1, <4>2
    <3>2. CASE op[d].kind = "close" /\ op[d].task = t
      <4>1. home[t] \in Sets /\ keeper[home[t]] = d /\ held[t]
        BY <1>N, <2>0, <3>2 DEF CallOf, Contexts
      <4>2. owner[t] = None
        BY <1>0, <1>N, <4>1 DEF WorkerInv
      <4> QED
        BY <1>N, <1>1, <4>1, <4>2
    <3> QED
      BY <2>0, <3>1, <3>2 DEF Op
  <2>3. \A u \in Tasks : u = op[d].task /\ op[d].kind \notin {"none", "wait"} =>
          owner'[u] = owner[u] /\ home'[u] = home[u] /\ (held[u] => held'[u])
    BY <1>F, <2>2
  <2> QED
    BY <2>0, <2>1, <2>3, CallKept
<1>2. BelowInv'
  BY BelowKept
<1> QED
  BY <1>1, <1>2 DEF CallInv

\* Every step keeps what is said of calls in progress.
LEMMA CallStep == LoopInv /\ Intact /\ [Next]_vars => CallInv'
<1> SUFFICES ASSUME LoopInv, Intact, [Next]_vars PROVE CallInv'
  OBVIOUS
<1>0. TypeOK /\ CallInv /\ WorkerInv /\ StackInv /\ TrackInv
  BY DEF LoopInv
<1>N. None \notin Tasks /\ None \notin Contexts /\ None \notin Sets
  BY ContextsAssumption DEF Contexts
<1>C. \A c \in Contexts : Runs(c) => c = Current /\ c \in ToSet(stack)
  BY Acting DEF Current
<1>K. \A d \in Contexts : op[d].kind # "none" => d \in ToSet(stack)
  BY <1>0 DEF CallInv, CallOf
<1>1. CASE UNCHANGED <<coros, sets, stack, op>>
  <2>1. \A d \in Contexts : CallOf(d)'
    BY <1>K, <1>1, CallKept DEF coros, sets
  <2>2. BelowInv'
    BY <1>1, BelowKept
  <2> QED
    BY <2>1, <2>2 DEF CallInv
<1>2. ASSUME NEW t \in Tasks, Runs(t), op[t].kind = "none", Return,
             UNCHANGED <<owner, home, held, keeper, op>>
      PROVE  CallInv'
  <2>1. ToSet(stack') = ToSet(stack) \ {t}
    BY <1>2, Returned
  <2>2. \A d \in Contexts : op[d].kind # "none" => d \in ToSet(stack')
    BY <1>K, <1>2, <2>1
  <2>3. \A d \in Contexts : CallOf(d)'
    BY <1>2, <2>2, CallKept
  <2> QED
    BY <1>2, <2>3, BelowReturned DEF CallInv
<1>3. ASSUME NEW t \in Tasks, ParkIo(t) \/ Suspend(t) \/ Finish(t) PROVE CallInv'
  BY <1>2, <1>3 DEF ParkIo, Suspend, Finish, Calls, coros, sets
<1>4. ASSUME NEW c \in Contexts, Async(c) PROVE CallInv'
  <2>1. PICK t \in Tasks : status[t] = "unborn" /\ owner' = [owner EXCEPT ![t] = c]
    BY <1>4 DEF Async
  <2>2. owner[t] = None /\ home[t] = None
    BY <2>1, Unborn
  <2>3. UNCHANGED <<home, held, keeper, stack, op>>
    BY <1>4 DEF Async, sets
  <2>4. ASSUME NEW d \in Contexts PROVE CallOf(d)'
    <3>0. CallOf(d)
      BY <1>0 DEF CallInv
    <3>1. op[d].kind \in {"await", "cancel", "deinit"} => op[d].task \in Tasks /\ op[d].task # t
      BY <1>N, <2>2, <3>0 DEF CallOf
    <3>2. \A u \in Tasks : u # t => owner'[u] = owner[u]
      BY <1>0, <2>1 DEF TypeOK
    <3> QED
      BY <2>3, <3>0, <3>1, <3>2 DEF CallOf
  <2>5. BelowInv'
    BY <2>3, BelowKept
  <2> QED
    BY <2>4, <2>5 DEF CallInv
<1>5. ASSUME NEW c \in Contexts, Spawn(c) PROVE CallInv'
  <2>1. PICK t \in Tasks, s \in Sets : status[t] = "unborn" /\ home' = [home EXCEPT ![t] = s]
    BY <1>5 DEF Spawn, Kept
  <2>2. owner[t] = None /\ home[t] = None
    BY <2>1, Unborn
  <2>3. UNCHANGED <<owner, held, keeper, stack, op>>
    BY <1>5 DEF Spawn
  <2>4. ASSUME NEW d \in Contexts PROVE CallOf(d)'
    <3>0. CallOf(d) /\ op[d] \in Op
      BY <1>0 DEF CallInv, TypeOK
    <3>1. op[d].kind = "close" /\ op[d].task # None => op[d].task \in Tasks /\ op[d].task # t
      BY <1>N, <2>2, <3>0 DEF CallOf, Op
    <3>2. \A u \in Tasks : u # t => home'[u] = home[u]
      BY <1>0, <2>1 DEF TypeOK
    <3> QED
      BY <2>3, <3>0, <3>1, <3>2 DEF CallOf
  <2>5. BelowInv'
    BY <2>3, BelowKept
  <2> QED
    BY <2>4, <2>5 DEF CallInv
<1>6. ASSUME NEW c \in Contexts, TaskSetNew(c) PROVE CallInv'
  <2>1. PICK s \in Sets : keeper[s] = None /\ keeper' = [keeper EXCEPT ![s] = c]
    BY <1>6 DEF TaskSetNew
  <2>2. \A r \in Sets : keeper[r] # None => keeper'[r] = keeper[r]
    BY <1>0, <2>1 DEF TypeOK
  <2>3. UNCHANGED <<owner, home, held, stack, op>>
    BY <1>6 DEF TaskSetNew, coros
  <2>4. \A d \in Contexts : CallOf(d)'
    BY <1>K, <1>N, <2>2, <2>3, CallKept
  <2>5. BelowInv'
    BY <2>3, BelowKept
  <2> QED
    BY <2>4, <2>5 DEF CallInv
<1>7. ASSUME NEW c \in Contexts, Await(c) \/ Cancel(c) PROVE CallInv'
  <2>1. PICK t \in Tasks, kind \in {"await", "cancel", "deinit"} :
          owner[t] = c /\ Begin(c, kind, t, None, 0)
    BY <1>7 DEF Await, Cancel, Futures
  <2>2. /\ \A d \in Contexts : d # c => op'[d] = op[d]
        /\ op'[c].kind = kind /\ op'[c].task = t
    BY <2>1, Begun
  <2>3. UNCHANGED <<owner, home, held, keeper, stack>> /\ Runs(c)
    BY <1>7 DEF Await, Cancel, Calls, coros, sets
  <2>4. CallOf(c)'
    BY <1>C, <2>1, <2>2, <2>3 DEF CallOf
  <2> QED
    BY <1>C, <2>2, <2>3, <2>4, CallsOfOthers
<1>8. ASSUME NEW c \in Contexts, WaitOne(c) \/ TaskSetClose(c) PROVE CallInv'
  <2>1. PICK s \in Sets, kind \in {"wait", "close"}, seen \in Nat :
          keeper[s] = c /\ Begin(c, kind, None, s, seen)
    <3>1. \A s \in Sets : departed[s] \in Nat
      BY <1>0 DEF TypeOK
    <3> QED
      BY <1>8, <3>1 DEF WaitOne, TaskSetClose, Kept
  <2>2. /\ \A d \in Contexts : d # c => op'[d] = op[d]
        /\ op'[c].kind = kind /\ op'[c].task = None /\ op'[c].set = s
    BY <2>1, Begun
  <2>3. UNCHANGED <<owner, home, held, keeper, stack>> /\ Runs(c)
    BY <1>8 DEF WaitOne, TaskSetClose, Calls, coros, sets
  <2>4. CallOf(c)'
    BY <1>C, <2>1, <2>2, <2>3 DEF CallOf
  <2> QED
    BY <1>C, <2>2, <2>3, <2>4, CallsOfOthers
<1>9. ASSUME NEW c \in Contexts, NextMember(c) PROVE CallInv'
  <2>0. UNCHANGED <<owner, home, stack>> /\ Runs(c)
    BY <1>9 DEF NextMember, Turns
  <2>1. PICK s \in Sets :
          /\ s = op[c].set /\ keeper[s] = c /\ op[c].kind = "close"
          /\ \/ \E t \in Tasks :
                  /\ home[t] = s
                  /\ held' = [held EXCEPT ![t] = TRUE]
                  /\ op' = [op EXCEPT ![c].task = t]
                  /\ UNCHANGED keeper
             \/ /\ keeper' = [keeper EXCEPT ![s] = None]
                /\ op' = [op EXCEPT ![c] = NoOp]
                /\ UNCHANGED held
    BY <1>9, ClosesNext
  <2>2. ASSUME NEW t \in Tasks, home[t] = s, held' = [held EXCEPT ![t] = TRUE],
               op' = [op EXCEPT ![c].task = t], UNCHANGED keeper
        PROVE  CallInv'
    <3>1. /\ \A d \in Contexts : d # c => op'[d] = op[d]
          /\ op'[c].kind = op[c].kind /\ op'[c].task = t /\ op'[c].set = op[c].set
      BY <2>2, TookUp
    <3>2. held'[t] /\ \A u \in Tasks : held[u] => held'[u]
      BY <1>0, <2>2 DEF TypeOK
    <3>3. CallOf(c)'
      BY <1>C, <2>0, <2>1, <2>2, <3>1, <3>2 DEF CallOf
    <3> QED
      BY <1>C, <2>0, <2>2, <3>1, <3>2, <3>3, CallsOfOthers
  <2>3. CASE keeper' = [keeper EXCEPT ![s] = None] /\ op' = [op EXCEPT ![c] = NoOp]
             /\ UNCHANGED held
    <3>1. (\A d \in Contexts : d # c => op'[d] = op[d]) /\ op'[c].kind = "none"
      BY <2>3, Cleared
    <3>2. \A r \in Sets : keeper[r] # c => keeper'[r] = keeper[r]
      BY <1>0, <2>1, <2>3 DEF TypeOK
    <3> QED
      BY <1>C, <2>0, <2>3, <3>1, <3>2, NoCall, CallsOfOthers
  <2> QED
    BY <2>1, <2>2, <2>3
<1>10. ASSUME NEW c \in Contexts, Deinit(c) PROVE CallInv'
  <2>1. PICK t \in Tasks : owner[t] = c /\ TaskClose(t)
    BY <1>10 DEF Deinit, Futures
  <2>2. UNCHANGED <<keeper, stack, op>> /\ Runs(c) /\ op[c].kind = "none"
    BY <1>10 DEF Deinit, Calls, sets
  <2> QED
    BY <1>C, <2>1, <2>2, NoCall, ClosedCalls
<1>11. ASSUME NEW c \in Contexts, Reap(c) PROVE CallInv'
  <2>1. PICK t \in Tasks, s \in Sets, n \in 1 .. Len(tasks) :
          n = Min(ToReap(c)) /\ s = home[t] /\ TaskClose(t) /\ ~held[t]
    BY <1>11, Reaps
  <2>2. op' = [op EXCEPT ![c].i = n] /\ UNCHANGED <<keeper, stack>> /\ Runs(c) /\ n \in Nat \ {0}
    BY <1>11, <2>1 DEF Reap, In, Turns
  <2>3. SameCall(c)
    BY <2>2, TurnMoves
  <2>4. CallOf(c)'
    <3>0. CallOf(c) /\ op[c] \in Op
      BY <1>0 DEF CallInv, TypeOK
    <3>F. /\ \A u \in Tasks : owner'[u] = IF u = t THEN None ELSE owner[u]
          /\ \A u \in Tasks : home'[u] = IF u = t THEN None ELSE home[u]
          /\ \A u \in Tasks : held'[u] = IF u = t THEN FALSE ELSE held[u]
      BY <1>0, <2>1, Freed
    <3>1. owner[t] = None
      BY <1>0, <1>N, <2>1 DEF WorkerInv
    <3>2. op[c].kind \notin {"none", "wait"} => op[c].task # t
      BY <1>N, <2>1, <3>0, <3>1 DEF CallOf, Op
    <3>3. \A u \in Tasks : u = op[c].task /\ op[c].kind \notin {"none", "wait"} =>
            owner'[u] = owner[u] /\ home'[u] = home[u] /\ (held[u] => held'[u])
      BY <3>F, <3>2
    <3> QED
      BY <1>K, <2>2, <2>3, <3>3, CallKept DEF SameCall
  <2> QED
    BY <1>C, <2>1, <2>2, <2>3, <2>4, ClosedCalls DEF SameCall
<1>12. ASSUME NEW c \in Contexts, Runs(c), Left(c), UNCHANGED stack PROVE CallInv'
  <2>1. CASE /\ op' = [op EXCEPT ![c] = NoOp]
             /\ UNCHANGED <<coros, tasks, sets>>
    BY <1>C, <1>12, <2>1, Cleared, NoCall, CallsOfOthers DEF coros, sets
  <2>2. ASSUME NEW t \in Tasks, owner[t] = c, TaskClose(t), op' = [op EXCEPT ![c] = NoOp],
               UNCHANGED sets
        PROVE  CallInv'
    BY <1>C, <1>12, <2>2, Cleared, NoCall, ClosedCalls DEF sets
  <2>3. ASSUME NEW t \in Tasks, NEW s \in Sets, home[t] = s, keeper[s] = c, TaskClose(t),
               op' = [op EXCEPT ![c] = [NoOp EXCEPT !.kind = "close", !.set = s]],
               UNCHANGED keeper
        PROVE  CallInv'
    <3>1. /\ \A d \in Contexts : d # c => op'[d] = op[d]
          /\ op'[c].kind = "close" /\ op'[c].task = None /\ op'[c].set = s
      BY <2>3, NextToClose
    <3>2. CallOf(c)'
      BY <1>C, <1>12, <2>3, <3>1 DEF CallOf
    <3> QED
      BY <1>C, <1>12, <2>3, <3>1, <3>2, ClosedCalls
  <2> QED
    BY <1>12, <2>1, <2>2, <2>3 DEF Left
<1>13. ASSUME NEW c \in Contexts, Check(c) \/ EndTurn(c) PROVE CallInv'
  <2>1. Turns(c) /\ Runs(c) /\ (op[c].kind = "close" => op[c].task # None) /\ stack' = stack
    BY <1>13 DEF Check, EndTurn, In, Turns
  <2>2. \/ Leave(c)
        \/ /\ UNCHANGED <<coros, sets>>
           /\ \/ op' = [op EXCEPT ![c].phase = "run"]
              \/ op' = [op EXCEPT ![c].phase = "check", ![c].i = 1, ![c].any = FALSE,
                                  ![c].more = FALSE]
    BY <1>13 DEF Check, EndTurn
  <2>3. CASE UNCHANGED <<coros, sets>> /\ SameCall(c)
    BY <1>C, <2>1, <2>3, CallsKept DEF coros, sets
  <2> QED
    BY <1>12, <2>1, <2>2, <2>3, Leaves, TurnMoves
<1>14. ASSUME NEW c \in Contexts, EndRun(c) \/ EndWake(c) PROVE CallInv'
  <2>1. SameCall(c)
    BY <1>14, TurnMoves
  <2> QED
    BY <1>C, <1>14, <2>1, CallsKept DEF EndRun, EndWake, In, Turns, coros, sets
<1>15. ASSUME NEW c \in Contexts, Poll(c) PROVE CallInv'
  <2>1. PICK b \in BOOLEAN : op' = [op EXCEPT ![c].phase = "wake", ![c].more = b]
    BY <1>15 DEF Poll
  <2>2. SameCall(c)
    BY <2>1, TurnMoves
  <2> QED
    BY <1>C, <1>15, <2>2, CallsKept DEF Poll, In, Turns, coros, sets
<1>16. ASSUME NEW c \in Contexts, RunTask(c) \/ Wake(c) PROVE CallInv'
  <2>1. SameCall(c) /\ op'[c].any
    BY <1>16, TurnMoves
  <2>2. /\ Runs(c) /\ op[c].kind # "none" /\ (op[c].kind = "close" => op[c].task # None)
        /\ UNCHANGED <<owner, home, held, keeper>>
    BY <1>16 DEF RunTask, Wake, In, Turns, coros, sets
  <2>3. PICK t \in Tasks : t \notin ToSet(stack) /\ Resume(t)
    BY <1>16, RunsTask, Wakes
  <2>4. ToSet(stack') = ToSet(stack) \union {t}
    BY <2>3, Resumed
  <2>5. ASSUME NEW d \in Contexts PROVE CallOf(d)'
    <3>1. op'[d].kind = op[d].kind /\ op'[d].task = op[d].task /\ op'[d].set = op[d].set
      BY <2>1 DEF SameCall
    <3> QED
      BY <1>K, <2>2, <2>4, <3>1, CallKept
  <2>6. BelowInv'
    BY <2>1, <2>2, <2>3, BelowResumed
  <2> QED
    BY <2>5, <2>6 DEF CallInv
<1>17. CASE LoopClose \/ UNCHANGED vars
  BY <1>1, <1>17 DEF LoopClose, vars
<1> QED
  BY <1>3, <1>4, <1>5, <1>6, <1>7, <1>8, <1>9, <1>10, <1>11, <1>13, <1>14, <1>15, <1>16, <1>17
  DEF Next, Own, Turn

-----------------------------------------------------------------------------
(* What a turn knows                                                       *)

\* At the condition of its loop a turn knows nothing yet.
LEMMA TurnBegins ==
  ASSUME NEW c \in Contexts,
         op'[c].phase = "check", op'[c].i = 1, ~op'[c].more
  PROVE  TurnOf(c)'
  BY DEF TurnOf

\* Every step keeps what a stalled turn knows.
LEMMA TurnStep == LoopInv /\ Intact /\ [Next]_vars => TurnInv'
<1> SUFFICES ASSUME LoopInv, Intact, [Next]_vars PROVE TurnInv'
  OBVIOUS
<1>0. TypeOK /\ CallInv /\ TurnInv /\ TrackInv /\ ParkInv
  BY DEF LoopInv
<1>N. None \notin Tasks /\ None \notin Contexts /\ None \notin Sets
  BY ContextsAssumption DEF Contexts
<1>C. \A c \in Contexts : Runs(c) => c = Current
  BY DEF Runs
<1>A. CallInv'
  BY CallStep
\* Only the turn at the top may have resumed nothing.
<1>B. \A d \in Contexts : op'[d].kind # "none" /\ ~op'[d].any => d = Current'
  BY <1>A DEF CallInv, CallOf, BelowInv
<1>T. ASSUME NEW c \in Contexts, c = Current', op'[c].kind # "none" /\ ~op'[c].any => TurnOf(c)'
      PROVE  TurnInv'
  BY <1>B, <1>T DEF TurnInv
<1>O. ASSUME NEW c \in Contexts, c = Current, op[c].kind # "none", ~op[c].any PROVE TurnOf(c)
  BY <1>0, <1>O DEF TurnInv
\* Nobody is at the top of a turn of its own after its call was left alone.
<1>1. ASSUME NEW c \in Contexts, Runs(c), op[c].kind = "none", UNCHANGED <<op, stack>> PROVE TurnInv'
  BY <1>C, <1>T, <1>1 DEF Current
<1>2. ASSUME NEW t \in Tasks, Runs(t), Return, UNCHANGED op PROVE TurnInv'
  <2>1. Last(stack') \in ToSet(stack) \ {t} /\ t = Current
    BY <1>C, <1>2, Returned DEF Contexts
  <2>2. ToSet(stack) \subseteq Contexts
    BY <1>0, SetOf DEF TypeOK
  <2>3. op[Last(stack')].any
    BY <1>0, <2>1 DEF CallInv, BelowInv
  <2> QED
    BY <1>2, <1>T, <2>1, <2>2, <2>3 DEF Current
<1>3. ASSUME NEW c \in Contexts, NEW t \in Tasks, t \notin ToSet(stack), Resume(t), SameCall(c),
             c \in ToSet(stack)
      PROVE  TurnInv'
  <2>1. Current' = t
    BY <1>3, Resumed DEF Current
  <2>2. op[t].kind = "none" /\ t \in Contexts /\ t # c
    BY <1>0, <1>3 DEF CallInv, CallOf, Contexts
  <2>3. op'[t].kind = "none"
    BY <1>3, <2>2 DEF SameCall
  <2> QED
    BY <1>T, <2>1, <2>2, <2>3
<1>4. ASSUME NEW c \in Contexts, Runs(c), stack' = stack,
             op'[c].kind = "none" \/ op'[c].any
             \/ (op'[c].phase = "check" /\ op'[c].i = 1 /\ ~op'[c].more)
      PROVE  TurnInv'
  BY <1>C, <1>T, <1>4, TurnBegins DEF Current
<1>5. ASSUME NEW t \in Tasks, ParkIo(t) \/ Suspend(t) \/ Finish(t) PROVE TurnInv'
  BY <1>2, <1>5 DEF ParkIo, Suspend, Finish, Calls
<1>6. ASSUME NEW c \in Contexts, Async(c) \/ TaskSetNew(c) \/ Spawn(c) \/ Deinit(c) PROVE TurnInv'
  BY <1>1, <1>6 DEF Async, TaskSetNew, Spawn, Deinit, Calls
<1>7. ASSUME NEW c \in Contexts, Await(c) \/ Cancel(c) PROVE TurnInv'
  <2>1. PICK t \in Tasks, kind \in {"await", "cancel", "deinit"} : Begin(c, kind, t, None, 0)
    BY <1>7 DEF Await, Cancel, Futures
  <2>2. op'[c].phase = "check" /\ op'[c].i = 1 /\ ~op'[c].more
    BY <2>1, Begun
  <2> QED
    BY <1>4, <1>7, <2>2 DEF Await, Cancel, Calls
<1>8. ASSUME NEW c \in Contexts, WaitOne(c) \/ TaskSetClose(c) PROVE TurnInv'
  <2>1. PICK s \in Sets, kind \in {"wait", "close"}, seen \in Nat : Begin(c, kind, None, s, seen)
    <3>1. \A s \in Sets : departed[s] \in Nat
      BY <1>0 DEF TypeOK
    <3> QED
      BY <1>8, <3>1 DEF WaitOne, TaskSetClose, Kept
  <2>2. op'[c].phase = "check" /\ op'[c].i = 1 /\ ~op'[c].more
    BY <2>1, Begun
  <2> QED
    BY <1>4, <1>8, <2>2 DEF WaitOne, TaskSetClose, Calls
<1>9. ASSUME NEW c \in Contexts, NextMember(c) PROVE TurnInv'
  <2>0. Runs(c) /\ op[c].kind # "none" /\ stack' = stack
    BY <1>9 DEF NextMember, Turns
  <2>1. CASE op' = [op EXCEPT ![c] = NoOp]
    BY <1>4, <2>0, <2>1, Cleared
  <2>2. ASSUME NEW t \in Tasks, op' = [op EXCEPT ![c].task = t] PROVE TurnInv'
    <3>1. op'[c].phase = op[c].phase /\ op'[c].i = op[c].i /\ op'[c].any = op[c].any
          /\ op'[c].more = op[c].more
      BY <2>2, TookUp
    <3>2. op[c].kind = "close" /\ op[c].task = None
      BY <1>9 DEF NextMember
    <3>3. ~op[c].any => op[c].phase = "check" /\ op[c].i = 1 /\ ~op[c].more
      BY <1>C, <1>O, <2>0, <3>2 DEF TurnOf
    <3> QED
      BY <1>4, <2>0, <3>1, <3>3
  <2> QED
    BY <1>9, <2>1, <2>2, ClosesNext
<1>10. ASSUME NEW c \in Contexts, Runs(c), op[c].kind = "close" => op[c].task # None,
              Left(c), stack' = stack
       PROVE  TurnInv'
  BY ZenonT(30), <1>4, <1>10, Cleared, NextToClose DEF Left
<1>11. ASSUME NEW c \in Contexts, Check(c) PROVE TurnInv'
  <2>0. Turns(c) /\ Runs(c) /\ op[c].kind # "none" /\ (op[c].kind = "close" => op[c].task # None)
        /\ stack' = stack /\ op[c].phase = "check"
    BY <1>11 DEF Check, In, Turns
  <2>1. CASE Leave(c)
    BY <1>10, <2>0, <2>1, Leaves
  <2>2. CASE op' = [op EXCEPT ![c].phase = "run"] /\ UNCHANGED <<coros, tasks, sets>>
    <3>1. /\ SameCall(c) /\ op'[c].phase = "run"
          /\ op'[c].i = op[c].i /\ op'[c].any = op[c].any /\ op'[c].more = op[c].more
      BY <2>2, TurnMoves
    <3>2. ~op[c].any => TurnOf(c)
      BY <1>C, <1>O, <2>0
    <3>3. ~op'[c].any => TurnOf(c)'
      BY <2>0, <3>1, <3>2 DEF TurnOf, SameCall
    <3> QED
      BY <1>C, <1>T, <2>0, <3>3 DEF Current
  <2> QED
    BY <1>11, <2>1, <2>2 DEF Check
<1>12. ASSUME NEW c \in Contexts, EndTurn(c) PROVE TurnInv'
  <2>0. Turns(c) /\ Runs(c) /\ (op[c].kind = "close" => op[c].task # None) /\ stack' = stack
    BY <1>12 DEF EndTurn, In, Turns
  <2>1. CASE Leave(c)
    BY <1>10, <2>0, <2>1, Leaves
  <2>2. CASE op' = [op EXCEPT ![c].phase = "check", ![c].i = 1, ![c].any = FALSE,
                              ![c].more = FALSE]
    BY <1>4, <2>0, <2>2, TurnMoves
  <2> QED
    BY <1>12, <2>1, <2>2 DEF EndTurn
<1>13. ASSUME NEW c \in Contexts, RunTask(c) \/ Wake(c) PROVE TurnInv'
  <2>1. SameCall(c) /\ c \in ToSet(stack)
    BY <1>13, TurnMoves, Acting DEF RunTask, Wake, In, Turns
  <2>2. PICK t \in Tasks : t \notin ToSet(stack) /\ Resume(t)
    BY <1>13, RunsTask, Wakes
  <2> QED
    BY <1>3, <2>1, <2>2
<1>14. ASSUME NEW c \in Contexts, EndRun(c) PROVE TurnInv'
  <2>0. Runs(c) /\ op[c].kind # "none" /\ (op[c].kind = "close" => op[c].task # None)
        /\ op[c].phase = "run" /\ ToRun(c) = {}
        /\ UNCHANGED <<status, parked, stack>>
    BY <1>14 DEF EndRun, In, Turns, coros
  <2>1. /\ SameCall(c) /\ op'[c].phase = IF op[c].any THEN "reap" ELSE "poll"
        /\ op'[c].i = 1 /\ op'[c].any = op[c].any /\ op'[c].more = op[c].more
    BY <1>14, TurnMoves
  <2>2. ASSUME ~op[c].any PROVE TurnOf(c)'
    <3>1. op[c].i = 1 /\ ~op[c].more
      BY <1>C, <1>O, <2>0, <2>2 DEF TurnOf
    <3>2. ASSUME NEW t \in Tasks, status[t] = "live" PROVE parked[t] \/ OnStack(t)
      <4>1. t \in ToSet(tasks)
        BY <1>0, <3>2 DEF TrackInv, Alive
      <4>2. PICK n \in 1 .. Len(tasks) : tasks[n] = t
        BY <1>0, <4>1, SetOf DEF TypeOK
      <4>3. n \in op[c].i .. Len(tasks)
        BY <3>1
      <4>4. ~Runnable(t)
        BY <2>0, <4>2, <4>3 DEF ToRun
      <4> QED
        BY <3>2, <4>4 DEF Runnable
    <3>3. \A t \in Tasks : status'[t] = "live" => parked'[t] \/ OnStack(t)'
      BY <2>0, <3>2 DEF OnStack
    <3> QED
      BY <2>0, <2>1, <2>2, <3>1, <3>3 DEF TurnOf, SameCall
  <2> QED
    BY <1>C, <1>T, <2>0, <2>1, <2>2 DEF Current
<1>15. ASSUME NEW c \in Contexts, Poll(c) PROVE TurnInv'
  <2>0. Runs(c) /\ op[c].kind # "none" /\ (op[c].kind = "close" => op[c].task # None)
        /\ op[c].phase = "poll" /\ UNCHANGED <<status, parked, stack>>
    BY <1>15 DEF Poll, In, Turns, coros
  <2>1. PICK early \in SUBSET Waiting, found \in SUBSET Waiting :
          /\ parks' = [n \in 1 .. Len(parks) |->
                         IF n \in early \union found THEN Settle(parks[n], "io") ELSE parks[n]]
          /\ op' = [op EXCEPT ![c].phase = "wake", ![c].more = (Waiting # early)]
    BY <1>15 DEF Poll
  <2> DEFINE b == (Waiting # early)
  <2>2. b \in BOOLEAN
    OBVIOUS
  <2>3. /\ SameCall(c) /\ op'[c].phase = "wake" /\ op'[c].more = b
        /\ op'[c].i = op[c].i /\ op'[c].any = op[c].any
    BY ZenonT(30), <2>1, <2>2, TurnMoves
  <2>4. ASSUME early = Waiting PROVE Waiting' = {}
    <3>1. parks \in Seq(Park) /\ Len(parks) \in Nat
      BY <1>0 DEF TypeOK
    <3>2. Len(parks') = Len(parks)
      BY <2>1, <3>1
    <3>3. ASSUME NEW n \in 1 .. Len(parks), parks'[n].live PROVE parks'[n].done
      <4>1. parks[n] \in Park /\ "io" \in Outcomes
        BY <3>1 DEF Outcomes
      <4>2. /\ Settle(parks[n], "io").live = parks[n].live
            /\ parks[n].live => Settle(parks[n], "io").done
        BY <4>1, ParkTypes
      <4>3. CASE n \in Waiting
        <5>1. parks'[n] = Settle(parks[n], "io")
          BY <2>1, <2>4, <4>3
        <5> QED
          BY <3>3, <4>2, <5>1
      <4>4. CASE n \notin Waiting
        <5>1. parks'[n] = parks[n]
          BY <2>1, <4>4
        <5> QED
          BY <3>3, <4>4, <5>1 DEF Waiting
      <4> QED
        BY <4>3, <4>4
    <3> QED
      BY <3>2, <3>3 DEF Waiting
  <2>5. ASSUME ~op[c].any PROVE TurnOf(c)'
    <3>1. TurnOf(c)
      BY <1>C, <1>O, <2>0, <2>5
    <3>2. \A t \in Tasks : status'[t] = "live" => parked'[t] \/ OnStack(t)'
      BY <2>0, <3>1 DEF TurnOf, OnStack
    <3>3. op[c].i = 1
      BY <2>0, <3>1 DEF TurnOf
    <3> QED
      BY <2>0, <2>3, <2>4, <3>2, <3>3 DEF TurnOf, SameCall
  <2> QED
    BY <1>C, <1>T, <2>0, <2>3, <2>5 DEF Current
<1>16. ASSUME NEW c \in Contexts, EndWake(c) PROVE TurnInv'
  <2>0. Runs(c) /\ op[c].kind # "none" /\ (op[c].kind = "close" => op[c].task # None)
        /\ op[c].phase = "wake" /\ ToWake(c) = {}
        /\ UNCHANGED <<status, home, held, tasks, parked, parks, stack>>
    BY <1>16 DEF EndWake, In, Turns, coros
  <2>1. /\ SameCall(c) /\ op'[c].phase = "reap" /\ op'[c].i = 1
        /\ op'[c].any = op[c].any /\ op'[c].more = op[c].more
    BY <1>16, TurnMoves
  <2>2. ASSUME ~op[c].any PROVE TurnOf(c)'
    <3>1. TurnOf(c)
      BY <1>C, <1>O, <2>0, <2>2
    <3>2. \A t \in Tasks : status'[t] = "live" => parked'[t] \/ OnStack(t)'
      BY <2>0, <3>1 DEF TurnOf, OnStack
    <3>3. ASSUME ~op[c].more, NEW n \in 1 .. Len(parks) PROVE ~parks[n].live
      <4>1. Waiting = {} /\ op[c].i = 1
        BY <2>0, <3>1, <3>3 DEF TurnOf
      <4>2. n \in op[c].i .. Len(parks)
        BY <4>1
      <4> QED
        BY <2>0, <4>1, <4>2 DEF Waiting, ToWake
    <3>4. \A n \in 1 .. Len(tasks') : ~(n < 1)
      OBVIOUS
    <3> QED
      BY <2>0, <2>1, <3>2, <3>3, <3>4 DEF TurnOf, SameCall
  <2> QED
    BY <1>C, <1>T, <2>0, <2>1, <2>2 DEF Current
<1>17. ASSUME NEW c \in Contexts, Reap(c) PROVE TurnInv'
  <2>0. Runs(c) /\ op[c].kind # "none" /\ (op[c].kind = "close" => op[c].task # None)
        /\ op[c].phase = "reap" /\ ToReap(c) # {}
        /\ UNCHANGED <<parked, parks, stack>>
    BY <1>17 DEF Reap, In, Turns
  <2>1. PICK t \in Tasks, n \in 1 .. Len(tasks) :
          n = Min(ToReap(c)) /\ t = tasks[n] /\ TaskClose(t) /\ status[t] = "finished"
    BY <1>17, Reaps
  <2>2. op' = [op EXCEPT ![c].i = n] /\ n \in Nat \ {0}
    BY <1>17, <2>1 DEF Reap
  <2>3. /\ SameCall(c) /\ op'[c].phase = op[c].phase /\ op'[c].i = n
        /\ op'[c].any = op[c].any /\ op'[c].more = op[c].more
    BY <2>2, TurnMoves
  <2>F. /\ \A u \in Tasks : status'[u] = IF u = t THEN "freed" ELSE status[u]
        /\ \A u \in Tasks : home'[u] = IF u = t THEN None ELSE home[u]
        /\ \A u \in Tasks : held'[u] = IF u = t THEN FALSE ELSE held[u]
    BY <1>0, <2>1, Freed
  <2>T. tasks \in Seq(Tasks) /\ IsInjective(tasks) /\ Len(tasks) \in Nat
    BY <1>0 DEF TypeOK, TrackInv
  <2>4. /\ \A k \in 1 .. Len(tasks') : k < n => tasks'[k] = tasks[k]
        /\ Len(tasks') <= Len(tasks)
    BY <2>1, <2>T, Forgotten DEF TaskClose
  <2>5. ASSUME ~op[c].any PROVE TurnOf(c)'
    <3>1. TurnOf(c)
      BY <1>C, <1>O, <2>0, <2>5
    <3>2. \A u \in Tasks : status'[u] = "live" => parked'[u] \/ OnStack(u)'
      BY <2>0, <2>F, <3>1 DEF TurnOf, OnStack
    <3>3. ASSUME NEW k \in 1 .. Len(tasks'), k < n
          PROVE  home'[tasks'[k]] = None \/ status'[tasks'[k]] # "finished" \/ held'[tasks'[k]]
      <4>1. k \in 1 .. Len(tasks) /\ tasks'[k] = tasks[k] /\ tasks[k] \in Tasks
        BY <2>4, <2>T, <3>3
      <4>2. tasks[k] # t
        BY <2>1, <2>T, <3>3, <4>1 DEF IsInjective
      <4>3. home[tasks[k]] = None \/ status[tasks[k]] # "finished" \/ held[tasks[k]]
        <5>1. CASE k < op[c].i
          BY <2>0, <3>1, <4>1, <5>1 DEF TurnOf
        <5>2. CASE ~(k < op[c].i)
          <6>1. op[c].i \in Nat
            BY <1>0 DEF TypeOK, Op
          <6>2. k \in op[c].i .. Len(tasks)
            BY <4>1, <5>2, <6>1, <2>T
          <6>3. k \notin ToReap(c)
            BY <2>0, <2>1, <3>3, Picked
          <6> QED
            BY <6>2, <6>3 DEF ToReap
        <5> QED
          BY <5>1, <5>2
      <4> QED
        BY <2>F, <4>1, <4>2, <4>3
    <3>4. ~op[c].more => \A m \in 1 .. Len(parks') : ~parks'[m].live
      BY <2>0, <3>1 DEF TurnOf
    <3> QED
      BY <2>0, <2>3, <3>2, <3>3, <3>4 DEF TurnOf, SameCall
  <2> QED
    BY <1>C, <1>T, <2>0, <2>3, <2>5 DEF Current
<1>18. CASE LoopClose
  BY <1>1, <1>18 DEF LoopClose, Calls, Contexts
<1>19. CASE UNCHANGED vars
  BY <1>0, <1>19
  DEF vars, coros, sets, TurnInv, TurnOf, OnStack, Waiting
<1> QED
  BY <1>5, <1>6, <1>7, <1>8, <1>9, <1>11, <1>12, <1>13, <1>14, <1>15, <1>16, <1>17, <1>18, <1>19
  DEF Next, Own, Turn

-----------------------------------------------------------------------------
(* The invariant, and what it says                                         *)

\* The loop begins as the invariant says.
LEMMA LoopInitially == Init => LoopInv
<1> SUFFICES ASSUME Init PROVE LoopInv
  OBVIOUS
<1>M. Main \in Contexts /\ <<Main>> \in Seq(Contexts)
  BY DEF Contexts
<1>0. /\ parks = <<>> /\ tasks = <<>> /\ stack = <<Main>>
      /\ Len(parks) = 0 /\ Len(tasks) = 0 /\ Len(stack) = 1 /\ Current = Main
  BY DEF Init, Current, Last
<1>1. TypeOK
  <2>1. /\ status \in [Tasks -> {"unborn", "live", "finished", "freed"}]
        /\ owner \in [Tasks -> Contexts \union {None}]
        /\ home \in [Tasks -> Sets \union {None}]
        /\ parked \in [Tasks -> BOOLEAN]
        /\ canceled \in [Tasks -> BOOLEAN]
        /\ held \in [Tasks -> BOOLEAN]
    BY DEF Init
  <2>2. /\ keeper \in [Sets -> Contexts \union {None}]
        /\ members \in [Sets -> Seq(Tasks)]
        /\ departed \in [Sets -> Nat]
    BY DEF Init
  <2>3. op \in [Contexts -> Op]
    BY OpTypes DEF Init
  <2>4. tasks \in Seq(Tasks) /\ parks \in Seq(Park) /\ stack \in Seq(Contexts)
    BY <1>M, <1>0
  <2>5. answer \in Outcomes \union {"none"} /\ closed \in BOOLEAN
    BY DEF Init
  <2> QED
    BY <2>1, <2>2, <2>3, <2>4, <2>5 DEF TypeOK
<1>2. CancelArrives /\ SettledInv
  BY <1>0 DEF CancelArrives, SettledInv
<1>3. ToSet(stack) = {Main} /\ IsInjective(stack) /\ stack # <<>>
  BY <1>0 DEF ToSet, IsInjective
<1>4. StackInv
  BY <1>3, ContextsAssumption DEF StackInv, OnStack, Contexts
<1>5. WorkerInv
  BY DEF Init, WorkerInv
<1>6. ToSet(<<>>) = {} /\ IsInjective(<<>>)
  BY DEF ToSet, IsInjective
<1>7. Alive = {}
  BY DEF Init, Alive
<1>8. TrackInv
  BY <1>0, <1>6, <1>7 DEF Init, TrackInv
<1>9. ParkInv
  BY <1>0 DEF Init, ParkInv
<1>10. \A c \in Contexts : op[c].kind = "none"
  BY DEF Init, NoOp
<1>11. CallInv
  BY <1>0, <1>3, <1>10 DEF CallInv, CallOf, BelowInv
<1>12. TurnInv
  BY <1>10 DEF TurnInv
<1> QED
  BY <1>1, <1>2, <1>4, <1>5, <1>8, <1>9, <1>11, <1>12 DEF LoopInv

\* Nobody moves on a stack that was freed.
LEMMA Stopped == ~Intact /\ [Next]_vars => UNCHANGED vars /\ ~Intact'
<1> SUFFICES ASSUME ~Intact, [Next]_vars PROVE UNCHANGED vars /\ ~Intact'
  OBVIOUS
<1>1. \A c \in Contexts \union Tasks : ~Runs(c) /\ ~Calls(c) /\ ~Turns(c)
  BY DEF Runs, Calls, Turns
<1>2. \A c \in Contexts : ~Own(c)
  BY <1>1 DEF Own, Async, TaskSetNew, Spawn, Await, Cancel, Deinit, WaitOne, TaskSetClose
<1>3. \A c \in Contexts : ~Turn(c)
  BY <1>1 DEF Turn, NextMember, In, Check, RunTask, EndRun, Poll, Wake, EndWake, Reap, EndTurn
<1>4. \A t \in Tasks : ~ParkIo(t) /\ ~Suspend(t) /\ ~Finish(t)
  BY <1>1 DEF ParkIo, Suspend, Finish
<1>5. ~LoopClose
  BY <1>1 DEF LoopClose, Contexts
<1>6. UNCHANGED vars
  BY <1>2, <1>3, <1>4, <1>5 DEF Next
<1> QED
  BY <1>6 DEF Intact, OnStack, vars, coros

\* Every step of the loop keeps the invariant.
LEMMA LoopStep == LoopInv /\ [Next]_vars => LoopInv'
<1> SUFFICES ASSUME LoopInv, [Next]_vars PROVE LoopInv'
  OBVIOUS
<1>1. TypeOK' /\ CancelArrives' /\ SettledInv'
  BY LoopTypeStep, SettleStep
<1>2. CASE Intact
  <2>1. WorkerInv' /\ TrackInv' /\ ParkInv' /\ CallInv' /\ TurnInv'
    BY <1>2, WorkerStep, TrackStep, ParkStep, CallStep, TurnStep
  <2>2. Intact' => StackInv'
    BY <1>2, StackStep
  <2> QED
    BY <1>1, <2>1, <2>2 DEF LoopInv
<1>3. CASE ~Intact
  BY <1>1, <1>3, Stopped DEF LoopInv
<1> QED
  BY <1>2, <1>3

\* Every state of the event loop satisfies the invariant.
THEOREM LoopInvariance == Spec => []LoopInv
<1>1. Init => LoopInv
  BY LoopInitially
<1>2. LoopInv /\ [Next]_vars => LoopInv'
  BY LoopStep
<1> QED
  BY <1>1, <1>2, PTL DEF Spec

\* kizu_loop_settle in a cancel: no worker is canceled and left to wait for a
\* descriptor that may never be ready.
THEOREM CancelsArrive == Spec => []CancelArrives
<1>1. LoopInv => CancelArrives
  BY DEF LoopInv
<1> QED
  BY <1>1, LoopInvariance, PTL

\* kizu_loop_park_io behind its suspend: a wait is resumed with what its
\* descriptor or deadline answered, and with Canceled once the worker is.
THEOREM WaitsAreAnswered == Spec => WaitsAnswered
<1> DEFINE P == \A t \in Tasks : (parked[t] /\ ~parked'[t]) =>
                   /\ answer' # "retry"
                   /\ canceled[t] => answer' = "canceled"
<1>1. LoopInv /\ [Next]_vars => P
  <2> SUFFICES ASSUME LoopInv, [Next]_vars, NEW t \in Tasks, parked[t], ~parked'[t]
               PROVE  /\ answer' # "retry"
                      /\ canceled[t] => answer' = "canceled"
    OBVIOUS
  <2>0. parked \in [Tasks -> BOOLEAN] /\ SettledInv
    BY DEF LoopInv, TypeOK
  <2>1. ~UNCHANGED parked
    OBVIOUS
  <2>2. \A c \in Contexts : ~Own(c)
    BY <2>1 DEF Own, Async, TaskSetNew, Spawn, Await, Cancel, Deinit, WaitOne, TaskSetClose
  <2>3. \A c \in Contexts : ~NextMember(c) /\ ~Check(c) /\ ~RunTask(c) /\ ~EndRun(c) /\ ~Poll(c)
                            /\ ~EndWake(c) /\ ~Reap(c) /\ ~EndTurn(c)
    BY <2>1 DEF NextMember, Check, RunTask, EndRun, Poll, EndWake, Reap, EndTurn
  <2>4. \A u \in Tasks : ~ParkIo(u) /\ ~Suspend(u) /\ ~Finish(u)
    BY <2>0, <2>1 DEF ParkIo, Suspend, Finish
  <2>5. ~LoopClose /\ ~UNCHANGED vars
    BY <2>1 DEF LoopClose, vars
  <2>6. PICK c \in Contexts : Wake(c)
    BY <2>2, <2>3, <2>4, <2>5 DEF Next, Turn
  <2>7. PICK u \in Tasks : \E n \in 1 .. Len(parks) :
          n = Min(ToWake(c)) /\ u = parks[n].coro /\ parks[n].live /\ parks[n].done
    BY <2>6, Wakes
  <2>8. PICK n \in 1 .. Len(parks) :
          n = Min(ToWake(c)) /\ u = parks[n].coro /\ parks[n].live /\ parks[n].done
    BY <2>7
  <2>9. parked' = [parked EXCEPT ![u] = FALSE] /\ answer' = Answer(parks[n])
    BY <2>6, <2>8 DEF Wake
  <2>10. t = u
    BY <2>0, <2>9
  <2>11. parks[n].outcome # "retry"
    BY <2>0, <2>8 DEF SettledInv
  <2> QED
    BY <2>8, <2>9, <2>10, <2>11 DEF Answer
<1> QED
  BY <1>1, LoopInvariance, PTL DEF Spec, WaitsAnswered

\* A step of another context leaves a call alone, and a call ends where a set is
\* closed, where its condition holds, or behind a turn that found a stall.
LEMMA CallsEnd ==
  ASSUME LoopInv, [Next]_vars, NEW c \in Contexts, op[c].kind # "none", op'[c].kind = "none"
  PROVE  \/ op[c].kind = "close"
         \/ Check(c) /\ Satisfied(c)
         \/ EndTurn(c) /\ ~op[c].any /\ ~op[c].more
<1> SUFFICES ASSUME op[c].kind # "close", ~(Check(c) /\ Satisfied(c)),
                    ~(EndTurn(c) /\ ~op[c].any /\ ~op[c].more)
             PROVE  FALSE
  OBVIOUS
<1>0. op \in [Contexts -> Op] /\ op'[c] # op[c]
  BY DEF LoopInv, TypeOK
<1>1. ASSUME NEW d \in Contexts, SameCall(d) PROVE FALSE
  BY <1>0, <1>1 DEF SameCall
<1>2. ASSUME NEW d \in Contexts, d # c, Left(d) PROVE FALSE
  BY <1>0, <1>2 DEF Left
<1>3. ASSUME NEW d \in Contexts, d # c, In(d, op[d].phase), Leave(d) PROVE FALSE
  BY <1>2, <1>3, Leaves DEF In
<1>4. ASSUME NEW d \in Contexts, Own(d) PROVE FALSE
  <2>1. op'[d] # op[d] \/ op' # op => \A e \in Contexts : e # d => op'[e] = op[e]
    BY <1>0, <1>4 DEF Own, Async, TaskSetNew, Spawn, Await, Cancel, Deinit, WaitOne, TaskSetClose,
       Begin
  <2>2. op[d].kind = "none"
    BY <1>4 DEF Own, Async, TaskSetNew, Spawn, Await, Cancel, Deinit, WaitOne, TaskSetClose, Calls
  <2> QED
    BY <1>0, <2>1, <2>2
<1>5. ASSUME NEW d \in Contexts, NextMember(d) PROVE FALSE
  <2>1. op[d].kind = "close"
    BY <1>5 DEF NextMember
  <2>2. \A e \in Contexts : e # d => op'[e] = op[e]
    BY <1>0, <1>5 DEF NextMember
  <2> QED
    BY <1>0, <2>1, <2>2
<1>6. ASSUME NEW d \in Contexts, Check(d) PROVE FALSE
  <2>1. CASE ~Satisfied(d)
    BY <1>1, <1>6, <2>1, TurnMoves DEF Check
  <2>2. CASE Satisfied(d)
    <3>1. In(d, op[d].phase) /\ Leave(d)
      BY <1>6, <2>2 DEF Check, In
    <3> QED
      BY <1>3, <1>6, <2>2, <3>1
  <2> QED
    BY <2>1, <2>2
<1>7. ASSUME NEW d \in Contexts, RunTask(d) \/ EndRun(d) \/ Wake(d) \/ EndWake(d) PROVE FALSE
  BY <1>1, <1>7, TurnMoves
<1>8. ASSUME NEW d \in Contexts, Poll(d) PROVE FALSE
  <2>1. \E b \in BOOLEAN : op' = [op EXCEPT ![d].phase = "wake", ![d].more = b]
    BY <1>8 DEF Poll
  <2> QED
    BY <1>1, <2>1, TurnMoves
<1>9. ASSUME NEW d \in Contexts, Reap(d) PROVE FALSE
  <2>1. Runs(d) /\ ToReap(d) # {} /\ op' = [op EXCEPT ![d].i = Min(ToReap(d))]
    BY <1>9 DEF Reap, In, Turns
  <2>2. Min(ToReap(d)) \in Nat \ {0}
    BY <2>1, Picked
  <2> QED
    BY <1>1, <2>1, <2>2, TurnMoves
<1>10. ASSUME NEW d \in Contexts, EndTurn(d) PROVE FALSE
  <2>1. CASE op[d].any \/ op[d].more
    BY <1>1, <1>10, <2>1, TurnMoves DEF EndTurn
  <2>2. CASE ~(op[d].any \/ op[d].more)
    <3>1. In(d, op[d].phase) /\ Leave(d)
      BY <1>10, <2>2 DEF EndTurn, In
    <3> QED
      BY <1>3, <1>10, <2>2, <3>1
  <2> QED
    BY <2>1, <2>2
<1>11. \A t \in Tasks : ~ParkIo(t) /\ ~Suspend(t) /\ ~Finish(t)
  BY <1>0 DEF ParkIo, Suspend, Finish
<1>12. ~LoopClose /\ ~UNCHANGED vars
  BY <1>0 DEF LoopClose, vars
<1> QED
  BY <1>4, <1>5, <1>6, <1>7, <1>8, <1>9, <1>10, <1>11, <1>12 DEF Next, Turn

\* Behind a stalled turn whoever is live stands on the stack, and a finished
\* worker of the set would have been reaped.
LEMMA Stalled ==
  ASSUME LoopInv, NEW c \in Contexts, EndTurn(c), ~op[c].any, ~op[c].more
  PROVE  /\ \A t \in Tasks : status[t] = "live" => OnStack(t)
         /\ op[c].kind = "wait" => \A t \in ToSet(members[op[c].set]) : OnStack(t)
<1>1. Runs(c) /\ op[c].kind # "none" /\ op[c].phase = "reap" /\ ToReap(c) = {}
  BY DEF EndTurn, In, Turns
<1>2. TypeOK /\ WorkerInv /\ TrackInv /\ ParkInv /\ CallInv /\ TurnOf(c)
  BY <1>1, Acting DEF Agree, TurnInv
<1>3. \A t \in Tasks : ~parked[t]
  BY <1>1, <1>2 DEF TurnOf, ParkInv
<1>4. \A t \in Tasks : status[t] = "live" => OnStack(t)
  BY <1>1, <1>2, <1>3 DEF TurnOf
<1>5. ASSUME op[c].kind = "wait", NEW t \in ToSet(members[op[c].set]), ~OnStack(t) PROVE FALSE
  <2> DEFINE s == op[c].set
  <2>1. s \in Sets /\ keeper[s] = c
    BY <1>2, <1>5 DEF CallInv, CallOf
  <2>2. t \in Alive /\ home[t] = s
    BY <1>2, <1>5, <2>1 DEF TrackInv
  <2>3. t \in Tasks /\ status[t] = "finished"
    BY <1>4, <1>5, <2>2 DEF Alive
  <2>4. home[t] # None
    BY <2>1, <2>2, ContextsAssumption
  <2>5. PICK n \in 1 .. Len(tasks) : tasks[n] = t
    BY <1>2, <2>2, SetOf DEF TrackInv, TypeOK
  <2>6. held[t]
    <3>1. CASE n < op[c].i
      BY <1>1, <1>2, <2>3, <2>4, <2>5, <3>1 DEF TurnOf
    <3>2. CASE ~(n < op[c].i)
      <4>1. op[c].i \in Nat \ {0} /\ Len(tasks) \in Nat
        BY <1>2 DEF TypeOK, Op
      <4>2. n \in op[c].i .. Len(tasks)
        BY <3>2, <4>1
      <4> QED
        BY <1>1, <2>3, <2>4, <2>5, <4>2 DEF ToReap
    <3> QED
      BY <3>1, <3>2
  <2>7. PICK d \in Contexts : op[d].kind = "close" /\ op[d].task = t
    BY <1>2, <2>3, <2>6 DEF WorkerInv
  <2>8. t # None
    BY <2>3, ContextsAssumption DEF Contexts
  <2>9. home[t] = op[d].set /\ keeper[op[d].set] = d
    BY <1>2, <2>7, <2>8 DEF CallInv, CallOf
  <2>10. d = c
    BY <2>1, <2>2, <2>9
  <2> QED
    BY <1>5, <2>7, <2>10
<1> QED
  BY <1>4, <1>5

\* kizu_loop_turn that neither ran nor woke anything and has nothing to poll:
\* await, cancel, Future.deinit and wait_one come back without the worker only
\* where the worker itself, or each worker of the set, called them.
THEOREM GivesUpBelow == Spec => GivesUpOnlyBelow
<1> DEFINE P == \A c \in Contexts :
                  (op[c].kind # "none" /\ op'[c].kind = "none") =>
                    CASE op[c].kind \in {"await", "cancel", "deinit"} ->
                           status[op[c].task] = "finished" \/ OnStack(op[c].task)
                      [] op[c].kind = "wait" ->
                           Satisfied(c) \/ \A t \in ToSet(members[op[c].set]) : OnStack(t)
                      [] OTHER -> TRUE
<1>1. LoopInv /\ [Next]_vars => P
  <2> SUFFICES ASSUME LoopInv, [Next]_vars, NEW c \in Contexts,
                      op[c].kind # "none", op'[c].kind = "none"
               PROVE  /\ op[c].kind \in {"await", "cancel", "deinit"} =>
                           status[op[c].task] = "finished" \/ OnStack(op[c].task)
                      /\ op[c].kind = "wait" =>
                           Satisfied(c) \/ \A t \in ToSet(members[op[c].set]) : OnStack(t)
    OBVIOUS
  <2>1. CASE op[c].kind = "close"
    BY <2>1
  <2>2. ASSUME op[c].kind # "close", Runs(c) PROVE
          op[c].kind \in {"await", "cancel", "deinit"} =>
            op[c].task \in Tasks /\ status[op[c].task] \in {"live", "finished"}
    <3>1. WorkerInv /\ CallInv
      BY <2>2, Acting DEF Agree
    <3> QED
      BY <3>1, ContextsAssumption DEF WorkerInv, CallInv, CallOf, Alive
  <2>3. CASE Check(c) /\ Satisfied(c) /\ op[c].kind # "close"
    <3>1. Runs(c)
      BY <2>3 DEF Check, In, Turns
    <3> QED
      BY <2>2, <2>3, <3>1 DEF Satisfied
  <2>4. CASE EndTurn(c) /\ ~op[c].any /\ ~op[c].more /\ op[c].kind # "close"
    <3>1. Runs(c)
      BY <2>4 DEF EndTurn, In, Turns
    <3> QED
      BY <2>2, <2>4, <3>1, Stalled
  <2> QED
    BY <2>1, <2>3, <2>4, CallsEnd
<1> QED
  BY <1>1, LoopInvariance, PTL DEF Spec, GivesUpOnlyBelow

-----------------------------------------------------------------------------
(* Who started whom                                                        *)

\* The context that has the worker's Future, or made its TaskSet.
Parent(t) == IF owner[t] # None THEN owner[t] ELSE keeper[home[t]]

\* The workers that are not freed hang below Main: each has a parent, one that
\* has not returned, and no set of them is its own parent.
TreeInv ==
  /\ \A t \in Alive : owner[t] # None \/ (home[t] # None /\ keeper[home[t]] # None)
  /\ \A t \in Tasks : status[t] # "live" => Futures(t) = {} /\ Kept(t) = {}
  /\ \A W \in SUBSET Alive : W # {} => \E t \in W : Parent(t) \notin W
  /\ closed => Futures(Main) = {} /\ Kept(Main) = {}

\* Whoever is not freed has a parent that is Main or lives.
LEMMA Parents ==
  ASSUME LoopInv, TreeInv, NEW t \in Alive
  PROVE  /\ Parent(t) \in Contexts
         /\ Parent(t) \in Tasks => status[Parent(t)] = "live"
         /\ Parent(t) = Main => Futures(Main) # {} \/ Kept(Main) # {}
<1>1. TypeOK /\ t \in Tasks
  BY DEF LoopInv, Alive
<1>2. CASE owner[t] # None
  <2>1. Parent(t) = owner[t] /\ owner[t] \in Contexts /\ t \in Futures(owner[t])
    BY <1>1, <1>2 DEF Parent, TypeOK, Futures
  <2> QED
    BY <2>1 DEF TreeInv
<1>3. CASE owner[t] = None
  <2>1. home[t] \in Sets /\ keeper[home[t]] \in Contexts
    BY <1>1, <1>3 DEF TreeInv, TypeOK
  <2>2. Parent(t) = keeper[home[t]] /\ home[t] \in Kept(keeper[home[t]])
    BY <1>3, <2>1 DEF Parent, Kept
  <2> QED
    BY <2>1, <2>2 DEF TreeInv
<1> QED
  BY <1>2, <1>3

\* Once nothing is Main's, nobody is left: a set of workers that are not freed
\* would have a parent outside of it.
LEMMA NobodyLeft ==
  ASSUME LoopInv, Intact, TreeInv, closed
  PROVE  tasks = <<>>
<1>1. TypeOK /\ ToSet(tasks) = Alive
  BY DEF LoopInv, TrackInv
<1>2. ASSUME NEW t \in Alive, Parent(t) \notin Alive PROVE FALSE
  <2>1. Parent(t) = Main
    BY <1>2, Parents DEF Contexts, Alive
  <2> QED
    BY <2>1, Parents DEF TreeInv
<1>3. Alive = {}
  BY <1>2 DEF TreeInv
<1>4. tasks # <<>> => Last(tasks) \in ToSet(tasks)
  BY <1>1, LastOf DEF TypeOK
<1> QED
  BY <1>1, <1>3, <1>4

\* A step that starts nobody: those who stay keep their parents.
LEMMA TreeShrinks ==
  ASSUME LoopInv, TreeInv, Alive' \subseteq Alive,
         \A t \in Alive' : /\ owner'[t] = owner[t] /\ home'[t] = home[t]
                           /\ keeper'[home[t]] = keeper[home[t]],
         \A t \in Tasks : status'[t] # "live" => Futures(t)' = {} /\ Kept(t)' = {},
         closed' => Futures(Main)' = {} /\ Kept(Main)' = {}
  PROVE  TreeInv'
<1>1. \A t \in Alive' : Parent(t)' = Parent(t)
  BY DEF Parent
<1>2. \A t \in Alive' : owner'[t] # None \/ (home'[t] # None /\ keeper'[home'[t]] # None)
  BY DEF TreeInv
<1>3. ASSUME NEW W \in SUBSET Alive', W # {} PROVE \E t \in W : Parent(t)' \notin W
  <2>1. PICK t \in W : Parent(t) \notin W
    BY <1>3 DEF TreeInv
  <2> QED
    BY <1>1, <2>1
<1> QED
  BY <1>2, <1>3 DEF TreeInv

\* A step that leaves workers, their parents and the Loop alone.
LEMMA TreeKept ==
  ASSUME TreeInv, UNCHANGED <<status, owner, home, keeper, closed>>
  PROVE  TreeInv'
<1>1. /\ Alive' = Alive
      /\ \A t \in Tasks : Parent(t)' = Parent(t)
      /\ \A c \in Contexts : Futures(c)' = Futures(c) /\ Kept(c)' = Kept(c)
  BY DEF Alive, Parent, Futures, Kept
<1>2. Alive \subseteq Tasks /\ Main \in Contexts /\ Tasks \subseteq Contexts
  BY DEF Alive, Contexts
<1>3. ASSUME NEW W \in SUBSET Alive', W # {} PROVE \E t \in W : Parent(t)' \notin W
  <2>1. PICK t \in W : Parent(t) \notin W
    BY <1>1, <1>3 DEF TreeInv
  <2> QED
    BY <1>1, <1>2, <2>1
<1> QED
  BY <1>1, <1>2, <1>3 DEF TreeInv

\* Freeing a worker that has finished.
LEMMA TreeFreed ==
  ASSUME LoopInv, Intact, TreeInv, NEW t \in Tasks, TaskClose(t), status[t] = "finished",
         UNCHANGED <<keeper, closed>>
  PROVE  TreeInv'
<1>1. TypeOK /\ TrackInv
  BY DEF LoopInv
<1>2. /\ \A u \in Tasks : status'[u] = IF u = t THEN "freed" ELSE status[u]
      /\ \A u \in Tasks : owner'[u] = IF u = t THEN None ELSE owner[u]
      /\ \A u \in Tasks : home'[u] = IF u = t THEN None ELSE home[u]
  BY <1>1, Freed
<1>3. Alive' \subseteq Alive
  BY <1>2 DEF Alive
<1>4. \A u \in Alive' : /\ owner'[u] = owner[u] /\ home'[u] = home[u]
                        /\ keeper'[home[u]] = keeper[home[u]]
  BY <1>2 DEF Alive
<1>5. \A c \in Contexts : Futures(c)' \subseteq Futures(c) /\ Kept(c)' = Kept(c)
  BY <1>2, ContextsAssumption DEF Futures, Kept
<1>6. \A u \in Tasks : status'[u] # "live" => Futures(u)' = {} /\ Kept(u)' = {}
  BY <1>2, <1>5 DEF TreeInv, Contexts
<1>7. closed' => Futures(Main)' = {} /\ Kept(Main)' = {}
  BY <1>5 DEF TreeInv, Contexts
<1> QED
  BY <1>3, <1>4, <1>6, <1>7, TreeShrinks

\* A new worker has no child, so it closes no circle.
LEMMA TreeGrows ==
  ASSUME LoopInv, Intact, TreeInv, NEW c \in Contexts, Calls(c),
         NEW t \in Tasks, status[t] = "unborn", status' = [status EXCEPT ![t] = "live"],
         \A u \in Tasks \ {t} : owner'[u] = owner[u] /\ home'[u] = home[u],
         \/ owner'[t] = c
         \/ owner'[t] = None /\ home'[t] \in Sets /\ keeper[home'[t]] = c,
         UNCHANGED <<keeper, closed>>
  PROVE  TreeInv'
<1>1. TypeOK /\ StackInv /\ c \in ToSet(stack) /\ ~closed
  BY Acting DEF Calls, Agree
<1>2. c \in Tasks => status[c] = "live"
  BY <1>1 DEF StackInv, OnStack
<1>3. c # t /\ c # None
  BY <1>2, ContextsAssumption
<1>4. Alive' = Alive \union {t} /\ t \notin Alive
  BY <1>1 DEF TypeOK, Alive
<1>5. Parent(t)' = c /\ \A u \in Alive : Parent(u)' = Parent(u)
  BY <1>3, <1>4 DEF Parent, Alive
<1>6. \A u \in Alive : Parent(u) # t
  BY Parents
<1>7. \A u \in Alive' : owner'[u] # None \/ (home'[u] # None /\ keeper'[home'[u]] # None)
  BY <1>3, <1>4, ContextsAssumption DEF TreeInv, Alive
<1>8. ASSUME NEW u \in Tasks, status'[u] # "live" PROVE Futures(u)' = {} /\ Kept(u)' = {}
  <2>1. status[u] # "live" /\ u # t /\ u # c
    BY <1>1, <1>2, <1>8 DEF TypeOK
  <2>2. Futures(u) = {} /\ Kept(u) = {}
    BY <2>1 DEF TreeInv
  <2>3. owner'[t] # u
    BY <2>1, ContextsAssumption DEF Contexts
  <2> QED
    BY <2>2, <2>3 DEF Futures, Kept
<1>9. ASSUME NEW W \in SUBSET Alive', W # {} PROVE \E u \in W : Parent(u)' \notin W
  <2>1. CASE W = {t}
    BY <1>3, <1>5, <2>1
  <2>2. CASE W # {t}
    <3>1. W \ {t} \in SUBSET Alive /\ W \ {t} # {}
      BY <1>4, <1>9, <2>2
    <3>2. PICK u \in W \ {t} : Parent(u) \notin W \ {t}
      BY <3>1 DEF TreeInv
    <3>3. u \in Alive
      BY <3>1
    <3> QED
      BY <1>5, <1>6, <3>2, <3>3
  <2> QED
    BY <2>1, <2>2
<1> QED
  BY <1>1, <1>7, <1>8, <1>9 DEF TreeInv

\* A call gives its worker back where it has finished.  One that is given up
\* still stands on the stack, which is not intact behind it.
LEMMA TreeLeft ==
  ASSUME LoopInv, Intact', TreeInv, NEW c \in Contexts, Leave(c), UNCHANGED <<stack, closed>>,
         \/ Check(c) /\ Satisfied(c)
         \/ EndTurn(c) /\ ~op[c].any /\ ~op[c].more
  PROVE  TreeInv'
<1>1. Turns(c) /\ (op[c].kind = "close" => op[c].task # None)
  BY DEF Check, EndTurn, In
<1>2. Intact /\ TypeOK /\ TrackInv /\ WorkerInv
  BY <1>1, Acting DEF Turns, Agree
<1>3. ASSUME NEW t \in Tasks, t = op[c].task, op[c].kind \in {"deinit", "close"}, TaskClose(t),
             owner[t] # None \/ home[t] # None, UNCHANGED keeper
      PROVE  TreeInv'
  <2>1. t \in Alive
    BY <1>2, <1>3 DEF WorkerInv
  <2>2. CASE Satisfied(c)
    BY <1>2, <1>3, <2>1, <2>2, TreeFreed DEF Satisfied, Alive
  <2>3. CASE EndTurn(c) /\ ~op[c].any /\ ~op[c].more
    <3>1. status'[t] = "freed"
      BY <1>2, <1>3, Freed
    <3>2. ~OnStack(t)
      BY <3>1 DEF Intact, OnStack
    <3>3. status[t] # "live"
      BY <2>3, <3>2, Stalled
    <3> QED
      BY <1>2, <1>3, <2>1, <3>3, TreeFreed DEF Alive
  <2> QED
    BY <2>2, <2>3
<1>4. Left(c)
  BY <1>1, Leaves
<1>5. CASE UNCHANGED <<coros, tasks, sets>>
  BY <1>5, TreeKept DEF coros, sets
<1>6. c # None /\ None \notin Sets
  BY ContextsAssumption
<1> QED
  BY <1>3, <1>4, <1>5, <1>6 DEF Left, sets

\* Every step keeps the workers below Main.
LEMMA TreeStep == LoopInv /\ Intact /\ TreeInv /\ [Next]_vars /\ Intact' => TreeInv'
<1> SUFFICES ASSUME LoopInv, Intact, TreeInv, [Next]_vars, Intact' PROVE TreeInv'
  OBVIOUS
<1>0. TypeOK /\ TrackInv /\ WorkerInv /\ StackInv
  BY DEF LoopInv
<1>1. ASSUME NEW c \in Contexts, Async(c) PROVE TreeInv'
  <2>1. PICK t \in Tasks :
          /\ status[t] = "unborn"
          /\ status' = [status EXCEPT ![t] = "live"]
          /\ owner' = [owner EXCEPT ![t] = c]
    BY <1>1 DEF Async
  <2>2. Calls(c) /\ UNCHANGED <<home, keeper, closed>>
    BY <1>1 DEF Async, sets
  <2>3. owner'[t] = c /\ \A u \in Tasks \ {t} : owner'[u] = owner[u] /\ home'[u] = home[u]
    BY <1>0, <2>1, <2>2 DEF TypeOK
  <2> QED
    BY <2>1, <2>2, <2>3, TreeGrows
<1>2. ASSUME NEW c \in Contexts, Spawn(c) PROVE TreeInv'
  <2>1. PICK t \in Tasks, s \in Kept(c) :
          /\ status[t] = "unborn"
          /\ status' = [status EXCEPT ![t] = "live"]
          /\ home' = [home EXCEPT ![t] = s]
    BY <1>2 DEF Spawn
  <2>2. Calls(c) /\ UNCHANGED <<owner, keeper, closed>>
    BY <1>2 DEF Spawn
  <2>3. s \in Sets /\ keeper[s] = c
    BY DEF Kept
  <2>4. owner[t] = None
    BY <2>1, Unborn
  <2>5. home'[t] = s /\ owner'[t] = None
    BY <1>0, <2>1, <2>2, <2>4 DEF TypeOK
  <2>6. \A u \in Tasks \ {t} : owner'[u] = owner[u] /\ home'[u] = home[u]
    BY <1>0, <2>1, <2>2 DEF TypeOK
  <2>7. owner'[t] = None /\ home'[t] \in Sets /\ keeper[home'[t]] = c
    BY <2>3, <2>5
  <2>8. status[t] = "unborn" /\ status' = [status EXCEPT ![t] = "live"]
    BY <2>1
  <2> QED
    BY <2>2, <2>6, <2>7, <2>8, TreeGrows
<1>3. ASSUME NEW c \in Contexts, TaskSetNew(c) PROVE TreeInv'
  <2>1. PICK s \in Sets : keeper[s] = None /\ keeper' = [keeper EXCEPT ![s] = c]
    BY <1>3 DEF TaskSetNew
  <2>2. UNCHANGED <<status, owner, home, closed>> /\ ~closed /\ c \in ToSet(stack)
    BY <1>3, Acting DEF TaskSetNew, coros, Calls
  <2>3. Alive' = Alive /\ \A u \in Alive : home[u] # s \/ owner[u] # None
    BY <2>1, <2>2 DEF Alive, TreeInv
  <2>4. ASSUME NEW u \in Tasks, status'[u] # "live" PROVE Futures(u)' = {} /\ Kept(u)' = {}
    <3>1. u # c
      BY <1>0, <2>2, <2>4 DEF StackInv, OnStack
    <3>2. Futures(u) = {} /\ Kept(u) = {}
      BY <2>2, <2>4 DEF TreeInv
    <3> QED
      BY <1>0, <2>1, <2>2, <3>1, <3>2 DEF Futures, Kept, TypeOK
  <2>5. \A u \in Alive : home[u] # s
    BY <1>0, <2>3, ContextsAssumption DEF WorkerInv, Alive
  <2>6. \A u \in Alive : keeper'[home[u]] = keeper[home[u]]
    BY <1>0, <2>1, <2>5 DEF TypeOK
  <2> QED
    BY <2>2, <2>3, <2>4, <2>6, TreeShrinks
<1>4. ASSUME NEW t \in Tasks, Finish(t) PROVE TreeInv'
  <2>1. /\ Futures(t) = {} /\ Kept(t) = {}
        /\ status' = [status EXCEPT ![t] = "finished"]
        /\ UNCHANGED <<owner, home, keeper, closed>>
    BY <1>4 DEF Finish, sets
  <2>2. status[t] = "live" /\ ~closed
    BY <1>0, <1>4, Acting DEF Finish, Calls, Contexts, StackInv, OnStack
  <2>3. \A u \in Tasks : status'[u] = IF u = t THEN "finished" ELSE status[u]
    BY <1>0, <2>1 DEF TypeOK
  <2>4. Alive' = Alive
    BY <2>2, <2>3 DEF Alive
  <2>5. \A u \in Tasks : status'[u] # "live" => Futures(u)' = {} /\ Kept(u)' = {}
    BY <2>1, <2>3 DEF TreeInv, Futures, Kept
  <2> QED
    BY <2>1, <2>2, <2>4, <2>5, TreeShrinks
<1>5. ASSUME NEW c \in Contexts, Deinit(c) PROVE TreeInv'
  <2>1. PICK t \in Futures(c) : status[t] = "finished" /\ TaskClose(t)
    BY <1>5 DEF Deinit
  <2>2. t \in Tasks /\ UNCHANGED <<keeper, closed>>
    BY <1>5 DEF Deinit, Futures, sets
  <2> QED
    BY <2>1, <2>2, TreeFreed
<1>6. ASSUME NEW c \in Contexts, Reap(c) PROVE TreeInv'
  BY <1>6, Reaps, TreeFreed DEF Reap
<1>7. ASSUME NEW c \in Contexts, NextMember(c) PROVE TreeInv'
  <2>1. UNCHANGED <<status, owner, home, closed>>
    BY <1>7 DEF NextMember
  <2>2. CASE UNCHANGED keeper
    BY <2>1, <2>2, TreeKept
  <2>3. CASE ~UNCHANGED keeper
    <3> DEFINE s == op[c].set
    <3>1. s \in Sets /\ members[s] = <<>> /\ keeper' = [keeper EXCEPT ![s] = None]
      BY <1>7, <2>3, ClosesNext DEF NextMember
    <3>2. ToSet(members[s]) = {}
      BY <3>1 DEF ToSet
    <3>3. \A u \in Alive : home[u] # s
      BY <1>0, <3>1, <3>2 DEF TrackInv
    <3>4. Alive' = Alive /\ \A u \in Alive : keeper'[home[u]] = keeper[home[u]]
      BY <1>0, <2>1, <3>1, <3>3 DEF TypeOK, Alive
    <3>5. \A d \in Contexts : Futures(d)' = Futures(d) /\ Kept(d)' \subseteq Kept(d)
      BY <1>0, <2>1, <3>1, ContextsAssumption DEF Futures, Kept, TypeOK
    <3>6. \A u \in Tasks : status'[u] # "live" => Futures(u)' = {} /\ Kept(u)' = {}
      BY <2>1, <3>5 DEF TreeInv, Contexts
    <3>7. ~closed
      BY <1>7, Acting DEF NextMember, Turns
    <3> QED
      BY <2>1, <3>4, <3>6, <3>7, TreeShrinks
  <2> QED
    BY <2>2, <2>3
<1>8. ASSUME NEW c \in Contexts, Check(c) PROVE TreeInv'
  <2>1. CASE Satisfied(c)
    BY <1>8, <2>1, TreeLeft DEF Check
  <2>2. CASE ~Satisfied(c)
    BY <1>8, <2>2, TreeKept DEF Check, coros, sets
  <2> QED
    BY <2>1, <2>2
<1>9. ASSUME NEW c \in Contexts, EndTurn(c) PROVE TreeInv'
  <2>1. CASE op[c].any \/ op[c].more
    BY <1>9, <2>1, TreeKept DEF EndTurn, coros, sets
  <2>2. CASE ~(op[c].any \/ op[c].more)
    BY <1>9, <2>2, TreeLeft DEF EndTurn
  <2> QED
    BY <2>1, <2>2
<1>10. CASE LoopClose
  <2>1. /\ Futures(Main) = {} /\ Kept(Main) = {}
        /\ UNCHANGED <<status, owner, home, keeper>>
    BY <1>10 DEF LoopClose, coros, sets
  <2>2. \A d \in Contexts : Futures(d)' = Futures(d) /\ Kept(d)' = Kept(d)
    BY <2>1 DEF Futures, Kept
  <2>3. Alive' = Alive
    BY <2>1 DEF Alive
  <2>4. \A u \in Tasks : status'[u] # "live" => Futures(u)' = {} /\ Kept(u)' = {}
    BY <2>1, <2>2 DEF TreeInv, Contexts
  <2> QED
    BY <2>1, <2>2, <2>3, <2>4, TreeShrinks DEF Contexts
<1>11. ASSUME NEW c \in Contexts,
              \/ Await(c) \/ Cancel(c) \/ WaitOne(c) \/ TaskSetClose(c)
              \/ RunTask(c) \/ EndRun(c) \/ Poll(c) \/ Wake(c) \/ EndWake(c)
       PROVE  TreeInv'
  BY <1>11, TreeKept
  DEF Await, Cancel, WaitOne, TaskSetClose, RunTask, EndRun, Poll, Wake, EndWake, coros, sets
<1>12. ASSUME NEW t \in Tasks, ParkIo(t) \/ Suspend(t) PROVE TreeInv'
  BY <1>12, TreeKept DEF ParkIo, Suspend, coros, sets
<1>13. CASE UNCHANGED vars
  BY <1>13, TreeKept DEF vars, coros, sets
<1> QED
  BY <1>1, <1>2, <1>3, <1>4, <1>5, <1>6, <1>7, <1>8, <1>9, <1>10, <1>11, <1>12, <1>13
  DEF Next, Own, Turn

\* Every state of the event loop keeps its workers below Main.
THEOREM WorkersBelowMain == Spec => [](Intact => TreeInv)
<1>1. Init => (Intact => TreeInv)
  <2> SUFFICES ASSUME Init PROVE TreeInv
    OBVIOUS
  <2>1. Alive = {} /\ ~closed
    BY DEF Init, Alive
  <2>2. \A t \in Tasks : Futures(t) = {} /\ Kept(t) = {}
    BY ContextsAssumption DEF Init, Futures, Kept, Contexts
  <2> QED
    BY <2>1, <2>2 DEF TreeInv
<1>2. LoopInv /\ (Intact => TreeInv) /\ [Next]_vars => (Intact => TreeInv)'
  <2> SUFFICES ASSUME LoopInv, Intact => TreeInv, [Next]_vars, Intact' PROVE TreeInv'
    OBVIOUS
  <2>1. Intact
    BY Stopped
  <2> QED
    BY <2>1, TreeStep
<1> QED
  BY <1>1, <1>2, LoopInvariance, PTL DEF Spec

\* kizu_loop_forget, kizu_task_set_forget and the parks: whatever a nested turn
\* moves or frees, each worker that is not freed is in loop->tasks once, in the
\* table of its TaskSet, and in exactly one park while it waits.  The release of
\* the Loop finds none.
THEOREM TablesAlwaysAgree == Spec => []TablesAgree
<1>1. LoopInv /\ (Intact => TreeInv) => TablesAgree
  <2> SUFFICES ASSUME LoopInv, TreeInv, Intact
               PROVE  /\ closed => tasks = <<>>
                      /\ IsInjective(tasks) /\ ToSet(tasks) = Alive
                      /\ \A s \in Sets : /\ IsInjective(members[s])
                                       /\ ToSet(members[s]) = {t \in Alive : home[t] = s}
                      /\ \A t \in Tasks :
                           /\ Cardinality({n \in 1 .. Len(parks) :
                                             parks[n].live /\ parks[n].coro = t})
                                = IF parked[t] THEN 1 ELSE 0
                           /\ parked[t] => status[t] = "live" /\ ~OnStack(t)
    BY DEF TablesAgree
  <2>1. TrackInv /\ ParkInv
    BY DEF LoopInv
  <2>2. ASSUME NEW t \in Tasks
        PROVE  Cardinality({n \in 1 .. Len(parks) : parks[n].live /\ parks[n].coro = t})
                 = IF parked[t] THEN 1 ELSE 0
    <3> DEFINE W == {n \in 1 .. Len(parks) : parks[n].live /\ parks[n].coro = t}
    <3>1. CASE parked[t]
      <4>1. PICK n \in 1 .. Len(parks) : parks[n].live /\ parks[n].coro = t
        BY <2>1, <3>1 DEF ParkInv
      <4>2. W = {n}
        BY <2>1, <4>1 DEF ParkInv
      <4> QED
        BY <3>1, <4>2, FS_Singleton
    <3>2. CASE ~parked[t]
      <4>1. W = {}
        BY <2>1, <3>2 DEF ParkInv
      <4> QED
        BY <3>2, <4>1, FS_EmptySet
    <3> QED
      BY <3>1, <3>2
  <2> QED
    BY <2>1, <2>2, NobodyLeft DEF TrackInv, ParkInv
<1> QED
  BY <1>1, LoopInvariance, WorkersBelowMain, PTL

=============================================================================
