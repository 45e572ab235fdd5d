------------------------------ MODULE EventLoop ------------------------------
(***************************************************************************)
(* The event loop of the native runtime                                    *)
(* (src/internal/native/runtime/runtime.c, "Coroutines" and "An evented    *)
(* Io"), the mechanism under std::io's Loop, Future and TaskSet.           *)
(*                                                                         *)
(* There is one thread.  Whoever waits for a worker turns the loop from    *)
(* where it stands, and a turn resumes workers, which may wait for workers *)
(* of their own: the calls in progress form a stack, and only its top      *)
(* runs.  A step is what happens between two points where control passes   *)
(* from one stack to another or a loop of the runtime tests its condition. *)
(*                                                                         *)
(* The language decides who may call what: a Future and a TaskSet stay in  *)
(* the frame that made them, and that frame cannot return without          *)
(* releasing them.                                                         *)
(***************************************************************************)
EXTENDS Integers, Sequences, FiniteSets, SequencesExt

CONSTANTS
  Main,     \* the caller below every coroutine
  Tasks,    \* coroutines that may be started
  Sets,     \* TaskSets that may be opened
  None      \* no task, no set, no context

Contexts == Tasks \union {Main}

ASSUME ContextsAssumption ==
  /\ IsFiniteSet(Tasks)
  /\ Main \notin Tasks
  /\ None \notin Contexts \union Sets

VARIABLES
  status,    \* status[t]: unborn, live, finished (coro->finished), freed
  owner,     \* owner[t]: the context whose Future t is
  home,      \* home[t]: coro->task_set
  parked,    \* coro->parked
  canceled,  \* coro->canceled
  held,      \* coro->hold_reaping
  tasks,     \* loop->tasks
  parks,     \* loop->parks
  keeper,    \* keeper[s]: the context that made TaskSet s, None before and after
  members,   \* members[s]: tasks->tasks
  departed,  \* departed[s]: tasks->departed
  stack,     \* the resumed coroutines, Main first; the last one runs
  op,        \* op[c]: the runtime call that c turns the loop in
  answer,    \* what the wait that was just resumed answers, "none" after other steps
  closed     \* the Loop was released

coros == <<status, owner, home, canceled, held>>
sets == <<keeper, members, departed>>
vars == <<coros, parked, tasks, parks, sets, stack, op, answer, closed>>

\* "io" is what the descriptor or the deadline answered: ready, TimedOut or the
\* poll's own failure.  "retry" is the value a park starts with.
Outcomes == {"retry", "io", "canceled"}
Park == [coro : Tasks \union {None}, outcome : Outcomes, live : BOOLEAN, done : BOOLEAN]
NoPark == [coro |-> None, outcome |-> "retry", live |-> FALSE, done |-> FALSE]
Phases == {"check", "run", "poll", "wake", "reap"}

\* task and set: what the call is about.  i: where the present loop stands.
\* any: ran, then woke.  more: a park was polled.  seen: departed at the start.
Op == [kind : {"none", "await", "cancel", "deinit", "wait", "close"},
       task : Tasks \union {None}, set : Sets \union {None},
       phase : Phases, i : Nat \ {0}, any : BOOLEAN, more : BOOLEAN, seen : Nat]

NoOp == [kind |-> "none", task |-> None, set |-> None, phase |-> "check", i |-> 1,
         any |-> FALSE, more |-> FALSE, seen |-> 0]

TypeOK ==
  /\ status \in [Tasks -> {"unborn", "live", "finished", "freed"}]
  /\ owner \in [Tasks -> Contexts \union {None}]
  /\ home \in [Tasks -> Sets \union {None}]
  /\ parked \in [Tasks -> BOOLEAN]
  /\ canceled \in [Tasks -> BOOLEAN]
  /\ held \in [Tasks -> BOOLEAN]
  /\ tasks \in Seq(Tasks)
  /\ parks \in Seq(Park)
  /\ keeper \in [Sets -> Contexts \union {None}]
  /\ members \in [Sets -> Seq(Tasks)]
  /\ departed \in [Sets -> Nat]
  /\ stack \in Seq(Contexts)
  /\ op \in [Contexts -> Op]
  /\ answer \in Outcomes \union {"none"}
  /\ closed \in BOOLEAN

Init ==
  /\ status = [t \in Tasks |-> "unborn"]
  /\ owner = [t \in Tasks |-> None]
  /\ home = [t \in Tasks |-> None]
  /\ parked = [t \in Tasks |-> FALSE]
  /\ canceled = [t \in Tasks |-> FALSE]
  /\ held = [t \in Tasks |-> FALSE]
  /\ tasks = <<>>
  /\ parks = <<>>
  /\ keeper = [s \in Sets |-> None]
  /\ members = [s \in Sets |-> <<>>]
  /\ departed = [s \in Sets |-> 0]
  /\ stack = <<Main>>
  /\ op = [c \in Contexts |-> NoOp]
  /\ answer = "none"
  /\ closed = FALSE

\* The context that runs: kizu_coro_current.
Current == Last(stack)

OnStack(t) == t \in ToSet(stack)

\* Once the stack of a coroutine that is still in use has been freed the
\* program's behaviour is undefined, and the model stops.
Intact == \A t \in Tasks : OnStack(t) => status[t] # "freed"

Runs(c) == ~closed /\ Intact /\ Current = c

\* c runs code of its own, or is inside a runtime call.
Calls(c) == Runs(c) /\ op[c].kind = "none"
Turns(c) == Runs(c) /\ op[c].kind # "none"

Futures(c) == {t \in Tasks : owner[t] = c}
Kept(c) == {s \in Sets : keeper[s] = c}

\* No wait is resumed.
Quiet == answer' = "none"

Resume(t) == stack' = Append(stack, t)
Return == stack' = Front(stack)

\* Mutant: the last one is dropped, and not moved first.
ForgetLast(seq, t) == IF t \in ToSet(seq) THEN Front(seq) ELSE seq

\* kizu_loop_forget, kizu_task_set_forget: the last one takes its place.
Forget(seq, t) ==
  IF t \in ToSet(seq)
  THEN LET n == CHOOSE n \in 1 .. Len(seq) : seq[n] = t
       IN  Front([seq EXCEPT ![n] = Last(seq)])
  ELSE seq

-----------------------------------------------------------------------------
(* Parks                                                                   *)

\* kizu_loop_settle
Settle(p, outcome) ==
  IF p.live /\ ~p.done THEN [p EXCEPT !.outcome = outcome, !.done = TRUE] ELSE p

\* Mutant: the parks of a canceled task are left to their descriptors.
CanceledParksLeft(t) == parks

\* The parks once t is canceled.
CanceledParks(t) ==
  [n \in 1 .. Len(parks) |->
     IF parks[n].coro = t THEN Settle(parks[n], "canceled") ELSE parks[n]]

\* kizu_loop_claim_park: the first slot nobody waits in, or a new one.
Slot ==
  LET free == {n \in 1 .. Len(parks) : ~parks[n].live}
  IN  IF free = {} THEN Len(parks) + 1
                   ELSE Min(free)

\* A canceled task is told so instead of made to wait.
MayPark(t) == ~canceled[t]

\* kizu_loop_park_io up to the suspend.
ParkIo(t) ==
  /\ Calls(t)
  /\ MayPark(t)
  /\ LET p == [NoPark EXCEPT !.coro = t, !.live = TRUE]
     IN  parks' = IF Slot > Len(parks) THEN Append(parks, p)
                                       ELSE [parks EXCEPT ![Slot] = p]
  /\ parked' = [parked EXCEPT ![t] = TRUE]
  /\ Return
  /\ Quiet
  /\ UNCHANGED <<coros, tasks, sets, op, closed>>

\* std::coro::suspend in a worker: it stays runnable.
Suspend(t) ==
  /\ Calls(t)
  /\ Return
  /\ Quiet
  /\ UNCHANGED <<coros, parked, tasks, parks, sets, op, closed>>

\* The worker returns.  Its frame has released every Future and TaskSet.
Finish(t) ==
  /\ Calls(t)
  /\ Futures(t) = {} /\ Kept(t) = {}
  /\ status' = [status EXCEPT ![t] = "finished"]
  /\ Return
  /\ Quiet
  /\ UNCHANGED <<owner, home, canceled, held, parked, tasks, parks, sets, op, closed>>

-----------------------------------------------------------------------------
(* Starting workers, and the calls that wait for them                      *)

Begin(c, kind, t, s, seen) ==
  op' = [op EXCEPT ![c] = [NoOp EXCEPT !.kind = kind, !.task = t, !.set = s, !.seen = seen]]

\* task_new on an evented Io.
Async(c) ==
  /\ Calls(c)
  /\ \E t \in Tasks :
       /\ status[t] = "unborn"
       /\ status' = [status EXCEPT ![t] = "live"]
       /\ owner' = [owner EXCEPT ![t] = c]
       /\ tasks' = Append(tasks, t)
  /\ Quiet
  /\ UNCHANGED <<home, canceled, held, parked, parks, sets, stack, op, closed>>

\* task_set_new
TaskSetNew(c) ==
  /\ Calls(c)
  /\ \E s \in Sets :
       /\ keeper[s] = None /\ departed[s] = 0
       /\ keeper' = [keeper EXCEPT ![s] = c]
  /\ Quiet
  /\ UNCHANGED <<coros, parked, tasks, parks, members, departed, stack, op, closed>>

\* task_set_spawn on an evented Io.
Spawn(c) ==
  /\ Calls(c)
  /\ \E s \in Kept(c), t \in Tasks :
       /\ status[t] = "unborn"
       /\ status' = [status EXCEPT ![t] = "live"]
       /\ home' = [home EXCEPT ![t] = s]
       /\ tasks' = Append(tasks, t)
       /\ members' = [members EXCEPT ![s] = Append(@, t)]
  /\ Quiet
  /\ UNCHANGED <<owner, canceled, held, parked, parks, keeper, departed, stack, op, closed>>

\* task_await; a finished worker is not waited for.
Await(c) ==
  /\ Calls(c)
  /\ \E t \in Futures(c) :
       /\ status[t] = "live"
       /\ Begin(c, "await", t, None, 0)
  /\ Quiet
  /\ UNCHANGED <<coros, parked, tasks, parks, sets, stack, closed>>

\* kizu_task_cancel_one up to its loop: task_cancel, and Future.deinit.
Cancel(c) ==
  /\ Calls(c)
  /\ \E t \in Futures(c), kind \in {"cancel", "deinit"} :
       /\ status[t] = "live"
       /\ canceled' = [canceled EXCEPT ![t] = TRUE]
       /\ parks' = CanceledParks(t)
       /\ Begin(c, kind, t, None, 0)
  /\ Quiet
  /\ UNCHANGED <<status, owner, home, held, parked, tasks, sets, stack, closed>>

\* task_close: the record and the stack go back to the allocator.
TaskClose(t) ==
  /\ tasks' = Forget(tasks, t)
  /\ status' = [status EXCEPT ![t] = "freed"]
  /\ owner' = [owner EXCEPT ![t] = None]
  /\ home' = [home EXCEPT ![t] = None]
  /\ canceled' = [canceled EXCEPT ![t] = FALSE]
  /\ held' = [held EXCEPT ![t] = FALSE]

\* Future.deinit of a finished worker has nothing to cancel.
Deinit(c) ==
  /\ Calls(c)
  /\ \E t \in Futures(c) :
       /\ status[t] = "finished"
       /\ TaskClose(t)
  /\ Quiet
  /\ UNCHANGED <<parked, parks, sets, stack, op, closed>>

\* task_set_wait_one, up to its loop; a canceled caller does not wait.
WaitOne(c) ==
  /\ Calls(c)
  /\ c \in Tasks => ~canceled[c]
  /\ \E s \in Kept(c) :
       /\ members[s] # <<>>
       /\ Begin(c, "wait", None, s, departed[s])
  /\ Quiet
  /\ UNCHANGED <<coros, parked, tasks, parks, sets, stack, closed>>

\* hold_reaping while a TaskSet cancels one of its workers.
Hold(t) == [held EXCEPT ![t] = TRUE]

\* task_set_close
TaskSetClose(c) ==
  /\ Calls(c)
  /\ \E s \in Kept(c) : Begin(c, "close", None, s, 0)
  /\ Quiet
  /\ UNCHANGED <<coros, parked, tasks, parks, sets, stack, closed>>

\* Its loop: the last member is held, and canceled unless it has finished; a
\* set with no member is freed.
NextMember(c) ==
  /\ Turns(c)
  /\ op[c].kind = "close" /\ op[c].task = None
  /\ LET s == op[c].set
         t == Last(members[s])
     IN  \/ /\ members[s] # <<>>
            /\ held' = Hold(t)
            /\ canceled' = [canceled EXCEPT ![t] = @ \/ status[t] = "live"]
            /\ parks' = IF status[t] = "live" THEN CanceledParks(t) ELSE parks
            /\ op' = [op EXCEPT ![c].task = t]
            /\ UNCHANGED keeper
         \/ /\ members[s] = <<>>
            /\ keeper' = [keeper EXCEPT ![s] = None]
            /\ op' = [op EXCEPT ![c] = NoOp]
            /\ UNCHANGED <<held, canceled, parks>>
  /\ Quiet
  /\ UNCHANGED <<status, owner, home, parked, tasks, members, departed, stack, closed>>

\* io_loop_close.  A Future or a TaskSet borrows the Loop, so the compiler refuses
\* a release while one of Main's is left.  Then kizu_loop_close_tasks finds no
\* worker to cancel (TablesAgree), and the tables are freed.
LoopClose ==
  /\ Calls(Main)
  /\ Futures(Main) = {} /\ Kept(Main) = {}
  /\ closed' = TRUE
  /\ Quiet
  /\ UNCHANGED <<coros, parked, tasks, parks, sets, stack, op>>

-----------------------------------------------------------------------------
(* kizu_loop_turn                                                          *)

\* c is at this phase of a turn.  Closing a set needs a member to be canceled.
In(c, phase) ==
  /\ Turns(c)
  /\ op[c].phase = phase
  /\ op[c].kind = "close" => op[c].task # None

\* What ends the loop around the turn: the worker has finished, or one has left
\* the set, or the caller was canceled while it waited for that.
Satisfied(c) ==
  IF op[c].kind = "wait"
  THEN departed[op[c].set] # op[c].seen \/ (c \in Tasks /\ canceled[c])
  ELSE status[op[c].task] # "live"

\* The call returns.  Future.deinit and task_set_close free the worker, finished
\* or not.
Leave(c) ==
  LET o == op[c]
      t == o.task
  IN  \/ /\ o.kind \in {"await", "cancel", "wait"}
         /\ op' = [op EXCEPT ![c] = NoOp]
         /\ UNCHANGED <<coros, tasks, sets>>
      \/ /\ o.kind = "deinit"
         /\ TaskClose(t)
         /\ op' = [op EXCEPT ![c] = NoOp]
         /\ UNCHANGED sets
      \/ /\ o.kind = "close"
         /\ TaskClose(t)
         /\ members' = [members EXCEPT ![o.set] = Forget(@, t)]
         /\ departed' = [departed EXCEPT ![o.set] = @ + 1]
         /\ op' = [op EXCEPT ![c] = [NoOp EXCEPT !.kind = "close", !.set = o.set]]
         /\ UNCHANGED keeper

\* The condition of the loop around the turn.
Check(c) ==
  /\ In(c, "check")
  /\ \/ /\ Satisfied(c)
        /\ Leave(c)
     \/ /\ ~Satisfied(c)
        /\ op' = [op EXCEPT ![c].phase = "run"]
        /\ UNCHANGED <<coros, tasks, sets>>
  /\ Quiet
  /\ UNCHANGED <<parked, parks, stack, closed>>

Runnable(t) == status[t] = "live" /\ ~parked[t] /\ ~OnStack(t)

\* Mutant: the loop starts behind its first worker.
ToRunSkipsOne(c) == {n \in op[c].i + 1 .. Len(tasks) : Runnable(tasks[n])}

\* From index i on, what the first loop of a turn resumes.
ToRun(c) == {n \in op[c].i .. Len(tasks) : Runnable(tasks[n])}

RunTask(c) ==
  /\ In(c, "run")
  /\ ToRun(c) # {}
  /\ Resume(tasks[Min(ToRun(c))])
  /\ op' = [op EXCEPT ![c].i = Min(ToRun(c)) + 1, ![c].any = TRUE]
  /\ Quiet
  /\ UNCHANGED <<coros, parked, tasks, parks, sets, closed>>

\* A turn that ran something does not poll.
EndRun(c) ==
  /\ In(c, "run")
  /\ ToRun(c) = {}
  /\ op' = [op EXCEPT ![c].phase = IF op[c].any THEN "reap" ELSE "poll", ![c].i = 1]
  /\ Quiet
  /\ UNCHANGED <<coros, parked, tasks, parks, sets, stack, closed>>

Waiting == {n \in 1 .. Len(parks) : parks[n].live /\ ~parks[n].done}

\* The deadlines that passed before the poll, then what the poll found: ready
\* descriptors, its own failure for all of them, deadlines that passed
\* meanwhile, or nothing after an interruption.
Poll(c) ==
  /\ In(c, "poll")
  /\ \E early \in SUBSET Waiting : \E found \in SUBSET (Waiting \ early) :
       /\ parks' = [n \in 1 .. Len(parks) |->
                      IF n \in early \union found THEN Settle(parks[n], "io") ELSE parks[n]]
       /\ op' = [op EXCEPT ![c].phase = "wake", ![c].more = (Waiting # early)]
  /\ Quiet
  /\ UNCHANGED <<coros, parked, tasks, sets, stack, closed>>

\* From index i on, the parks the last loop of a turn resumes.
ToWake(c) == {n \in op[c].i .. Len(parks) : parks[n].live /\ parks[n].done}

\* Mutant: a canceled wait answers what its descriptor did.
AnswerOfPark(p) == p.outcome

\* What kizu_loop_park_io answers after the suspend.
Answer(p) == IF canceled[p.coro] THEN "canceled" ELSE p.outcome

\* The wait is resumed: the slot is free again and the call goes on.
Wake(c) ==
  /\ In(c, "wake")
  /\ ToWake(c) # {}
  /\ LET n == Min(ToWake(c))
         t == parks[n].coro
     IN  /\ parks' = [parks EXCEPT ![n] = NoPark]
         /\ parked' = [parked EXCEPT ![t] = FALSE]
         /\ answer' = Answer(parks[n])
         /\ Resume(t)
         /\ op' = [op EXCEPT ![c].i = n + 1, ![c].any = TRUE]
  /\ UNCHANGED <<coros, tasks, sets, closed>>

EndWake(c) ==
  /\ In(c, "wake")
  /\ ToWake(c) = {}
  /\ op' = [op EXCEPT ![c].phase = "reap", ![c].i = 1]
  /\ Quiet
  /\ UNCHANGED <<coros, parked, tasks, parks, sets, stack, closed>>

\* kizu_loop_reap_task_sets: the finished workers of TaskSets.
ToReap(c) ==
  {n \in op[c].i .. Len(tasks) :
     home[tasks[n]] # None /\ status[tasks[n]] = "finished" /\ ~held[tasks[n]]}

Reap(c) ==
  /\ In(c, "reap")
  /\ ToReap(c) # {}
  /\ LET n == Min(ToReap(c))
         t == tasks[n]
         s == home[t]
     IN  /\ TaskClose(t)
         /\ members' = [members EXCEPT ![s] = Forget(@, t)]
         /\ departed' = [departed EXCEPT ![s] = @ + 1]
         /\ op' = [op EXCEPT ![c].i = n]
  /\ Quiet
  /\ UNCHANGED <<parked, parks, keeper, stack, closed>>

\* A turn that ran, woke and polled nothing found the loop stalled, and the
\* call gives up.
EndTurn(c) ==
  /\ In(c, "reap")
  /\ ToReap(c) = {}
  /\ \/ /\ op[c].any \/ op[c].more
        /\ op' = [op EXCEPT ![c].phase = "check", ![c].i = 1, ![c].any = FALSE, ![c].more = FALSE]
        /\ UNCHANGED <<coros, tasks, sets>>
     \/ /\ ~(op[c].any \/ op[c].more)
        /\ Leave(c)
  /\ Quiet
  /\ UNCHANGED <<parked, parks, stack, closed>>

Own(c) ==
  \/ Async(c) \/ TaskSetNew(c) \/ Spawn(c) \/ Await(c) \/ Cancel(c) \/ Deinit(c)
  \/ WaitOne(c) \/ TaskSetClose(c)

Turn(c) ==
  \/ NextMember(c) \/ Check(c) \/ RunTask(c) \/ EndRun(c) \/ Poll(c) \/ Wake(c) \/ EndWake(c)
  \/ Reap(c) \/ EndTurn(c)

Next ==
  \/ \E c \in Contexts : Own(c) \/ Turn(c)
  \/ \E t \in Tasks : ParkIo(t) \/ Suspend(t) \/ Finish(t)
  \/ LoopClose

Spec == Init /\ [][Next]_vars

-----------------------------------------------------------------------------
(* Properties                                                              *)

Alive == {t \in Tasks : status[t] \in {"live", "finished"}}

\* The tables agree, whatever nested turn has moved or freed entries in them:
\* the loop tracks each worker that is not freed once, a set tracks its own,
\* and a worker waits in one slot exactly while it is parked, off the stack.  The
\* release of the Loop finds it tracking nobody, below whomever workers started
\* workers of their own.
TablesAgree ==
  Intact =>
    /\ closed => tasks = <<>>
    /\ IsInjective(tasks) /\ ToSet(tasks) = Alive
    /\ \A s \in Sets : IsInjective(members[s]) /\ ToSet(members[s]) = {t \in Alive : home[t] = s}
    /\ \A t \in Tasks :
         /\ Cardinality({n \in 1 .. Len(parks) : parks[n].live /\ parks[n].coro = t})
              = IF parked[t] THEN 1 ELSE 0
         /\ parked[t] => status[t] = "live" /\ ~OnStack(t)

\* A cancel is not lost: a canceled worker that is parked has been settled, so
\* the next turn wakes it.
CancelArrives ==
  \A n \in 1 .. Len(parks) :
    parks[n].live /\ canceled[parks[n].coro] => parks[n].done

\* A wait that is resumed has an answer, and a canceled one answers Canceled.
WaitsAnswered ==
  [][\A t \in Tasks : (parked[t] /\ ~parked'[t]) =>
       /\ answer' # "retry"
       /\ canceled[t] => answer' = "canceled"]_vars

\* await, cancel and wait_one give up on a stalled loop only where the worker,
\* or each worker of the set, stands below the caller on the stack.
GivesUpOnlyBelow ==
  [][\A c \in Contexts :
       (op[c].kind # "none" /\ op'[c].kind = "none") =>
          CASE op[c].kind \in {"await", "cancel", "deinit"} ->
                 status[op[c].task] = "finished" \/ OnStack(op[c].task)
            [] op[c].kind = "wait" ->
                 Satisfied(c) \/ \A t \in ToSet(members[op[c].set]) : OnStack(t)
            [] OTHER -> TRUE]_vars

\* Symmetry of the instances TLC checks.
TaskSymmetry == Permutations(Tasks)

=============================================================================
