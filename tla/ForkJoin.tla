------------------------------ MODULE ForkJoin ------------------------------
(***************************************************************************)
(* What std::thread promises of `each` and `each_lane`, without threads,   *)
(* tickets or locks: a call cuts its slice into items, every item is run   *)
(* once or, after some item failed, skipped, and the call returns when     *)
(* none is waiting or running, with the failure of one that failed.        *)
(***************************************************************************)
EXTENDS Integers

CONSTANTS
  ItemCounts,   \* how many items a call may have
  Failures      \* the failures an item may end with

VARIABLES
  phase,        \* "idle", or "running" inside a call
  fate,         \* fate[i]: waiting, running, skipped, ok or a failure
  result        \* what the last call answered

vars == <<phase, fate, result>>

Init ==
  /\ phase = "idle"
  /\ fate = <<>>
  /\ result = "ok"

Begin(n) ==
  /\ phase = "idle"
  /\ phase' = "running"
  /\ fate' = [i \in 0 .. n - 1 |-> "waiting"]
  /\ UNCHANGED result

\* A call that runs no item.
Refuse(r) ==
  /\ phase = "idle"
  /\ result' = r
  /\ UNCHANGED <<phase, fate>>

Start(i) ==
  /\ phase = "running"
  /\ fate[i] = "waiting"
  /\ fate' = [fate EXCEPT ![i] = "running"]
  /\ UNCHANGED <<phase, result>>

End(i, verdict) ==
  /\ phase = "running"
  /\ fate[i] = "running"
  /\ fate' = [fate EXCEPT ![i] = verdict]
  /\ UNCHANGED <<phase, result>>

\* Items are skipped only when some item has failed.
Skip(S) ==
  /\ phase = "running"
  /\ \E i \in DOMAIN fate : fate[i] \in Failures
  /\ \A i \in S : fate[i] = "waiting"
  /\ fate' = [i \in DOMAIN fate |-> IF i \in S THEN "skipped" ELSE fate[i]]
  /\ UNCHANGED <<phase, result>>

Return ==
  /\ phase = "running"
  /\ \A i \in DOMAIN fate : fate[i] \notin {"waiting", "running"}
  /\ \/ /\ \A i \in DOMAIN fate : fate[i] = "ok"
        /\ result' = "ok"
     \/ \E i \in DOMAIN fate : fate[i] \in Failures /\ result' = fate[i]
  /\ phase' = "idle"
  /\ UNCHANGED fate

Next ==
  \/ \E n \in ItemCounts : Begin(n)
  \/ \E r \in {"ok", "OutOfMemory"} : Refuse(r)
  \/ \E i \in DOMAIN fate : Start(i) \/ \E v \in Failures \union {"ok"} : End(i, v)
  \/ \E S \in SUBSET DOMAIN fate : Skip(S)
  \/ Return

Spec == Init /\ [][Next]_vars

=============================================================================
