----------------------------- MODULE BuildCache -----------------------------
(***************************************************************************)
(* The local build cache (src/internal/buildcache/cache.go) as the native  *)
(* backend uses it (src/internal/native/build.go): several kizu processes  *)
(* share one directory and no lock.  An artifact is filed under its key as *)
(* key.out, and key.json is the entry that accounts for it.                *)
(*                                                                         *)
(* A label of pc is a point between two file-system calls.  A call is      *)
(* atomic, except that os.WriteFile is an open that truncates and then a   *)
(* write.  A process may be killed, and any call may fail.                 *)
(***************************************************************************)
EXTENDS Integers, FiniteSets, FiniteSetsExt

CONSTANTS
  Procs,       \* kizu processes
  Exes,        \* keys of executables
  Runtimes,    \* keys of runtime objects
  RuntimeOf,   \* the runtime object an executable is linked with
  Size,        \* the size of the artifact a key names
  MaxBytes,    \* Cache.MaxBytes, 256 MiB in the code
  Wanted,      \* the artifacts commands ask for
  Prunes,      \* whether `kizu cache prune` is among the commands
  None,        \* no key
  MaxStamps,   \* bound: no command asks once this many entries were written
  MaxFaults    \* bound: processes killed and calls that fail

Keys == Exes \union Runtimes

\* A key stands for its place in the order of the file names, which is the
\* order filepath.Glob lists them in.
ASSUME KeysAssumption ==
  /\ IsFiniteSet(Keys)
  /\ Exes \subseteq Nat /\ Runtimes \subseteq Nat
  /\ Exes \intersect Runtimes = {}
  /\ None \notin Keys
  /\ RuntimeOf \in [Exes -> Runtimes]
  /\ Wanted \subseteq Keys

ASSUME LimitsAssumption ==
  /\ Size \in [Keys -> Nat]
  /\ MaxBytes \in Nat /\ MaxStamps \in Nat /\ MaxFaults \in Nat

VARIABLES
  entry,    \* entry[k]: what the file k.json holds
  born,     \* born[k]: the CreatedAt of the entry last written there
  stored,   \* the keys whose k.out exists
  scratch,  \* the artifact-* files: scratch[p] are those p is building into
  litter,   \* artifact-* files whose process is gone
  now,      \* the clock
  faults,   \* faults so far
  pc,       \* pc[p]: the next call of p
  goal,     \* goal[p]: the key p asks the cache for
  outer,    \* outer[p]: the executable whose build asked for it, or None
  stamp,    \* stamp[p]: the CreatedAt p took for the entry it writes
  linked,   \* linked[p]: the file p has open for writing still has its name
  why,      \* why[p]: what p lists the entries for
  todo,     \* todo[p]: the names p's glob found and p has not read
  seen      \* seen[p]: the entries p has read and not dealt with

files == <<entry, born, stored>>
making == <<scratch, litter>>
writing == <<stamp, linked>>
listing == <<why, todo, seen>>
vars == <<files, making, now, faults, pc, goal, outer, writing, listing>>

Entry == [key : Keys, at : Nat \ {0}]

\* "empty" and "garbled" are files json.Unmarshal refuses.
TypeOK ==
  /\ entry \in [Keys -> {"none", "empty", "garbled", "valid"}]
  /\ born \in [Keys -> Nat]
  /\ stored \in SUBSET Keys
  /\ scratch \in [Procs -> SUBSET Keys]
  /\ litter \in Nat
  /\ now \in Nat
  /\ faults \in 0 .. MaxFaults
  /\ pc \in [Procs -> {"idle", "look", "stat", "temp", "build", "use", "place", "open",
                       "write", "glob", "read", "evict", "unlink", "pruned"}]
  /\ goal \in [Procs -> Keys \union {None}]
  /\ outer \in [Procs -> Exes \union {None}]
  /\ stamp \in [Procs -> Nat]
  /\ linked \in [Procs -> BOOLEAN]
  /\ why \in [Procs -> {"limit", "prune"}]
  /\ todo \in [Procs -> SUBSET Keys]
  /\ seen \in [Procs -> SUBSET Entry]

Init ==
  /\ entry = [k \in Keys |-> "none"]
  /\ born = [k \in Keys |-> 0]
  /\ stored = {}
  /\ scratch = [p \in Procs |-> {}]
  /\ litter = 0
  /\ now = 0
  /\ faults = 0
  /\ pc = [p \in Procs |-> "idle"]
  /\ goal = [p \in Procs |-> None]
  /\ outer = [p \in Procs |-> None]
  /\ stamp = [p \in Procs |-> 0]
  /\ linked = [p \in Procs |-> FALSE]
  /\ why = [p \in Procs |-> "limit"]
  /\ todo = [p \in Procs |-> {}]
  /\ seen = [p \in Procs |-> {}]

At(p, l) == pc[p] = l
Goto(p, l) == pc' = [pc EXCEPT ![p] = l]

\* The command is over, or has failed: what is kept per call is forgotten.
\* Leaving buildArtifact removes the scratch file, on every path.
End(p) ==
  /\ pc' = [pc EXCEPT ![p] = "idle"]
  /\ goal' = [goal EXCEPT ![p] = None]
  /\ outer' = [outer EXCEPT ![p] = None]
  /\ scratch' = [scratch EXCEPT ![p] = {}]
  /\ stamp' = [stamp EXCEPT ![p] = 0]
  /\ linked' = [linked EXCEPT ![p] = FALSE]
  /\ why' = [why EXCEPT ![p] = "limit"]
  /\ todo' = [todo EXCEPT ![p] = {}]
  /\ seen' = [seen EXCEPT ![p] = {}]

-----------------------------------------------------------------------------
(* GetOrBuildArtifact                                                      *)

\* The order of a miss: build, move into place, record, enforce the limit.
Then == [build |-> "place", place |-> "open", write |-> "glob"]

\* An entry whose artifact is gone is a miss.
IsHit(k) == k \in stored

\* `kizu run` and `kizu test` ask for an executable, `kizu build` for the
\* runtime object it links with.
Ask(p) ==
  /\ At(p, "idle")
  /\ now < MaxStamps
  /\ \E k \in Wanted : goal' = [goal EXCEPT ![p] = k]
  /\ Goto(p, "look")
  /\ UNCHANGED <<files, making, now, faults, outer, writing, listing>>

\* hasArtifact reads the entry.
Look(p) ==
  /\ At(p, "look")
  /\ Goto(p, IF entry[goal[p]] = "valid" THEN "stat" ELSE "temp")
  /\ UNCHANGED <<files, making, now, faults, goal, outer, writing, listing>>

\* hasArtifact looks for the file the entry names.
Stat(p) ==
  /\ At(p, "stat")
  /\ Goto(p, IF IsHit(goal[p]) THEN "use" ELSE "temp")
  /\ UNCHANGED <<files, making, now, faults, goal, outer, writing, listing>>

\* buildArtifact makes its scratch file.
CreateTemp(p) ==
  /\ At(p, "temp")
  /\ scratch' = [scratch EXCEPT ![p] = @ \union {goal[p]}]
  /\ Goto(p, "build")
  /\ UNCHANGED <<files, litter, now, faults, goal, outer, writing, listing>>

\* The builder of a runtime object compiles it.
Compile(p) ==
  /\ At(p, "build")
  /\ goal[p] \in Runtimes
  /\ Goto(p, Then.build)
  /\ UNCHANGED <<files, making, now, faults, goal, outer, writing, listing>>

\* The builder of an executable asks the cache for the runtime object.
AskRuntime(p) ==
  /\ At(p, "build")
  /\ goal[p] \in Exes
  /\ outer' = [outer EXCEPT ![p] = goal[p]]
  /\ goal' = [goal EXCEPT ![p] = RuntimeOf[goal[p]]]
  /\ Goto(p, "look")
  /\ UNCHANGED <<files, making, now, faults, writing, listing>>

\* The linker opens the runtime object by the path the cache returned.
Link(p) ==
  /\ At(p, "use")
  /\ outer[p] # None
  /\ \/ /\ goal[p] \in stored
        /\ goal' = [goal EXCEPT ![p] = outer[p]]
        /\ outer' = [outer EXCEPT ![p] = None]
        /\ Goto(p, Then.build)
        /\ UNCHANGED <<scratch, writing, listing>>
     \/ /\ goal[p] \notin stored
        /\ End(p)
  /\ UNCHANGED <<files, litter, now, faults>>

\* The command uses the path it was handed: it runs the executable, or links
\* with the runtime object into a file of the user's.
Use(p) ==
  /\ At(p, "use")
  /\ outer[p] = None
  /\ End(p)
  /\ UNCHANGED <<files, litter, now, faults>>

\* os.Rename
Place(p) ==
  /\ At(p, "place")
  /\ stored' = stored \union {goal[p]}
  /\ scratch' = [scratch EXCEPT ![p] = @ \ {goal[p]}]
  /\ Goto(p, Then.place)
  /\ UNCHANGED <<entry, born, litter, now, faults, goal, outer, writing, listing>>

\* writeMeta takes the time and opens the entry's file, which creates or
\* truncates it.
OpenEntry(p) ==
  /\ At(p, "open")
  /\ now' = now + 1
  /\ stamp' = [stamp EXCEPT ![p] = now + 1]
  /\ linked' = [linked EXCEPT ![p] = TRUE]
  /\ entry' = [entry EXCEPT ![goal[p]] = "empty"]
  /\ Goto(p, "write")
  /\ UNCHANGED <<born, stored, making, faults, goal, outer, listing>>

CreatedAt(p) == stamp[p]

\* writeMeta writes the entry.  A file removed since is written to no effect.
\* Where another process has written since the truncation, its bytes stay
\* behind a shorter text: CreatedAt is printed without trailing zeros.
WriteEntry(p) ==
  /\ At(p, "write")
  /\ LET k == goal[p] IN
       \/ /\ linked[p]
          /\ entry' = [entry EXCEPT ![k] = "valid"]
          /\ born' = [born EXCEPT ![k] = CreatedAt(p)]
       \/ /\ linked[p]
          /\ entry[k] # "empty"
          /\ entry' = [entry EXCEPT ![k] = "garbled"]
          /\ born' = born
       \/ /\ ~linked[p]
          /\ UNCHANGED <<entry, born>>
  /\ linked' = [linked EXCEPT ![p] = FALSE]
  /\ Goto(p, Then.write)
  /\ UNCHANGED <<stored, making, now, faults, goal, outer, stamp, listing>>

-----------------------------------------------------------------------------
(* entries, enforceLimit and Prune                                         *)

\* SizeBytes summed: what Status reports and enforceLimit compares.
Bytes(es) == MapThenSumSet(LAMBDA e : Size[e.key], es)

\* Mutant: one byte too many is let through.
OverByMore(es) == Bytes(es) > MaxBytes + 1

Over(es) == Bytes(es) > MaxBytes

\* Mutant: the newest entry goes first.
Newest(es) == CHOOSE e \in es : \A f \in es : f.at <= e.at

\* enforceLimit sorts by CreatedAt.
Oldest(es) == CHOOSE e \in es : \A f \in es : e.at <= f.at

\* Prune goes in the order of the listing.
First(es) == CHOOSE e \in es : \A f \in es : e.key <= f.key

Victim(p) == IF why[p] = "limit" THEN Oldest(seen[p]) ELSE First(seen[p])

\* Mutant: the artifact goes before the entry.
RemovalOutputFirst == <<"output", "entry">>

\* The order in which a victim's two files go.
Removal == <<"entry", "output">>

\* os.Remove; a file that is not there is no error.  A writer that has the
\* entry open goes on writing to a file without a name.
Remove(what, k) ==
  \/ /\ what = "entry"
     /\ entry' = [entry EXCEPT ![k] = "none"]
     /\ linked' = [q \in Procs |-> linked[q] /\ goal[q] # k]
     /\ UNCHANGED <<stored, born>>
  \/ /\ what = "output"
     /\ stored' = stored \ {k}
     /\ UNCHANGED <<entry, born, linked>>

Prune(p) ==
  /\ At(p, "idle")
  /\ Prunes
  /\ why' = [why EXCEPT ![p] = "prune"]
  /\ Goto(p, "glob")
  /\ UNCHANGED <<files, making, now, faults, goal, outer, writing, todo, seen>>

Glob(p) ==
  /\ At(p, "glob")
  /\ todo' = [todo EXCEPT ![p] = {k \in Keys : entry[k] # "none"}]
  /\ Goto(p, "read")
  /\ UNCHANGED <<files, making, now, faults, goal, outer, writing, why, seen>>

\* A file that is gone, or that holds no entry, is passed over.
ReadEntry(p) ==
  /\ At(p, "read")
  /\ \E k \in todo[p] :
       /\ \A j \in todo[p] : k <= j
       /\ todo' = [todo EXCEPT ![p] = @ \ {k}]
       /\ seen' = IF entry[k] = "valid"
                  THEN [seen EXCEPT ![p] = @ \union {[key |-> k, at |-> born[k]]}]
                  ELSE seen
  /\ UNCHANGED <<files, making, now, faults, pc, goal, outer, writing, why>>

EndList(p) ==
  /\ At(p, "read")
  /\ todo[p] = {}
  /\ Goto(p, "evict")
  /\ UNCHANGED <<files, making, now, faults, goal, outer, writing, listing>>

\* The loops of enforceLimit and Prune, up to the first of the two removals.
Evict(p) ==
  /\ At(p, "evict")
  /\ seen[p] # {}
  /\ why[p] = "limit" => Over(seen[p])
  /\ Remove(Removal[1], Victim(p).key)
  /\ Goto(p, "unlink")
  /\ UNCHANGED <<making, now, faults, goal, outer, stamp, listing>>

Unlink(p) ==
  /\ At(p, "unlink")
  /\ Remove(Removal[2], Victim(p).key)
  /\ seen' = [seen EXCEPT ![p] = @ \ {Victim(p)}]
  /\ Goto(p, "evict")
  /\ UNCHANGED <<making, now, faults, goal, outer, stamp, why, todo>>

\* GetOrBuildArtifact returns the path, Prune its counts.
EndEvict(p) ==
  /\ At(p, "evict")
  /\ seen[p] = {} \/ (why[p] = "limit" /\ ~Over(seen[p]))
  /\ seen' = [seen EXCEPT ![p] = {}]
  /\ stamp' = [stamp EXCEPT ![p] = 0]
  /\ Goto(p, IF why[p] = "limit" THEN "use" ELSE "pruned")
  /\ UNCHANGED <<files, making, now, faults, goal, outer, linked, why, todo>>

\* Prune prints what it removed.
EndPrune(p) ==
  /\ At(p, "pruned")
  /\ End(p)
  /\ UNCHANGED <<files, litter, now, faults>>

-----------------------------------------------------------------------------
(* Faults                                                                  *)

\* A call or a builder fails: the error goes up through every caller.
Fail(p) ==
  /\ pc[p] \notin {"idle", "look", "stat", "pruned"}
  /\ faults < MaxFaults
  /\ faults' = faults + 1
  /\ End(p)
  /\ UNCHANGED <<files, litter, now>>

\* The process is killed: its scratch files stay.
Kill(p) ==
  /\ pc[p] # "idle"
  /\ faults < MaxFaults
  /\ faults' = faults + 1
  /\ litter' = litter + Cardinality(scratch[p])
  /\ End(p)
  /\ UNCHANGED <<files, now>>

Get(p) ==
  \/ Ask(p) \/ Look(p) \/ Stat(p) \/ CreateTemp(p) \/ Compile(p) \/ AskRuntime(p)
  \/ Link(p) \/ Use(p) \/ Place(p) \/ OpenEntry(p) \/ WriteEntry(p)

Sweep(p) ==
  Prune(p) \/ Glob(p) \/ ReadEntry(p) \/ EndList(p) \/ Evict(p) \/ Unlink(p)
  \/ EndEvict(p) \/ EndPrune(p)

Next == \E p \in Procs : Get(p) \/ Sweep(p) \/ Fail(p) \/ Kill(p)

Spec == Init /\ [][Next]_vars

-----------------------------------------------------------------------------
(* Properties                                                              *)

Quiet == \A p \in Procs : pc[p] = "idle"
Valid == {k \in Keys : entry[k] = "valid"}

\* The path GetOrBuildArtifact returned names a file until it is used: the
\* linker finds the runtime object, the command finds its executable.  A lone
\* process never evicts what it is about to use; another process may.
HandedPathReal == \A p \in Procs : pc[p] = "use" => goal[p] \in stored

\* With no fault, every artifact is accounted for once nobody is at work: there
\* is a file that enforceLimit and Prune find it by.  It takes the order of the
\* two removals, seen against a process that rebuilds the victim in between.
NoOrphan == (Quiet /\ faults = 0) => \A k \in stored : entry[k] # "none"

\* With no fault, the entries fit the limit once nobody is at work, although
\* every process enforces it on a listing that others have changed since.
QuietFits ==
  (Quiet /\ faults = 0) => Bytes({[key |-> k, at |-> born[k]] : k \in Valid}) <= MaxBytes

-----------------------------------------------------------------------------
(* The inductive invariant behind NoOrphan                                 *)

Calling == {"look", "stat", "temp", "build", "use", "place", "open", "write"}
Sweeping == {"glob", "read", "evict", "unlink"}

\* A call of GetOrBuildArtifact has a key, in enforceLimit too.
CallInv ==
  \A p \in Procs :
    /\ pc[p] \in Calling \/ (pc[p] \in Sweeping /\ why[p] = "limit") => goal[p] \in Keys
    /\ pc[p] \in Calling \union {"idle"} => why[p] = "limit"

\* An entry has its time.
StampInv ==
  /\ \A p \in Procs : pc[p] = "write" => stamp[p] > 0
  /\ \A k \in Keys : entry[k] = "valid" => born[k] > 0

\* p will record the artifact of k, or remove it.
Owes(p, k) ==
  \/ pc[p] = "open" /\ goal[p] = k
  \/ pc[p] = "unlink" /\ Victim(p).key = k

\* An artifact that nothing accounts for is some process's to deal with.
OwedInv ==
  faults = 0 => \A k \in stored : entry[k] = "none" => \E p \in Procs : Owes(p, k)

CacheInv == TypeOK /\ CallInv /\ StampInv /\ OwedInv

=============================================================================
