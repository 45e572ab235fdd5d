---------------------------- MODULE MCBuildCache ----------------------------
(* Instances of BuildCache for TLC.                                       *)
EXTENDS BuildCache, TLC

ProcSymmetry == Permutations(Procs)

\* Two executables over one runtime object, which sorts between them.
SharedRuntime == [x \in {1, 3} |-> 2]
UnequalSizes == [k \in 1 .. 3 |-> IF k = 2 THEN 1 ELSE 2]

=============================================================================
