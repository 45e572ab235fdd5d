---------------------------- MODULE MCThreadPool ----------------------------
(* Instances of ThreadPool for TLC.                                       *)
EXTENDS ThreadPool, TLC

HelperSymmetry == Permutations(Helpers)

Chunks(len, size) == [len |-> len, length |-> size, stride |-> 0]
Lanes(len, length, stride) == [len |-> len, length |-> length, stride |-> stride]

\* Rounds of two items: with three threads one of them comes too late.
Pairs == {Chunks(2, 1)}

\* Empty; three chunks in two batches, the last one short; strided lanes.
Cuts == {Chunks(0, 1), Chunks(5, 2), Lanes(4, 2, 2)}

=============================================================================
