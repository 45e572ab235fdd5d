----------------------------- MODULE MCWasmRuntime -----------------------------
(***************************************************************************)
(* Bounded instances of the wasm runtime.  The sizes of the code are       *)
(* scaled down so that every growth and every limit is reached: an index   *)
(* of four slots, entries for two, groups of two control bytes, a heap of  *)
(* a few hundred bytes.                                                    *)
(***************************************************************************)
EXTENDS WasmContainers

CONSTANTS w1, w2, w3, w4, long1, long2

MCKeys == {w1, w2, w3, w4, long1, long2}
MCKeyLen == [k \in MCKeys |-> IF k \in {long1, long2} THEN 9 ELSE 8]

\* w1, w2 and long1 collide in the whole hash; w3 shares their slot, and its
\* tag differs from theirs in the lowest bit; w4 sits at the end of the index.
MCKeyHash == [k \in MCKeys |->
    CASE k = w3 -> 3 * 64 + 1
      [] k = w4 -> 2 * 64 + 3
      [] k = long2 -> 5 * 64 + 7
      [] OTHER -> 2 * 64 + 1]

Unused == [array |-> {}, sizes |-> {}, map |-> {}, words |-> {}, keys |-> {},
           arena |-> {}, box |-> {}, values |-> {1}]

\* Containers that meet in one allocator, so that each one's blocks come and
\* go between the other's.
MCPrograms ==
    {[Unused EXCEPT !.map = {"page"}, !.words = {FALSE}, !.keys = {w1, w3, long1, long2}],
     [Unused EXCEPT !.map = {"page"}, !.words = {FALSE}, !.keys = {w1, long1},
                    !.values = {1, 2}, !.box = {"page"}],
     [Unused EXCEPT !.map = {"user"}, !.words = {TRUE}, !.keys = {w1, w2, w3, w4},
                    !.values = {1, 2}],
     [Unused EXCEPT !.map = {"fixed"}, !.words = {FALSE}, !.keys = {w1, long1, long2},
                    !.box = {"fixed"}],
     [Unused EXCEPT !.array = {"user"}, !.sizes = {8}, !.arena = {"page"}],
     [Unused EXCEPT !.array = {"fixed"}, !.sizes = {0, 8}, !.box = {"fixed"}],
     [Unused EXCEPT !.array = {"fixed"}, !.sizes = {1}, !.values = {1, 2}]}
=============================================================================
