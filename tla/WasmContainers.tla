---------------------------- MODULE WasmContainers ----------------------------
(***************************************************************************)
(* The containers of the wasm backend's runtime over its allocators:       *)
(* Array (internal/wasm/array.go), Map (map.go), Arena (arena.go) and Box  *)
(* (box.go), one of each, as the operations of a program in any order.     *)
(* A header is a record of the words the code keeps in linear memory; the  *)
(* history variables say what a program was told it stored.                *)
(***************************************************************************)
EXTENDS WasmHeap

CONSTANTS
    Keys,           \* the keys a program uses
    KeyLen,         \* the bytes of a key
    KeyHash,        \* the hash of a key
    TagUnit,        \* hash \div TagUnit is the tag: 2^57 in the code
    IndexFirst,     \* slots of the first index of a map: 8 in the code
    EntriesFirst,   \* entries of its first storage: 4 in the code
    GroupWidth,     \* control bytes one load of a word lookup reads: 8
    IndexLimit,     \* an index above this does not grow: 134217727
    EntriesLimit,   \* bytes of entries never exceeded: 1073741823
    ArenaSpan,      \* handles of one arena instance: 2^32 in the code
    MaxInstances,   \* arenas a program may make: 2^32 - 1 in the code
    MaxElements,    \* bound: elements of the array a program asks for
    Programs        \* what a program uses: for each kind of container the
                    \* allocators it is made with, the element sizes of its
                    \* arrays, whether its maps have eight-byte keys, and the
                    \* keys and values it stores

Allocators == {"page", "fixed", "user"}

\* The lengths and hashes of keys are those a machine computes: a tag is less
\* than the mark of a free slot.
ASSUME ContainerAssumption ==
    /\ KeyLen \in [Keys -> Nat] /\ KeyHash \in [Keys -> Nat]
    /\ {IndexFirst, EntriesFirst, GroupWidth, TagUnit, ArenaSpan} \subseteq Nat \ {0}
    /\ {IndexLimit, EntriesLimit, MaxInstances, MaxElements} \subseteq Nat
    /\ IndexFirst % 4 = 0
    /\ \A k \in Keys : KeyHash[k] \div TagUnit < 128

ASSUME ProgramAssumption ==
    \A p \in Programs :
        /\ p.array \cup p.map \cup p.arena \cup p.box \subseteq Allocators
        /\ p.sizes \subseteq Nat /\ p.words \subseteq BOOLEAN /\ p.keys \subseteq Keys

VARIABLES
    heap,       \* the allocators' state
    array, map, arena, box,     \* the headers
    instances,  \* $__arena_instances
    trapped,    \* a panic ended the program
    stored,     \* history: what the program was told its containers hold
    program     \* the member of Programs that runs

vars == <<heap, array, map, arena, box, instances, trapped, stored, program>>

NoArray == [live |-> FALSE, by |-> "page", size |-> 0, data |-> 0, len |-> 0, cap |-> 0]
NoMap == [live |-> FALSE, by |-> "page", words |-> FALSE, entries |-> 0, len |-> 0,
          cap |-> 0, index |-> 0, icap |-> 0]
NoArena == [live |-> FALSE, by |-> "page", size |-> 8, data |-> 0, len |-> 0, cap |-> 0,
            origin |-> 0]
NoBox == [live |-> FALSE, by |-> "page", p |-> 0]

Init ==
    /\ heap = EmptyHeap
    /\ array = NoArray /\ map = NoMap /\ arena = NoArena /\ box = NoBox
    /\ instances = 0 /\ trapped = FALSE
    /\ program \in Programs
    /\ stored = [array |-> <<>>, map |-> <<>>, issued |-> {}, box |-> <<>>]

-----------------------------------------------------------------------------
(***************************************************************************)
(* Array storage.                                                          *)
(***************************************************************************)
array_next_capacity(cap, needed) ==
    Max({needed, 4} \cup (IF cap > 2 THEN {cap + (cap \div 2)} ELSE {}))

\* Room for needed elements: the header and the heap after, and whether there
\* is room.  Elements of no size take no storage, only capacity.
array_grown(arr, h, moved, next) ==
    IF moved.p = 0 THEN [arr |-> arr, h |-> h, ok |-> FALSE]
    ELSE [arr |-> [arr EXCEPT !.data = moved.p, !.cap = next], h |-> moved.h, ok |-> TRUE]

array_reserve(arr, h, needed, grows) ==
    LET next == array_next_capacity(arr.cap, needed)
    IN  IF needed <= arr.cap THEN [arr |-> arr, h |-> h, ok |-> TRUE]
        ELSE IF arr.size = 0
             THEN [arr |-> [arr EXCEPT !.cap = next], h |-> h, ok |-> TRUE]
        ELSE IF next * arr.size > MaxRequest THEN [arr |-> arr, h |-> h, ok |-> FALSE]
        ELSE array_grown(arr, h,
                 allocator_realloc(arr.by, h, arr.data, arr.cap * arr.size,
                                   next * arr.size, arr.size, grows), next)

\* What the storage holds below the header's length.
Contents(h, arr) == IF arr.size = 0 \/ arr.data = 0 THEN <<>> ELSE h.data[arr.data]

\* The elements s written at the length; elements of no size write nothing.
array_write(arr, h, s) ==
    IF arr.size = 0 THEN h
    ELSE [h EXCEPT !.data[arr.data] = SubSeq(@, 1, arr.len) \o s]

Truncated(arr, h, n) ==
    IF Contents(h, arr) = <<>> THEN h ELSE [h EXCEPT !.data[arr.data] = SubSeq(@, 1, n)]

Running == ~trapped
Trap == trapped' = TRUE /\ UNCHANGED <<heap, array, map, arena, box, instances, stored, program>>

ArrayNew(a, size) ==
    /\ Running /\ ~array.live
    /\ array' = [NoArray EXCEPT !.live = TRUE, !.by = a, !.size = size]
    /\ stored' = [stored EXCEPT !.array = <<>>]
    /\ UNCHANGED <<heap, map, arena, box, instances, trapped, program>>

\* One element goes into the reserved tail, or through the reserve helper,
\* which leaves an array that has room as it is.
ArrayAppend(v, grows) ==
    /\ Running /\ array.live /\ array.len < MaxElements
    /\ \E grown \in {array_reserve(array, heap, array.len + 1, grows)} :
        /\ grown.ok
        /\ heap' = array_write(grown.arr, grown.h, <<v>>)
        /\ array' = [grown.arr EXCEPT !.len = @ + 1]
        /\ stored' = [stored EXCEPT !.array = Append(@, v)]
    /\ UNCHANGED <<map, arena, box, instances, trapped, program>>

\* A run of bytes goes into an array of bytes whole or not at all.
ArrayAppendBytes(s, grows) ==
    /\ Running /\ array.live /\ array.size = 1 /\ array.len + Len(s) <= MaxElements
    /\ \E grown \in {array_reserve(array, heap, array.len + Len(s), grows)} :
        /\ grown.ok
        /\ heap' = array_write(grown.arr, grown.h, s)
        /\ array' = [grown.arr EXCEPT !.len = @ + Len(s)]
        /\ stored' = [stored EXCEPT !.array = @ \o s]
    /\ UNCHANGED <<map, arena, box, instances, trapped, program>>

ArrayReserve(additional, grows) ==
    /\ Running /\ array.live /\ array.len + additional <= MaxElements
    /\ \E grown \in {array_reserve(array, heap, array.len + additional, grows)} :
        heap' = grown.h /\ array' = grown.arr
    /\ UNCHANGED <<map, arena, box, instances, trapped, stored, program>>

\* pop answers nothing for an empty array, pop_or_panic ends the program.
ArrayPop ==
    /\ Running /\ array.live /\ array.len > 0
    /\ array' = [array EXCEPT !.len = @ - 1]
    /\ heap' = Truncated(array, heap, array.len - 1)
    /\ stored' = [stored EXCEPT !.array = Front(@)]
    /\ UNCHANGED <<map, arena, box, instances, trapped, program>>

ArrayPopOrPanic == IF array.len = 0 THEN Running /\ array.live /\ Trap ELSE ArrayPop

\* truncate refuses a length that is negative or above the array's; clear is
\* the truncation to nothing.
ArrayTruncate(want) ==
    /\ Running /\ array.live /\ want <= array.len
    /\ array' = [array EXCEPT !.len = want]
    /\ heap' = Truncated(array, heap, want)
    /\ stored' = [stored EXCEPT !.array = SubSeq(@, 1, want)]
    /\ UNCHANGED <<map, arena, box, instances, trapped, program>>

ArraySet(i, v) ==
    /\ Running /\ array.live /\ i < array.len
    /\ heap' = IF array.size = 0 THEN heap ELSE [heap EXCEPT !.data[array.data][i + 1] = v]
    /\ stored' = [stored EXCEPT !.array[i + 1] = v]
    /\ UNCHANGED <<array, map, arena, box, instances, trapped, program>>

\* Mutant: the left element is overwritten before it is saved.
array_swap_unsaved(s, left, right) == [s EXCEPT ![left] = s[right]]

\* The helper and the inline form both exchange through a temporary.
array_swap(s, left, right) == [s EXCEPT ![left] = s[right], ![right] = s[left]]

ArraySwap(left, right) ==
    /\ Running /\ array.live /\ left < array.len /\ right < array.len
    /\ heap' = IF array.size = 0 THEN heap
               ELSE [heap EXCEPT !.data[array.data] = array_swap(@, left + 1, right + 1)]
    /\ stored' = [stored EXCEPT !.array =
                     [k \in DOMAIN @ |-> IF k = left + 1 THEN @[right + 1]
                                         ELSE IF k = right + 1 THEN @[left + 1] ELSE @[k]]]
    /\ UNCHANGED <<array, map, arena, box, instances, trapped, program>>

ArrayDeinit ==
    /\ Running /\ array.live
    /\ heap' = allocator_free(array.by, heap, array.data)
    /\ array' = NoArray
    /\ stored' = [stored EXCEPT !.array = <<>>]
    /\ UNCHANGED <<map, arena, box, instances, trapped, program>>

-----------------------------------------------------------------------------
(***************************************************************************)
(* The map: entries in insertion order, found through an index of control  *)
(* bytes and entry numbers that is probed linearly.                        *)
(***************************************************************************)
mapEntrySize == 32
FreeSlot == [control |-> 128, number |-> 0]
Tag(hash) == hash \div TagUnit
ShortKey(k) == KeyLen[k] <= 8

Entries(h, mp) == IF mp.entries = 0 THEN <<>> ELSE h.data[mp.entries]
Index(h, mp) == h.data[mp.index]
SlotAt(mp, hash, distance) == ((hash + distance) % mp.icap) + 1

\* Whether entry e is the one for key k: short keys are compared as the words
\* in the entries, long ones byte by byte with the copy the entry points to.
EntryMatches(h, e, k) ==
    /\ e.hash = KeyHash[k] /\ e.len = KeyLen[k]
    /\ IF ShortKey(k) THEN e.key = k ELSE h.data[e.key] = <<k>>

\* The slot that holds the key, or the free slot it belongs in.
map_slot(h, mp, k) ==
    LET stops == {d \in 0..(mp.icap - 1) :
                    LET s == Index(h, mp)[SlotAt(mp, KeyHash[k], d)]
                    IN  \/ s.control = 128
                        \/ /\ s.control = Tag(KeyHash[k])
                           /\ EntryMatches(h, Entries(h, mp)[s.number + 1], k)}
    IN  SlotAt(mp, KeyHash[k], Min(stops))

\* The entry number of a key, or -1.
map_find(h, mp, k) ==
    IF mp.icap = 0 THEN {}
    ELSE LET s == Index(h, mp)[map_slot(h, mp, k)]
         IN  IF s.control = 128 THEN {} ELSE {s.number}

\* The entry n, whose hash is given, filed in the first free slot of its probe.
map_file(idx, mp, hash, n) ==
    LET d == Min({x \in 0..(mp.icap - 1) : idx[SlotAt(mp, hash, x)].control = 128})
    IN  [idx EXCEPT ![SlotAt(mp, hash, d)] = [control |-> Tag(hash), number |-> n - 1]]

\* An index of icap slots in which every entry is filed by its own hash.
map_filed(entries, mp) ==
    LET filed[n \in 0..Len(entries)] ==
            IF n = 0 THEN [s \in 1..mp.icap |-> FreeSlot]
            ELSE map_file(filed[n - 1], mp, entries[n].hash, n)
    IN  filed

map_place(entries, mp) == map_filed(entries, mp)[Len(entries)]

Doublings(n) == {n * u : u \in {1, 2, 4, 8, 16}}

\* The index grows until three quarters of it hold what is needed.  The new
\* index is made before the old one is given back.
map_reindexed(mp, h, made, next) ==
    IF made.p = 0 THEN [mp |-> mp, h |-> h, ok |-> FALSE]
    ELSE LET grown == [mp EXCEPT !.index = made.p, !.icap = next]
         IN  [mp |-> grown, ok |-> TRUE,
              h |-> [allocator_free(mp.by, made.h, mp.index) EXCEPT
                        !.data[made.p] = map_place(Entries(h, mp), grown)]]

map_reindex(mp, h, needed, grows) ==
    LET first == IF mp.icap = 0 THEN IndexFirst ELSE mp.icap
        next == Min({n \in Doublings(first) : needed <= (n * 3) \div 4})
    IN  IF next # first /\ next \div 2 > IndexLimit
        THEN [mp |-> mp, h |-> h, ok |-> FALSE]
        ELSE IF next = mp.icap THEN [mp |-> mp, h |-> h, ok |-> TRUE]
        ELSE map_reindexed(mp, h, allocator_alloc(mp.by, h, next * 5, grows), next)

map_reserved(mp, h, moved, next) ==
    IF moved.p = 0 THEN [mp |-> mp, h |-> h, ok |-> FALSE]
    ELSE [mp |-> [mp EXCEPT !.entries = moved.p, !.cap = next], h |-> moved.h, ok |-> TRUE]

map_reserve(mp, h, needed, grows) ==
    LET first == IF mp.cap = 0 THEN EntriesFirst ELSE mp.cap * 2
        next == Min({n \in Doublings(first) : n >= needed})
    IN  IF needed <= mp.cap THEN [mp |-> mp, h |-> h, ok |-> TRUE]
        ELSE IF next > EntriesLimit \div mapEntrySize THEN [mp |-> mp, h |-> h, ok |-> FALSE]
        ELSE map_reserved(mp, h,
                 allocator_realloc(mp.by, h, mp.entries, mp.cap * mapEntrySize,
                                   next * mapEntrySize, mapEntrySize, grows), next)

\* The new entry behind the others, and its slot.
map_write_entry(mp, h, slot, k, word, v) ==
    [mp |-> [mp EXCEPT !.len = @ + 1],
     h |-> [h EXCEPT
        !.data[mp.entries] = SubSeq(@, 1, mp.len) \o
            <<[hash |-> KeyHash[k], len |-> KeyLen[k], key |-> word, value |-> v]>>,
        !.data[mp.index][slot] = [control |-> Tag(KeyHash[k]), number |-> mp.len]],
     ok |-> TRUE]

map_replace(mp, h, slot, v) ==
    [mp |-> mp, ok |-> TRUE,
     h |-> [h EXCEPT !.data[mp.entries][Index(h, mp)[slot].number + 1].value = v]]

\* A key of any length: the index has room for one more before the key is
\* looked up; a long key is copied before the entries grow, and its copy is
\* given back when they cannot.
map_insert_entry(room, slot, k, copy, v) ==
    IF room.ok
    THEN map_write_entry(room.mp, room.h, slot, k, IF ShortKey(k) THEN k ELSE copy, v)
    ELSE [room EXCEPT !.h = IF ShortKey(k) THEN @
                            ELSE allocator_free(room.mp.by, @, copy)]

map_insert_keyed(mp, c, slot, k, v, grows) ==
    IF c.p = 0 THEN [mp |-> mp, h |-> c.h, ok |-> FALSE]
    ELSE map_insert_entry(
             map_reserve(mp, [c.h EXCEPT !.data[c.p] = <<k>>], mp.len + 1, grows),
             slot, k, c.p, v)

map_insert_at(mp, h, slot, k, v, grows) ==
    IF Index(h, mp)[slot].control # 128 THEN map_replace(mp, h, slot, v)
    ELSE IF ShortKey(k)
         THEN map_insert_entry(map_reserve(mp, h, mp.len + 1, grows), slot, k, 0, v)
    ELSE map_insert_keyed(mp, allocator_alloc(mp.by, h, KeyLen[k], grows), slot, k, v, grows)

map_insert_indexed(r, k, v, grows) ==
    IF r.ok THEN map_insert_at(r.mp, r.h, map_slot(r.h, r.mp, k), k, v, grows) ELSE r

map_insert(mp, h, k, v, grows) ==
    map_insert_indexed(map_reindex(mp, h, mp.len + 1, grows), k, v, grows)

\* A key of eight bytes handed over as the word it is: the helpers are called
\* only when the index or the entries must grow.
map_insert_word(mp, h, k, v, grows) ==
    IF (mp.len + 1) * 4 > mp.icap * 3
    THEN map_insert_indexed(map_reindex(mp, h, mp.len + 1, grows), k, v, grows)
    ELSE map_insert_at(mp, h, map_slot(h, mp, k), k, v, grows)

\* The lookup written in place reads a group of control bytes at a time.  The
\* borrow test marks every byte equal to the tag, and also a byte that differs
\* from it in its lowest bit above a marked one; the comparison of the entry
\* turns those away.  A group past the last byte is left to the helper, which
\* starts again and steps slot by slot.
Differ(a, b) == IF a = b THEN "same"
                ELSE IF a \div 2 = b \div 2 THEN "lowest" ELSE "more"

map_word_group(h, mp, k, from) ==
    LET byte(i) == Index(h, mp)[from + i + 1].control
        empties == {i \in 0..(GroupWidth - 1) : byte(i) = 128}
        first == IF empties = {} THEN GroupWidth ELSE Min(empties)
        marked == {i \in 0..(first - 1) :
                    \E j \in 0..i : /\ Differ(byte(j), Tag(KeyHash[k])) = "same"
                                    /\ \A x \in (j + 1)..i :
                                         Differ(byte(x), Tag(KeyHash[k])) = "lowest"}
        entry(i) == Index(h, mp)[from + i + 1].number
    IN  [found |-> {entry(i) : i \in {x \in marked :
                        EntryMatches(h, Entries(h, mp)[entry(x) + 1], k)}},
         ends |-> empties # {}]

map_word_lookup(h, mp, k) ==
    LET from(g) == (KeyHash[k] + g * GroupWidth) % mp.icap
        whole == {g \in 0..(mp.icap \div GroupWidth) :
                    \A j \in 0..g : from(j) + GroupWidth <= mp.icap}
        answer(g) == map_word_group(h, mp, k, from(g))
        settled == {g \in whole : answer(g).found # {} \/ answer(g).ends}
    IN  IF mp.icap = 0 THEN {}
        ELSE IF settled # {} THEN answer(Min(settled)).found
        ELSE map_find(h, mp, k)

\* The lookup a program's get, at, at_mut and contains make.
map_get(h, mp, k) == IF mp.words THEN map_word_lookup(h, mp, k) ELSE map_find(h, mp, k)

\* The copy of a long key goes back.
map_release_key(mp, h, e) == IF e.len > 8 THEN allocator_free(mp.by, h, e.key) ELSE h

\* Mutant: the entries close the gap, the index is filed as if the last entry
\* had taken it.
map_remove_unfiled(mp, h, n) ==
    LET all == Entries(h, mp)
        e == all[n]
        moved == Front([all EXCEPT ![n] = Last(all)])
    IN  [mp |-> [mp EXCEPT !.len = @ - 1],
         h |-> [map_release_key(mp, h, e) EXCEPT
                   !.data[mp.entries] = RemoveAt(@, n),
                   !.data[mp.index] = map_place(moved, mp)]]

\* The value goes out, a key copy goes back, the entries behind close the gap
\* and the index is filed anew.
map_remove(mp, h, n) ==
    LET e == Entries(h, mp)[n]
        left == RemoveAt(Entries(h, mp), n)
    IN  [mp |-> [mp EXCEPT !.len = @ - 1],
         h |-> [map_release_key(mp, h, e) EXCEPT
                   !.data[mp.entries] = left, !.data[mp.index] = map_place(left, mp)]]

\* The heap after the key copies of the first n entries went back.
map_released(mp, h) ==
    LET released[n \in 0..Len(Entries(h, mp))] ==
            IF n = 0 THEN h ELSE map_release_key(mp, released[n - 1], Entries(h, mp)[n])
    IN  released

map_deinit(mp, h) ==
    LET keys == map_released(mp, h)[Len(Entries(h, mp))]
    IN  allocator_free(mp.by, allocator_free(mp.by, keys, mp.entries), mp.index)

map_key_at(h, mp, i) ==
    LET e == Entries(h, mp)[i] IN IF e.len <= 8 THEN e.key ELSE h.data[e.key][1]

Position(s, k) == CHOOSE i \in DOMAIN s : s[i].key = k
Holds(s, k) == \E i \in DOMAIN s : s[i].key = k

MapNew(a, words) ==
    /\ Running /\ ~map.live
    /\ map' = [NoMap EXCEPT !.live = TRUE, !.by = a, !.words = words]
    /\ stored' = [stored EXCEPT !.map = <<>>]
    /\ UNCHANGED <<heap, array, arena, box, instances, trapped, program>>

\* An insertion that answers OutOfMemory may leave a larger index behind.
MapInsert(k, v, grows) ==
    /\ Running /\ map.live /\ (map.words => KeyLen[k] = 8)
    /\ \E r \in {IF map.words THEN map_insert_word(map, heap, k, v, grows)
                 ELSE map_insert(map, heap, k, v, grows)} :
        /\ heap' = r.h
        /\ map' = r.mp
        /\ stored' = [stored EXCEPT !.map =
              IF ~r.ok THEN @
              ELSE IF Holds(@, k) THEN [@ EXCEPT ![Position(@, k)].value = v]
              ELSE Append(@, [key |-> k, value |-> v])]
    /\ UNCHANGED <<array, arena, box, instances, trapped, program>>

MapRemove(k) ==
    /\ Running /\ map.live
    /\ \E number \in map_find(heap, map, k) :
       \E r \in {map_remove(map, heap, number + 1)} :
        /\ heap' = r.h
        /\ map' = r.mp
        /\ stored' = [stored EXCEPT !.map =
              IF Holds(@, k) THEN RemoveAt(@, Position(@, k)) ELSE @]
    /\ UNCHANGED <<array, arena, box, instances, trapped, program>>

MapDeinit ==
    /\ Running /\ map.live
    /\ heap' = map_deinit(map, heap)
    /\ map' = NoMap
    /\ stored' = [stored EXCEPT !.map = <<>>]
    /\ UNCHANGED <<array, arena, box, instances, trapped, program>>

-----------------------------------------------------------------------------
(***************************************************************************)
(* The arena: an array whose elements are named by handles, each arena     *)
(* with an origin of its own.                                              *)
(***************************************************************************)
\* Mutant: every arena begins its handles at the same number.
arena_origin_shared(n) == 1

arena_origin(n) == n * ArenaSpan + 1

ArenaNew(a) ==
    /\ Running /\ ~arena.live
    /\ IF instances >= MaxInstances THEN Trap
       ELSE /\ instances' = instances + 1
            /\ arena' = [NoArena EXCEPT !.live = TRUE, !.by = a,
                                        !.origin = arena_origin(instances + 1)]
            /\ UNCHANGED <<heap, array, map, box, trapped, stored, program>>

ArenaFull(ar) == ar.len >= ArenaSpan - 1

\* The handle names the element by the arena's origin and its place.
ArenaAdd(v, grows) ==
    /\ Running /\ arena.live
    /\ IF ArenaFull(arena) THEN Trap
       ELSE \E room \in {array_reserve(arena, heap, arena.len + 1, grows)} :
            /\ room.ok
            /\ heap' = array_write(room.arr, room.h, <<v>>)
            /\ arena' = [room.arr EXCEPT !.len = @ + 1]
            /\ stored' = [stored EXCEPT !.issued =
                  {i \in @ : i.handle # arena.origin + arena.len \/ i.by # instances} \cup
                  {[handle |-> arena.origin + arena.len, by |-> instances,
                    place |-> arena.len + 1, value |-> v]}]
            /\ UNCHANGED <<array, map, box, instances, trapped, program>>

\* A handle is taken relative to the origin and must lie below the length;
\* the subtraction wraps, so a lower handle is far above it.  at ends the
\* program for any other handle, at_mut answers nothing.
arena_at(h, ar, handle) ==
    IF handle >= ar.origin /\ handle - ar.origin < ar.len
    THEN <<h.data[ar.data][handle - ar.origin + 1]>> ELSE <<>>

ArenaAt(handle) == Running /\ arena.live /\ arena_at(heap, arena, handle) = <<>> /\ Trap

ArenaPopOrPanic ==
    /\ Running /\ arena.live
    /\ IF arena.len = 0 THEN Trap
       ELSE /\ arena' = [arena EXCEPT !.len = @ - 1]
            /\ heap' = Truncated(arena, heap, arena.len - 1)
            /\ UNCHANGED <<array, map, box, instances, trapped, stored, program>>

ArenaDeinit ==
    /\ Running /\ arena.live
    /\ heap' = allocator_free(arena.by, heap, arena.data)
    /\ arena' = NoArena
    /\ UNCHANGED <<array, map, box, instances, trapped, stored, program>>

-----------------------------------------------------------------------------
(***************************************************************************)
(* The box: one cell of its own.                                           *)
(***************************************************************************)
BoxNew(a, v, grows) ==
    /\ Running /\ ~box.live
    /\ \E cell \in {allocator_alloc(a, heap, 8, grows)} :
        /\ cell.p # 0
        /\ heap' = [cell.h EXCEPT !.data[cell.p] = <<v>>]
        /\ box' = [live |-> TRUE, by |-> a, p |-> cell.p]
    /\ stored' = [stored EXCEPT !.box = <<v>>]
    /\ UNCHANGED <<array, map, arena, instances, trapped, program>>

\* take moves the payload out and deinit leaves it: both give the cell back.
BoxRelease ==
    /\ Running /\ box.live
    /\ heap' = allocator_free(box.by, heap, box.p)
    /\ box' = NoBox
    /\ stored' = [stored EXCEPT !.box = <<>>]
    /\ UNCHANGED <<array, map, arena, instances, trapped, program>>

-----------------------------------------------------------------------------
ArrayStep ==
    \/ \E a \in program.array, size \in program.sizes : ArrayNew(a, size)
    \/ \E v \in program.values, grows \in BOOLEAN : ArrayAppend(v, grows)
    \/ \E v, w \in program.values, grows \in BOOLEAN : ArrayAppendBytes(<<v, w, v>>, grows)
    \/ \E n \in {2, 5}, grows \in BOOLEAN : ArrayReserve(n, grows)
    \/ ArrayPopOrPanic
    \/ \E n \in 0..MaxElements : ArrayTruncate(n)
    \/ \E i \in 0..MaxElements, v \in program.values : ArraySet(i, v)
    \/ \E i, j \in 0..MaxElements : ArraySwap(i, j)
    \/ ArrayDeinit

MapStep ==
    \/ \E a \in program.map, words \in program.words : MapNew(a, words)
    \/ \E k \in program.keys, v \in program.values, grows \in BOOLEAN : MapInsert(k, v, grows)
    \/ \E k \in program.keys : MapRemove(k)
    \/ MapDeinit

ArenaStep ==
    \/ \E a \in program.arena : ArenaNew(a)
    \/ \E v \in program.values, grows \in BOOLEAN : ArenaAdd(v, grows)
    \/ \E i \in stored.issued : ArenaAt(i.handle)
    \/ ArenaPopOrPanic
    \/ ArenaDeinit

BoxStep ==
    \/ \E a \in program.box, v \in program.values, grows \in BOOLEAN : BoxNew(a, v, grows)
    \/ BoxRelease

Next == ArrayStep \/ MapStep \/ ArenaStep \/ BoxStep

Spec == Init /\ [][Next]_vars

-----------------------------------------------------------------------------
(***************************************************************************)
(* Properties.                                                             *)
(***************************************************************************)

\* The blocks a live container owns: its allocator, the address and the bytes
\* it asked for.
KeyCopies ==
    {[by |-> map.by, p |-> e.key, size |-> e.len] :
        e \in {x \in Range(Entries(heap, map)) : x.len > 8}}

Owned ==
    LET all == {[by |-> array.by, p |-> array.data, size |-> array.cap * array.size],
                [by |-> arena.by, p |-> arena.data, size |-> arena.cap * arena.size],
                [by |-> map.by, p |-> map.entries, size |-> map.cap * mapEntrySize],
                [by |-> map.by, p |-> map.index, size |-> map.icap * 5],
                [by |-> box.by, p |-> box.p, size |-> 8]} \cup KeyCopies
    IN  {o \in all : o.p # 0}

\* Every block in use belongs to exactly one live container and holds what was
\* asked for, so nothing is leaked or handed out twice, also when one of the
\* allocations of an insertion failed after another succeeded; blocks of the
\* fixed buffer lie below its bump offset and do not overlap.
OneOwner ==
    LET paged == {o \in Owned : o.by # "fixed"}
        fixed == Owned \ paged
    IN  /\ {o.p - HeaderSize : o \in paged} = InUse(heap)
        /\ Cardinality({o.p : o \in paged}) = Cardinality(paged)
        /\ \A o \in paged : o.size <= heap.cap[o.p - HeaderSize]
        /\ \A o \in fixed : o.p + o.size <= FixedBase + heap.used
        /\ \A o1, o2 \in fixed : o1 # o2 =>
              o1.p + o1.size <= o2.p \/ o2.p + o2.size <= o1.p
        /\ DOMAIN heap.data = {o.p : o \in Owned}

\* The page allocator keeps its book: through any order of allocations,
\* growth in place or by moving, and releases, the blocks tile the heap
\* without a gap or an overlap, none past the memory there is, and the free
\* list is in address order with every two neighbours that touch made one
\* (page_alloc, page_free); and every block in use has its one owner.
HeapSound ==
    /\ Tiled(heap) /\ FreeListSound(heap)
    /\ heap.end <= heap.pages * PageSize /\ heap.end <= AddressLimit
    /\ OneOwner

\* An array and a box hold what the program was told they hold, whether the
\* storage stayed, grew in place or was copied to a new block.
ArrayHolds ==
    /\ array.live => /\ array.len = Len(stored.array) /\ array.len <= array.cap
                     /\ array.size # 0 => Contents(heap, array) = stored.array
    /\ box.live => heap.data[box.p] = stored.box

\* Every lookup of the map, in place by groups or slot by slot, finds exactly
\* the keys inserted and not removed, with their last values, and the keys are
\* listed in insertion order; this holds through growth of the index and of
\* the entries, failed insertions and the refiling of a removal.
MapHolds ==
    map.live =>
        /\ map.len = Len(stored.map)
        /\ \A i \in 1..map.len : map_key_at(heap, map, i) = stored.map[i].key
        /\ \A k \in {x \in Keys : map.words => KeyLen[x] = 8} :
              map_get(heap, map, k) =
                  IF Holds(stored.map, k) THEN {Position(stored.map, k) - 1} ELSE {}
        /\ \A i \in 1..map.len : Entries(heap, map)[i].value = stored.map[i].value

\* A handle resolves in an arena only when that arena issued it and the element
\* is still there, and then to the value last stored under it: handles of
\* other arenas, gone or not, never do (arena_origin, arena.add, arena.at).
HandlesResolve ==
    arena.live => \A i \in stored.issued :
        arena_at(heap, arena, i.handle) =
            IF i.by = instances /\ i.place <= arena.len THEN <<i.value>> ELSE <<>>
=============================================================================
