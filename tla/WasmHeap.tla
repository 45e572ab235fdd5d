------------------------------- MODULE WasmHeap -------------------------------
(***************************************************************************)
(* The allocators the wasm backend emits into every module that allocates  *)
(* (internal/wasm/allocator.go): the page allocator with its free list,    *)
(* the bump allocator over a caller's buffer, a user's callbacks, and the  *)
(* dispatch between them.  They are operators on a heap h, a record of     *)
(*                                                                         *)
(*   end     $__heap_end, the first address no block was cut from          *)
(*   pages   memory.size                                                   *)
(*   free    the free list from $__free_head, as block addresses in order  *)
(*   cap     the capacity word of every block header, free or in use       *)
(*   used    the bump offset of the fixed buffer                           *)
(*   data    what a block in use holds, by the address handed out          *)
(*                                                                         *)
(* and an allocation answers [h |-> the heap after, p |-> address or 0].   *)
(* Bytes no program can read any more are not kept in data.                *)
(***************************************************************************)
EXTENDS Naturals, Sequences, FiniteSets, FiniteSetsExt, SequencesExt

CONSTANTS
    HeapBase,       \* the initial $__heap_end, behind the module's own data
    PageSize,       \* bytes of one memory page: 65536 in wasm
    AddressLimit,   \* the highest end of a block, 2^32 - 65536 in the code
    MaxRequest,     \* the largest request, 2147483640 in the code
    FixedBase,      \* where the data of the fixed buffer begins
    FixedCapacity   \* the bytes behind the fixed buffer's header

ASSUME HeapAssumption ==
    /\ {HeapBase, PageSize, AddressLimit, MaxRequest, FixedBase, FixedCapacity}
           \subseteq Nat
    /\ PageSize > 0 /\ HeapBase % 8 = 0 /\ FixedBase % 16 = 0 /\ FixedBase > 0
    /\ FixedBase + FixedCapacity <= HeapBase /\ HeapBase <= AddressLimit

HeaderSize == 8
SplitMinimum == 16

RoundUp(n, unit) == ((n + unit - 1) \div unit) * unit

EmptyHeap ==
    [end |-> HeapBase, pages |-> RoundUp(HeapBase, PageSize) \div PageSize,
     free |-> <<>>, cap |-> <<>>, used |-> 0, data |-> <<>>]

\* A function with one more argument, or one fewer.
Put(f, x, v) == [y \in DOMAIN f \cup {x} |-> IF y = x THEN v ELSE f[y]]
Drop(f, x) == [y \in DOMAIN f \ {x} |-> f[y]]

Failed(h) == [h |-> h, p |-> 0]
Allocated(h, p) == [h |-> [h EXCEPT !.data = Put(@, p, <<>>)], p |-> p]

-----------------------------------------------------------------------------
(***************************************************************************)
(* The page allocator.                                                     *)
(***************************************************************************)

\* The first free block that is large enough is taken; what is left of it
\* becomes a free block in its place when a header and a word fit there.
page_alloc_free_list(h, need, i) ==
    LET block == h.free[i]
        remaining == h.cap[block] - need
        split == block + HeaderSize + need
    IN  IF remaining >= SplitMinimum
        THEN Allocated([h EXCEPT
                 !.free[i] = split,
                 !.cap = Put([@ EXCEPT ![block] = need], split, remaining - HeaderSize)],
             block + HeaderSize)
        ELSE Allocated([h EXCEPT !.free = RemoveAt(@, i)], block + HeaderSize)

\* A block cut from the end of the heap, after memory has grown to hold it;
\* grows says whether the host lets it grow.
page_alloc_fresh(h, need, grows) ==
    LET end == h.end + HeaderSize + need
        required == RoundUp(end, PageSize) \div PageSize
    IN  IF end > AddressLimit \/ (required > h.pages /\ ~grows)
        THEN Failed(h)
        ELSE Allocated([h EXCEPT !.end = end,
                                 !.pages = IF required > @ THEN required ELSE @,
                                 !.cap = Put(@, h.end, need)],
             h.end + HeaderSize)

page_alloc(h, size, grows) ==
    LET need == RoundUp(IF size = 0 THEN 1 ELSE size, 8)
        fits == {i \in DOMAIN h.free : h.cap[h.free[i]] >= need}
    IN  IF size > MaxRequest THEN Failed(h)
        ELSE IF fits # {} THEN page_alloc_free_list(h, need, Min(fits))
        ELSE page_alloc_fresh(h, need, grows)

\* The list position a freed block goes to: behind every lower address, as
\* the scan stops at the first higher one.
page_free_position(h, block) ==
    LET higher == {i \in DOMAIN h.free : h.free[i] > block}
    IN  IF higher = {} THEN Len(h.free) + 1 ELSE Min(higher)

Adjacent(h, block, next) == block + HeaderSize + h.cap[block] = next

\* Mutant: the header of the block taken in is left out of the sum.
CoalesceLosesHeader(h, i) ==
    IF i \in 1..(Len(h.free) - 1) /\ Adjacent(h, h.free[i], h.free[i + 1])
    THEN [h EXCEPT !.free = RemoveAt(@, i + 1),
                   !.cap = Drop([@ EXCEPT ![h.free[i]] = @ + h.cap[h.free[i + 1]]],
                                h.free[i + 1])]
    ELSE h

\* The capacities after a block has taken in the next one, header and all.
Absorb(cap, block, next) ==
    Drop([cap EXCEPT ![block] = @ + HeaderSize + cap[next]], next)

\* The block at list position i takes in the one behind it when the two touch.
Coalesce(h, i) ==
    IF i \in 1..(Len(h.free) - 1) /\ Adjacent(h, h.free[i], h.free[i + 1])
    THEN [h EXCEPT !.free = RemoveAt(@, i + 1),
                   !.cap = Absorb(@, h.free[i], h.free[i + 1])]
    ELSE h

page_free(h, p) ==
    LET block == p - HeaderSize
        i == page_free_position(h, block)
        inserted == [h EXCEPT !.free = InsertAt(@, i, block), !.data = Drop(@, p)]
    IN  IF p = 0 THEN h ELSE Coalesce(Coalesce(inserted, i), i - 1)

\* The first bytes of a block's contents, whose entries are unit bytes each.
Copied(h, p, bytes, unit) == SubSeq(h.data[p], 1, Min({Len(h.data[p]), bytes \div unit}))

\* The heap in which the new block g.p holds the first bytes of the block p.
Moved(g, h, p, bytes, unit) == [g.h EXCEPT !.data[g.p] = Copied(h, p, bytes, unit)]

page_realloc_moved(g, h, p, bytes, unit) ==
    IF g.p = 0 THEN Failed(h)
    ELSE [h |-> page_free(Moved(g, h, p, bytes, unit), p), p |-> g.p]

page_realloc(h, p, old, new, unit, grows) ==
    IF p = 0 THEN page_alloc(h, new, grows)
    ELSE IF new <= h.cap[p - HeaderSize] THEN [h |-> h, p |-> p]
    ELSE page_realloc_moved(page_alloc(h, new, grows), h, p, Min({old, new}), unit)

-----------------------------------------------------------------------------
(***************************************************************************)
(* The fixed buffer: allocations are cut in order and none is given back,  *)
(* except that the last one may grow where it lies.                        *)
(***************************************************************************)
fixed_alignment(size) ==
    Min({a \in {1, 2, 4, 8, 16} : a >= size} \cup {16})

fixed_alloc(h, size) ==
    LET aligned == RoundUp(h.used, fixed_alignment(size))
    IN  IF aligned + size > FixedCapacity THEN Failed(h)
        ELSE Allocated([h EXCEPT !.used = aligned + size], FixedBase + aligned)

fixed_realloc_moved(g, h, p, bytes, unit) ==
    IF g.p = 0 \/ p = 0 THEN g
    ELSE [h |-> [Moved(g, h, p, bytes, unit) EXCEPT !.data = Drop(@, p)], p |-> g.p]

fixed_realloc(h, p, old, new, unit) ==
    IF p # 0 /\ p + old = FixedBase + h.used /\ h.used - old + new <= FixedCapacity
    THEN [h |-> [h EXCEPT !.used = @ - old + new], p |-> p]
    ELSE fixed_realloc_moved(fixed_alloc(h, new), h, p, Min({old, new}), unit)

-----------------------------------------------------------------------------
(***************************************************************************)
(* A user's allocator is two callbacks the program wrote.  Here they hand  *)
(* the request on to the page allocator, as the wrappers of the standard   *)
(* library do.                                                             *)
(***************************************************************************)
user_alloc(h, size, grows) == page_alloc(h, size, grows)
user_release(h, p) == page_free(h, p)

user_realloc_moved(g, h, p, bytes, unit) ==
    IF g.p = 0 \/ p = 0 THEN g
    ELSE [h |-> user_release(Moved(g, h, p, bytes, unit), p), p |-> g.p]

user_realloc(h, p, old, new, unit, grows) ==
    user_realloc_moved(user_alloc(h, new, grows), h, p, Min({old, new}), unit)

-----------------------------------------------------------------------------
(***************************************************************************)
(* The dispatch on the allocator's kind.                                   *)

allocator_alloc(a, h, size, grows) ==
    CASE a = "page" -> page_alloc(h, size, grows)
      [] a = "fixed" -> fixed_alloc(h, size)
      [] a = "user" -> user_alloc(h, size, grows)

allocator_realloc(a, h, p, old, new, unit, grows) ==
    CASE a = "page" -> page_realloc(h, p, old, new, unit, grows)
      [] a = "fixed" -> fixed_realloc(h, p, old, new, unit)
      [] a = "user" -> user_realloc(h, p, old, new, unit, grows)

\* The contents of a released fixed block are dead although its bytes stay.
allocator_free(a, h, p) ==
    CASE a = "page" -> page_free(h, p)
      [] a = "fixed" -> [h EXCEPT !.data = IF p = 0 THEN @ ELSE Drop(@, p)]
      [] a = "user" -> IF p = 0 THEN h ELSE user_release(h, p)

-----------------------------------------------------------------------------
(***************************************************************************)
(* What must hold of a heap.                                               *)
(***************************************************************************)
BlockEnd(h, block) == block + HeaderSize + h.cap[block]

\* The blocks tile the heap: the first starts at its base, every other where
\* one ends, and the last ends at the end.
Tiled(h) ==
    LET starts == DOMAIN h.cap
        ends == {BlockEnd(h, b) : b \in starts}
    IN  /\ starts \cup {h.end} = {HeapBase} \cup ends
        /\ Cardinality(ends) = Cardinality(starts)
        /\ \A b \in starts : h.cap[b] >= 8 /\ b % 8 = 0

\* The free list holds blocks in address order, and no two that touch.
FreeListSound(h) ==
    /\ Range(h.free) \subseteq DOMAIN h.cap
    /\ \A i \in 1..(Len(h.free) - 1) : BlockEnd(h, h.free[i]) < h.free[i + 1]

\* The blocks of the page heap that are in use.
InUse(h) == DOMAIN h.cap \ Range(h.free)
=============================================================================
