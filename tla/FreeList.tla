------------------------------ MODULE FreeList ------------------------------
(***************************************************************************)
(* The kernel heap (kernel/mm/kheap.c) on its intrusive first-fit free    *)
(* list (lib/allocator/freelist.c).  Addresses and lengths are in words,   *)
(* bytes in the code; a block begins with a header of Header words, sizeof *)
(* (FreeListBlockEntry).  kalloc and kfree run under kheap.lock, so each   *)
(* is one step.  The list is a sequence, in the order of its next          *)
(* pointers; the size in the header of a block that a caller has is in     *)
(* blocks.  Sums of lengths are unsigned and wrap at SizeMod.  A request  *)
(* whose length wraps leaves headers that overlap: the behaviour ends.     *)
(***************************************************************************)
EXTENDS Integers, FiniteSets, Sequences, SequencesExt

CONSTANTS
    Top,        \* the kernel's memory region is the words 0 .. Top - 1
    SizeMod,    \* 2^64, one more than the largest usize
    Header,     \* sizeof(FreeListBlockEntry)
    PageSize,   \* PAGE_SIZE
    Base,       \* where the first pool is
    Initial,    \* INITIAL_HEAP_SIZE
    MaxHeap,    \* MAX_HEAP_SIZE
    Sizes,      \* the lengths that callers ask for
    MayFail     \* whether vm_alloc_mem may run out of memory

ASSUME FreeListAssumption ==
    /\ {Top, SizeMod, Header, PageSize, Base, Initial, MaxHeap} \subseteq Nat
    /\ Header > 0 /\ Header <= PageSize /\ Header <= Initial
    /\ PageSize < SizeMod /\ SizeMod % PageSize = 0
    /\ Sizes \subseteq 1 .. SizeMod - 1
    /\ Base + Initial <= Top

VARIABLES
    freeList,   \* the list: records of an address and a size
    blocks,     \* the blocks that callers have: address -> size
    pool,       \* the words that belong to the heap
    capacity,
    heapFault   \* none; head, size: an assertion failed; pool: an error value was used as memory;
                \* wrap: the length of a request wrapped

kheapVars == <<freeList, blocks, pool, capacity, heapFault>>

Words == 0 .. Top - 1
Extent(at, size) == at .. at + size - 1

\* kheap_init
KheapInit ==
    /\ freeList = <<[at |-> Base, size |-> Initial]>>
    /\ blocks = <<>>
    /\ pool = Extent(Base, Initial)
    /\ capacity = Initial
    /\ heapFault = "none"

-----------------------------------------------------------------------------
\* Block i of the list swallows its successor if the two touch.
Coalesce(list, i) ==
    IF i \in 1 .. Len(list) - 1 /\ list[i].at + list[i].size = list[i + 1].at
    THEN [RemoveAt(list, i + 1) EXCEPT ![i].size = @ + list[i + 1].size]
    ELSE list

\* Where the search for the place of a block at this address ends.
Place(list, at) ==
    IF list = <<>> \/ at < list[1].at
    THEN 1
    ELSE LET later == {i \in 2 .. Len(list) : list[i].at >= at}
         IN  IF later = {} THEN Len(list) + 1 ELSE Min(later)

\* Mutant: the block is merged with its successor only.
MutInsert(list, block) ==
    LET i == Place(list, block.at)
    IN  Coalesce(InsertAt(list, i, block), i)

\* The common part of freelist_free and freelist_add_region.
Insert(list, block) ==
    LET i == Place(list, block.at)
        right == Coalesce(InsertAt(list, i, block), i)
    IN  Coalesce(right, i - 1)

\* actual_size, and the longest request for which it does not wrap.
Actual(size) == (size + Header) % SizeMod
Longest == SizeMod - Header - 1

\* Mutant: the header is forgotten in the search.
MutFits(list, size) == {i \in 1 .. Len(list) : list[i].size >= size}

\* The blocks that are long enough, by their position in the list.
Fits(list, size) == {i \in 1 .. Len(list) : list[i].size >= Actual(size)}

\* Mutant: the rest is split off without room for its header.
MutSplits(block, size) == block.size > Actual(size)

\* Whether the rest of a block can be a block of its own.
Splits(block, size) == block.size - Actual(size) >= Header

\* The list without the beginning of block i, or without all of it.
Take(list, i, size) ==
    IF Splits(list[i], size)
    THEN [list EXCEPT ![i] = [at |-> @.at + Actual(size), size |-> @.size - Actual(size)]]
    ELSE RemoveAt(list, i)

\* Mutant: a block that is handed out whole is recorded with the length asked for.
MutTaken(block, size) == Actual(size)

\* The size that the header of the block says afterwards.
Taken(block, size) == IF Splits(block, size) THEN Actual(size) ELSE block.size

\* freelist_alloc: the first block that is long enough.
AllocFrom(list, size) ==
    LET i == Min(Fits(list, size))
    IN  /\ freeList' = Take(list, i, size)
        /\ blocks' = [a \in DOMAIN blocks \union {list[i].at} |->
                        IF a = list[i].at THEN Taken(list[i], size) ELSE blocks[a]]
        /\ heapFault' = IF size > Longest THEN "wrap" ELSE heapFault

\* round_up, which is 0 for a length in the last page of all.
RoundUp(size) == (((size + PageSize - 1) \div PageSize) * PageSize) % SizeMod

\* The test of grow_heap.
MayGrowBy(size) == (capacity + size) % SizeMod <= MaxHeap

\* Where vm_alloc_mem can find pages for a new pool.
NewPools(size) ==
    {at \in Words : /\ at % PageSize = 0
                    /\ at + size <= Top
                    /\ Extent(at, size) \intersect pool = {}}

-----------------------------------------------------------------------------
(* kalloc from the list as it is.                                          *)
Kalloc(size) ==
    /\ heapFault = "none"
    /\ freeList # <<>>
    /\ Fits(freeList, size) # {}
    /\ AllocFrom(freeList, size)
    /\ UNCHANGED <<pool, capacity>>

(* kalloc when nothing is long enough: grow_heap adds the pages that the   *)
(* length alone needs, and the second try may fail nevertheless.           *)
KallocGrow(size) ==
    LET more == RoundUp(size)
    IN  /\ heapFault = "none"
        /\ freeList # <<>>
        /\ Fits(freeList, size) = {}
        /\ MayGrowBy(size) /\ more # 0
        /\ \E at \in NewPools(more) :
            LET list == Insert(freeList, [at |-> at, size |-> more])
            IN  /\ pool' = pool \union Extent(at, more)
                /\ capacity' = capacity + more
                /\ IF Fits(list, size) # {}
                   THEN AllocFrom(list, size)
                   ELSE freeList' = list /\ UNCHANGED <<blocks, heapFault>>

(* kalloc at the limit of the heap returns -ENOMEM.                        *)
KallocFails(size) ==
    /\ heapFault = "none"
    /\ freeList # <<>>
    /\ Fits(freeList, size) = {}
    /\ ~MayGrowBy(size)
    /\ UNCHANGED kheapVars

(* vm_alloc_mem has no room or no memory: its error value goes to          *)
(* freelist_add_region, which writes a header there.  Asked for no pages   *)
(* it fails an assertion of region_alloc.                                  *)
KallocNoPages(size) ==
    /\ heapFault = "none"
    /\ freeList # <<>>
    /\ Fits(freeList, size) = {}
    /\ MayGrowBy(size)
    /\ MayFail \/ RoundUp(size) = 0 \/ NewPools(RoundUp(size)) = {}
    /\ heapFault' = IF RoundUp(size) = 0 THEN "size" ELSE "pool"
    /\ UNCHANGED <<freeList, blocks, pool, capacity>>

\* kfree
Kfree(at) ==
    /\ heapFault = "none"
    /\ at \in DOMAIN blocks
    /\ freeList # <<>>
    /\ freeList' = Insert(freeList, [at |-> at, size |-> blocks[at]])
    /\ blocks' = [a \in DOMAIN blocks \ {at} |-> blocks[a]]
    /\ UNCHANGED <<pool, capacity, heapFault>>

(* Both freelist_alloc and freelist_free assert that the list is not empty.*)
EmptyList ==
    /\ heapFault = "none"
    /\ freeList = <<>>
    /\ heapFault' = "head"
    /\ UNCHANGED <<freeList, blocks, pool, capacity>>

KheapNext ==
    \/ \E size \in Sizes :
        \/ Kalloc(size)
        \/ KallocGrow(size)
        \/ KallocFails(size)
        \/ KallocNoPages(size)
    \/ \E at \in DOMAIN blocks : Kfree(at)
    \/ EmptyList

KheapSpec == KheapInit /\ [][KheapNext]_kheapVars

-----------------------------------------------------------------------------
\* Every block of the heap, free or not, with its words.
Extents == {Extent(freeList[i].at, freeList[i].size) : i \in 1 .. Len(freeList)}
Used == {Extent(a, blocks[a]) : a \in DOMAIN blocks}

(* Splitting and merging neither lose a word nor give it to two blocks: at *)
(* every moment the free blocks and the blocks of the callers cut the pool *)
(* into pieces, and capacity is its length.                                *)
PoolIsTiled ==
    /\ UNION (Extents \union Used) = pool
    /\ Cardinality(pool) = capacity
    /\ Len(freeList) + Cardinality(DOMAIN blocks) = Cardinality(Extents \union Used)
    /\ \A x, y \in Extents \union Used : x # y => x \intersect y = {}

(* The list is in the order of addresses and no two blocks of it touch, so *)
(* that memory given back in any order can be handed out in one piece.     *)
FreeBlocksAreMaximal ==
    \A i \in 1 .. Len(freeList) - 1 : freeList[i].at + freeList[i].size < freeList[i + 1].at

(* A block in the list can hold its own header.                            *)
RoomForHeader == \A i \in 1 .. Len(freeList) : freeList[i].size >= Header

(* The layout of the heap after any sequence of kalloc, kfree and growth,  *)
(* up to a request whose length wraps (see SplitLeavesRoom).               *)
HeapLayout == heapFault # "wrap" => PoolIsTiled /\ FreeBlocksAreMaximal /\ RoomForHeader

\* The words of a block that its caller may use: all but the header.
Usable(a) == Extent(a + Header, blocks[a] - Header)

Promise == INSTANCE Heap WITH owned <- {Usable(a) : a \in DOMAIN blocks}, broken <- heapFault = "wrap"

(* The heap keeps the promise of its interface: every kalloc returns memory*)
(* of the heap that nobody has and that is long enough, and kfree gives    *)
(* back that block alone.  The promise ends with a request for more than   *)
(* Longest, and with nothing else.                                         *)
KeepsPromise == Promise!HeapSpec

-----------------------------------------------------------------------------
(* freelist_alloc splits "only if another block can fit": the rest does    *)
(* not begin inside the header of the block it was split from.  The code   *)
(* breaks this for a request longer than Longest, as size + sizeof         *)
(* (FreeListBlockEntry) wraps to less than a header.                       *)
SplitLeavesRoom ==
    \A a \in DOMAIN blocks, i \in 1 .. Len(freeList) : freeList[i].at \notin Extent(a, Header)

(* The assertion of freelist_alloc and freelist_free: the list has a head. *)
ListHasHead == heapFault # "head"

(* The assertion of freelist_add_region means memory: a pool is never an   *)
(* error value.                                                            *)
PoolIsMemory == heapFault # "pool"
=============================================================================
