---------------------------- MODULE AddressSpace ----------------------------
(***************************************************************************)
(* User address spaces (kernel/mm/address_space.c) over their region       *)
(* allocator (lib/allocator/region.c, bitmap.c), the virtual memory        *)
(* manager (kernel/mm/vmm.c), the page tables (kernel/mm/paging.c) and the *)
(* physical frames (kernel/mm/pmm.c).                                      *)
(*                                                                         *)
(* Several CPUs work on address spaces, each under the lock of its space;  *)
(* they share the frames.  The loops that take frames run page by page, so *)
(* that memory may end in the middle of one.  The free frames are a set,   *)
(* and any of them is the next: what holds does not depend on which.  The  *)
(* code keeps them in a list, which becomes a cycle when a frame is given  *)
(* back that is in it: the fault "double".  Below its root, a page table   *)
(* is one frame, allocated with the first mapping.  None of the frames is  *)
(* physical frame 0, which a lookup takes for none (see KernelVm).  After  *)
(* a fault (a panic, a wild access, a broken free list) the model stops.   *)
(***************************************************************************)
EXTENDS Naturals, FiniteSets, Functions

CONSTANTS
    Cpus,
    Spaces,
    Frames,     \* the frames of pmm
    Foreign,    \* frames of somebody else, that may be mapped without ownership
    NPages,     \* the pages of USER_VM_RANGE_SIZE
    MaxAllocs,  \* CONFIG_VM_MAX_USER_ALLOCATIONS
    Counts,     \* the page counts that are asked for
    Junk,       \* whether the memory of a new bitmap may hold old data
    Null

ASSUME AddressSpaceAssumption ==
    /\ NPages \in Nat \ {0}
    /\ MaxAllocs \in Nat
    /\ Counts \subseteq Nat \ {0}
    /\ Junk \in BOOLEAN
    /\ Frames \intersect Foreign = {}
    /\ Null \notin Frames \union Foreign \union Cpus

Pages == 0 .. NPages - 1
Slots == 1 .. MaxAllocs
NoAlloc == [va |-> 0, n |-> 0]

VARIABLES
    status,     \* none, building, live, gone
    table,      \* the frames of the page table
    map,        \* what each page is mapped to
    allocs,     \* allocations of the region
    marked,     \* the pages that the bitmap says are allocated
    lock,       \* which CPU holds the lock of the space
    free,       \* the free frames
    pc,         \* idle, alloc, copy
    job,        \* the loop of a CPU: its space, the source of a copy, the slots and
                \* pages that it has still to visit, and the pages it has mapped
    depth,      \* irq_disable_depth of each CPU
    fault       \* none, remap, table, copy, lookup, double

spaceVars == <<status, table, map, allocs, marked>>
vars == <<spaceVars, lock, free, pc, job, depth, fault>>

NoJob == [space |-> Null, from |-> Null, todo |-> {}, mapped |-> 0]

Init ==
    /\ status = [s \in Spaces |-> "none"]
    /\ table = [s \in Spaces |-> {}]
    /\ map = [s \in Spaces |-> [p \in Pages |-> Null]]
    /\ allocs = [s \in Spaces |-> [i \in Slots |-> NoAlloc]]
    /\ marked = [s \in Spaces |-> {}]
    /\ lock = [s \in Spaces |-> Null]
    /\ free = Frames
    /\ pc = [c \in Cpus |-> "idle"]
    /\ job = [c \in Cpus |-> NoJob]
    /\ depth = [c \in Cpus |-> 0]
    /\ fault = "none"

-----------------------------------------------------------------------------
\* A CPU that is free to work on space s.
MayUse(c, s) ==
    /\ fault = "none"
    /\ pc[c] = "idle"
    /\ status[s] = "live"
    /\ lock[s] = Null

\* pmm_alloc: the frame that comes next.
PmmAlloc(frames) == CHOOSE f \in frames : TRUE

Run(va, n) == va .. va + n - 1
Least(i, S) == \A j \in S : i <= j

\* region_find: the first slot without an allocation.
FreeSlots(s) == {i \in Slots : allocs[s][i] = NoAlloc}

\* Mutant: the search does not stop at the end of the bitmap.
MutFreeRuns(s, n) == {va \in Pages : Run(va, n) \intersect marked[s] = {}}

\* bm_find_n_free_pages: where n pages are free.
FreeRuns(s, n) == {va \in Pages : Run(va, n) \subseteq Pages \ marked[s]}

\* *allocation = (RegionAllocation){ ... } and the bits of its pages.
Record(s, i, va, n) ==
    /\ Least(i, FreeSlots(s))
    /\ allocs' = [allocs EXCEPT ![s][i] = [va |-> va, n |-> n]]
    /\ marked' = [marked EXCEPT ![s] = @ \union Run(va, n)]

\* The pages of all allocations of space s, each with its slot.
Covered(s) ==
    {m \in Slots \X Pages : m[2] \in Run(allocs[s][m[1]].va, allocs[s][m[1]].n)}

\* The loops over allocations and pages meet m before k.
Before(m, k) == m[1] < k[1] \/ (m[1] = k[1] /\ m[2] < k[2])
Foremost(m, S) == \A k \in S \ {m} : Before(m, k)

(* paging_map of one page to frame f, which has left the free frames: the  *)
(* lower table is allocated untested, and a page that is mapped panics.    *)
PagingMap(s, p, f, remaining) ==
    IF map[s][p] # Null
    THEN /\ fault' = "remap"
         /\ free' = remaining
         /\ UNCHANGED <<table, map>>
    ELSE IF Cardinality(table[s]) > 1
    THEN /\ map' = [map EXCEPT ![s][p] = f]
         /\ free' = remaining
         /\ UNCHANGED <<table, fault>>
    ELSE IF remaining = {}
    THEN /\ fault' = "table"
         /\ free' = remaining
         /\ UNCHANGED <<table, map>>
    ELSE LET t == PmmAlloc(remaining) IN
         /\ table' = [table EXCEPT ![s] = @ \union {t}]
         /\ map' = [map EXCEPT ![s][p] = f]
         /\ free' = remaining \ {t}
         /\ UNCHANGED fault

-----------------------------------------------------------------------------
(* address_space_create: a root table and an empty region.  region_create  *)
(* clears the allocations and not the bitmap.                              *)
Create(c, s) ==
    /\ fault = "none"
    /\ pc[c] = "idle"
    /\ status[s] = "none"
    /\ free # {}
    /\ table' = [table EXCEPT ![s] = {PmmAlloc(free)}]
    /\ free' = free \ {PmmAlloc(free)}
    /\ \E junk \in IF Junk THEN SUBSET Pages ELSE {{}} :
        marked' = [marked EXCEPT ![s] = junk]
    /\ status' = [status EXCEPT ![s] = "live"]
    /\ UNCHANGED <<map, allocs, lock, pc, job, depth, fault>>

(* address_space_alloc: vm_alloc takes a run of pages from the region ...  *)
AllocStart(c, s, n) ==
    /\ MayUse(c, s)
    /\ \E i \in FreeSlots(s), va \in FreeRuns(s, n) :
        /\ Least(va, FreeRuns(s, n))
        /\ Record(s, i, va, n)
        /\ job' = [job EXCEPT ![c] =
                     [space |-> s, from |-> Null, todo |-> {i} \X Run(va, n), mapped |-> 0]]
    /\ lock' = [lock EXCEPT ![s] = c]
    /\ pc' = [pc EXCEPT ![c] = "alloc"]
    /\ depth' = [depth EXCEPT ![c] = @ + 1]
    /\ UNCHANGED <<status, table, map, free, fault>>

\* The loop of CPU c is over: the lock of space s is released.
Finish(c, s) ==
    /\ pc' = [pc EXCEPT ![c] = "idle"]
    /\ job' = [job EXCEPT ![c] = NoJob]
    /\ lock' = [lock EXCEPT ![s] = Null]
    /\ depth' = [depth EXCEPT ![c] = @ - 1]

\* Mutant: the loop does not advance.
MutAllocPage(c) ==
    LET s == job[c].space
        todo == job[c].todo
    IN  /\ fault = "none"
        /\ pc[c] = "alloc"
        /\ free # {}
        /\ \E m \in todo :
            /\ Foremost(m, todo)
            /\ PagingMap(s, m[2], PmmAlloc(free), free \ {PmmAlloc(free)})
            /\ IF todo = {m}
               THEN Finish(c, s)
               ELSE /\ job' = job
                    /\ UNCHANGED <<pc, lock, depth>>
        /\ UNCHANGED <<status, allocs, marked>>

(* ... and a frame for each of them.                                       *)
AllocPage(c) ==
    LET s == job[c].space
        todo == job[c].todo
    IN  /\ fault = "none"
        /\ pc[c] = "alloc"
        /\ free # {}
        /\ \E m \in todo :
            /\ Foremost(m, todo)
            /\ PagingMap(s, m[2], PmmAlloc(free), free \ {PmmAlloc(free)})
            /\ IF todo = {m}
               THEN Finish(c, s)
               ELSE /\ job' = [job EXCEPT ![c].todo = todo \ {m}]
                    /\ UNCHANGED <<pc, lock, depth>>
        /\ UNCHANGED <<status, allocs, marked>>

(* Without a frame it returns -ENOMEM, and what it has mapped stays.       *)
AllocOutOfFrames(c) ==
    /\ fault = "none"
    /\ pc[c] = "alloc"
    /\ free = {}
    /\ Finish(c, job[c].space)
    /\ UNCHANGED <<spaceVars, free, fault>>

\* Mutant: the loader loses the frame that it could not map.
MutMapOwned(c, s, va) ==
    /\ MayUse(c, s)
    /\ free # {}
    /\ LET f == PmmAlloc(free) IN
        IF FreeSlots(s) # {} /\ va \notin marked[s]
        THEN /\ \E i \in FreeSlots(s) : Record(s, i, va, 1)
             /\ PagingMap(s, va, f, free \ {f})
        ELSE free' = free \ {f} /\ UNCHANGED <<table, map, allocs, marked, fault>>
    /\ UNCHANGED <<status, lock, pc, job, depth>>

(* A page of the ELF loader: a frame, and address_space_map_owned at the   *)
(* address that the file asks for.  When that is taken, or the region has  *)
(* no slot, the loader gives the frame back.                               *)
MapOwned(c, s, va) ==
    /\ MayUse(c, s)
    /\ free # {}
    /\ LET f == PmmAlloc(free) IN
        IF FreeSlots(s) # {} /\ va \notin marked[s]
        THEN /\ \E i \in FreeSlots(s) : Record(s, i, va, 1)
             /\ PagingMap(s, va, f, free \ {f})
        ELSE UNCHANGED <<table, map, allocs, marked, free, fault>>
    /\ UNCHANGED <<status, lock, pc, job, depth>>

(* address_space_map_unowned: a mapping that the region does not know of.  *)
(* It has no caller yet; one has to choose a page that is not mapped.      *)
MapUnowned(c, s, va, x) ==
    /\ MayUse(c, s)
    /\ map[s][va] = Null
    /\ PagingMap(s, va, x, free)
    /\ UNCHANGED <<status, allocs, marked, lock, pc, job, depth>>

-----------------------------------------------------------------------------
\* Mutant: the allocations of the source are not copied.
MutRegionCopy(s, d) ==
    /\ allocs' = allocs
    /\ marked' = [marked EXCEPT ![d] = marked[s]]

\* region_copy, with bitmap_copy; both regions begin at the same address.
RegionCopy(s, d) ==
    /\ allocs' = [allocs EXCEPT ![d] = allocs[s]]
    /\ marked' = [marked EXCEPT ![d] = marked[s]]

(* address_space_create_from: a new space with the allocations of s ...    *)
CopyStart(c, s, d) ==
    /\ MayUse(c, s)
    /\ status[d] = "none"
    /\ free # {}
    /\ table' = [table EXCEPT ![d] = {PmmAlloc(free)}]
    /\ free' = free \ {PmmAlloc(free)}
    /\ RegionCopy(s, d)
    /\ status' = [status EXCEPT ![d] = "building"]
    /\ lock' = [lock EXCEPT ![s] = c]
    /\ pc' = [pc EXCEPT ![c] = "copy"]
    /\ job' = [job EXCEPT ![c] =
                 [space |-> d, from |-> s, todo |-> Covered(s), mapped |-> 0]]
    /\ depth' = [depth EXCEPT ![c] = @ + 1]
    /\ UNCHANGED <<map, fault>>

(* ... a frame for each page that is mapped there; the others are skipped. *)
(* A source without the lower table, whose first allocation ran out of     *)
(* frames, has no descriptor to look at: an error value is dereferenced.   *)
CopyPage(c) ==
    LET s == job[c].from
        d == job[c].space
        todo == job[c].todo
    IN  /\ fault = "none"
        /\ pc[c] = "copy"
        /\ \E m \in todo :
            /\ Foremost(m, todo)
            /\ IF Cardinality(table[s]) <= 1 \/ map[s][m[2]] = Null
               THEN /\ fault' = IF Cardinality(table[s]) <= 1 THEN "lookup" ELSE fault
                    /\ job' = [job EXCEPT ![c].todo = todo \ {m}]
                    /\ UNCHANGED <<table, map, free>>
               ELSE /\ free # {}
                    /\ PagingMap(d, m[2], PmmAlloc(free), free \ {PmmAlloc(free)})
                    /\ job' = [job EXCEPT ![c].todo = todo \ {m}, ![c].mapped = @ + 1]
        /\ UNCHANGED <<status, allocs, marked, lock, pc, depth>>

\* The space is complete, and given to the new process.
CopyDone(c) ==
    /\ fault = "none"
    /\ pc[c] = "copy"
    /\ job[c].todo = {}
    /\ status' = [status EXCEPT ![job[c].space] = "live"]
    /\ Finish(c, job[c].from)
    /\ UNCHANGED <<table, map, allocs, marked, free, fault>>

(* Without a frame, copy_cleanup gives back as many pages as were mapped,  *)
(* counted from the first, leaves them in the table, and returns EOK.      *)
CopyOutOfFrames(c) ==
    LET d == job[c].space
        pages == {m \in Covered(d) : Cardinality({k \in Covered(d) : Before(k, m)}) < job[c].mapped}
    IN  /\ fault = "none"
        /\ pc[c] = "copy"
        /\ \E m \in job[c].todo : Foremost(m, job[c].todo) /\ map[job[c].from][m[2]] # Null
        /\ free = {}
        /\ free' = {map[d][m[2]] : m \in pages} \ {Null}
        /\ status' = [status EXCEPT ![d] = "live"]
        /\ fault' = "copy"
        /\ Finish(c, job[c].from)
        /\ UNCHANGED <<table, map, allocs, marked>>

-----------------------------------------------------------------------------
\* What address_space_destroy gives back: every frame that the allocations
\* or the table still map, and the table itself.
FramesOf(s) == (Range(map[s]) \ {Null}) \union table[s]

\* The frames that this pushes on the free list although they are in it: they
\* were free, or are met twice on the way.
GivenBackTwice(s) ==
    {f \in FramesOf(s) :
        \/ f \in free
        \/ f \in table[s] \intersect Range(map[s])
        \/ \E p, q \in Pages : p # q /\ map[s][p] = f /\ map[s][q] = f}

(* address_space_destroy takes the lock of the space, and does not release *)
(* it before the space is gone.                                            *)
Destroy(c, s) ==
    /\ MayUse(c, s)
    /\ free' = free \union FramesOf(s)
    /\ status' = [status EXCEPT ![s] = "gone"]
    /\ table' = [table EXCEPT ![s] = {}]
    /\ map' = [map EXCEPT ![s] = [p \in Pages |-> Null]]
    /\ allocs' = [allocs EXCEPT ![s] = [i \in Slots |-> NoAlloc]]
    /\ marked' = [marked EXCEPT ![s] = {}]
    /\ depth' = [depth EXCEPT ![c] = @ + 1]
    /\ fault' = IF GivenBackTwice(s) = {} THEN fault ELSE "double"
    /\ UNCHANGED <<lock, pc, job>>

Next ==
    \E c \in Cpus :
        \/ AllocPage(c)
        \/ AllocOutOfFrames(c)
        \/ CopyPage(c)
        \/ CopyDone(c)
        \/ CopyOutOfFrames(c)
        \/ \E s \in Spaces :
            \/ Create(c, s)
            \/ Destroy(c, s)
            \/ \E n \in Counts : AllocStart(c, s, n)
            \/ \E va \in Pages : MapOwned(c, s, va)
            \/ \E va \in Pages, x \in Foreign : MapUnowned(c, s, va, x)
            \/ \E d \in Spaces : CopyStart(c, s, d)

Spec == Init /\ [][Next]_vars

-----------------------------------------------------------------------------
TypeOK ==
    /\ status \in [Spaces -> {"none", "building", "live", "gone"}]
    /\ table \in [Spaces -> SUBSET (Frames \union Foreign)]
    /\ map \in [Spaces -> [Pages -> Frames \union Foreign \union {Null}]]
    /\ allocs \in [Spaces -> [Slots -> [va : Pages, n : Nat]]]
    /\ marked \in [Spaces -> SUBSET Pages]
    /\ lock \in [Spaces -> Cpus \union {Null}]
    /\ free \subseteq Frames \union Foreign
    /\ pc \in [Cpus -> {"idle", "alloc", "copy"}]
    /\ job \in [Cpus -> [space : Spaces \union {Null}, from : Spaces \union {Null},
                         todo : SUBSET (Slots \X Pages), mapped : Nat]]
    /\ depth \in [Cpus -> Nat]
    /\ fault \in {"none", "remap", "table", "copy", "lookup", "double"}

\* The pages of all spaces that are mapped to frames of pmm.
Mapped == {m \in Spaces \X Pages : map[m[1]][m[2]] \in Frames}

(* No frame of pmm is lost and none is used twice: it is free, or part of  *)
(* one page table, or mapped at one page of one space.  Creation, failed   *)
(* allocations, failed loads and destruction account for every frame, and  *)
(* whichever space is destroyed next, none of them enters the free list a  *)
(* second time.                                                            *)
FramesConserved ==
    fault = "none" =>
        /\ Frames \subseteq free \union (UNION Range(table)) \union {map[m[1]][m[2]] : m \in Mapped}
        /\ \A m, k \in Mapped : map[m[1]][m[2]] = map[k[1]][k[2]] => m = k
        /\ \A m \in Mapped : map[m[1]][m[2]] \notin free \union (UNION Range(table))
        /\ \A s \in Spaces : Frames \intersect table[s] \intersect free = {}
        /\ \A s, r \in Spaces : s # r => Frames \intersect table[s] \intersect table[r] = {}
        /\ \A s \in Spaces : Frames \intersect GivenBackTwice(s) = {}

(* Region and page table agree: allocations are disjoint, their pages are  *)
(* marked, and a page is mapped to a frame of pmm only inside of one, so   *)
(* that the walk over the allocations finds all that has to be copied.     *)
RegionMatchesTable ==
    \A s \in Spaces :
        /\ \A p \in Pages : map[s][p] \in Frames => \E m \in Covered(s) : m[2] = p
        /\ \A m \in Covered(s) : m[2] \in marked[s]
        /\ \A m, k \in Covered(s) : m[2] = k[2] => m = k

(* paging_map never meets a page that is mapped already, which would be a  *)
(* panic: whatever the region gives out is unmapped, unless it was mapped  *)
(* by address_space_map_unowned, of which the region knows nothing.        *)
NoRemap ==
    fault = "remap" => \E s \in Spaces, p \in Pages : map[s][p] \in Foreign

(* What region, bitmap and page table of a space say of each other.        *)
SpacesConsistent == TypeOK /\ RegionMatchesTable /\ NoRemap

-----------------------------------------------------------------------------
(* A page of a space that is in use is never a free frame.                 *)
MappedIsNotFree ==
    \A s \in Spaces, p \in Pages : status[s] = "live" => map[s][p] \notin free

(* address_space_map_unowned does not take the ownership of what it maps.  *)
UnownedStaysForeign == free \intersect Foreign = {}

(* No frame enters the free list twice.  Not an invariant: a foreign frame *)
(* that is mapped unowned at two pages does.                               *)
GivenBackOnce == fault # "double"

(* A space that is copied has the tables of its allocations.  Not an       *)
(* invariant: its first allocation may have run out of frames.             *)
SourceHasTables == fault # "lookup"

(* A page table is made of frames: running out of memory in the walk is    *)
(* reported to the caller.                                                 *)
TableIsMemory == fault # "table"

(* A CPU that is in no operation holds no lock: push and pop of interrupt  *)
(* masking match.                                                          *)
LocksGivenBack == \A c \in Cpus : pc[c] = "idle" => depth[c] = 0
=============================================================================
