------------------------------ MODULE KernelVm ------------------------------
(***************************************************************************)
(* The kernel's own memory: the boot loader's map (boot/memmap.c), the     *)
(* list of free frames (mm/pmm.c), the kernel page table (mm/paging.c),    *)
(* and the two regions of kernel addresses on it (mm/vmm.c over            *)
(* lib/allocator/region.c and bitmap.c), one for memory, one for device    *)
(* registers.  Every operation runs under the lock of the kernel address   *)
(* space.  Frames are counted in pages, device registers in bytes.         *)
(*                                                                         *)
(* Below its root a page table is one frame for each Span pages.  The      *)
(* direct map is how the kernel reaches a frame: all memory under the boot *)
(* loader's table, what paging_kernel_init mapped after the switch.  A     *)
(* panic, or an access through a bad pointer, ends the behaviour.          *)
(***************************************************************************)
EXTENDS Integers, FiniteSets, Sequences, SequencesExt, TLC

CONSTANTS
    MemMaps,     \* maps of the boot loader: sequences of [type, base, length] in bytes
    KPage,       \* PAGE_SIZE
    Span,        \* pages under one last-level table
    RegionPages, \* pages of each region, a function on KRegions
    KSlots,      \* max_allocations_count of a region
    DevAddrs, DevSizes,  \* registers that drivers map, in bytes
    MemSizes     \* the sizes that vm_alloc_mem is asked for, in bytes

KRegions == {"mem", "mmio"}
None == [pages |-> 0]

ASSUME KernelVmAssumption ==
    /\ {KPage, Span, KSlots} \subseteq Nat \ {0}
    /\ RegionPages \in [KRegions -> Nat]
    /\ DevAddrs \cup DevSizes \cup MemSizes \subseteq Nat

VARIABLES
    memmap,      \* the boot loader's map
    stage,       \* boot, pmm, running
    mmu,         \* [free, tables, map, direct, panic]
    slots,       \* per region: its allocations
    bits,        \* per region: the pages that the bitmap marks
    given,       \* frames that callers of pmm_alloc have
    queues,      \* virtio queues: the lower of their two frames
    devices      \* history: the live mappings of device registers
kvmVars == <<memmap, stage, mmu, slots, bits, given, queues, devices>>

RoundDown(x) == (x \div KPage) * KPage
Offset(x) == x % KPage
PageUp(x) == ((x + KPage - 1) \div KPage) * KPage

-----------------------------------------------------------------------------
(* Frames and the page table.                                              *)
Panic(m, why) == [m EXCEPT !.panic = why]

\* pmm_alloc clears the frame through the direct map.
PmmTake(m) ==
    IF Head(m.free) \notin m.direct THEN Panic(m, "no direct map")
    ELSE [m EXCEPT !.free = Tail(@)]

\* pmm_free links the frame into the list, through the direct map.
PmmGive(m, f) ==
    IF f \notin m.direct THEN Panic(m, "no direct map")
    ELSE [m EXCEPT !.free = <<f>> \o @]

Group(v) == <<v[1], v[2] \div Span>>

\* table_next_table: the result of pmm_alloc is not tested.
table_next_table(m, g) ==
    IF g \in DOMAIN m.tables THEN m
    ELSE IF m.free = <<>> THEN Panic(m, "table")
    ELSE [PmmTake(m) EXCEPT !.tables = (g :> Head(m.free)) @@ @]

\* The loop body of paging_map: virtual page v is to be frame f.
MapPage(m, v, f) ==
    LET w == table_next_table(m, Group(v))
    IN  IF m.panic # "no" \/ w.panic # "no" THEN w
        ELSE IF v \in DOMAIN m.map THEN Panic(w, "remap")
        ELSE [w EXCEPT !.map = (v :> f) @@ @]

paging_map(m, r, at, f, n) ==
    FoldLeft(LAMBDA x, i: MapPage(x, <<r, at + i - 1>>, f + i - 1), m, [i \in 1 .. n |-> i])

\* paging_unmap clears the descriptors; a page that is not mapped panics.
paging_unmap(m, r, at, n) ==
    LET gone == {<<r, p>>: p \in at .. at + n - 1}
    IN  IF gone \subseteq DOMAIN m.map
        THEN [m EXCEPT !.map = [v \in DOMAIN @ \ gone |-> @[v]]]
        ELSE Panic(m, "unmap")

-----------------------------------------------------------------------------
(* Boot.                                                                   *)
Entry(type, base, length) == [type |-> type, base |-> base, length |-> length]
PagesOf(e) == [i \in 1 .. e.length \div KPage |-> e.base \div KPage + i - 1]
Aligned(e) == e.base % KPage = 0 /\ e.length % KPage = 0

KernelVmInit ==
    /\ memmap \in MemMaps
    /\ stage = "boot"
    /\ mmu = [free |-> <<>>, tables |-> <<>>, map |-> <<>>, panic |-> "no",
              direct |-> UNION {ToSet(PagesOf(e)): e \in ToSet(memmap)}]
    /\ slots = [r \in KRegions |-> [i \in 1 .. KSlots |-> None]]
    /\ bits = [r \in KRegions |-> {}]
    /\ given = {} /\ queues = {} /\ devices = {}

\* The whole pages of the entries that pmm uses, in the order of the map.
PmmEntries == SelectSeq(memmap, LAMBDA e: e.type \in {"usable", "acpi"})
PmmFrames == UNION {ToSet(PagesOf(e)): e \in ToSet(PmmEntries)}

(* pmm_free_range gives the pages of an entry to the list one by one, so   *)
(* that the last one is the first to be used.                              *)
pmm_init ==
    /\ stage = "boot"
    /\ stage' = "pmm"
    /\ mmu' = IF \E e \in ToSet(PmmEntries): e.base % KPage # 0 /\ e.length >= KPage
              THEN Panic(mmu, "unaligned frame")
              ELSE [mmu EXCEPT !.free = Reverse(FlattenSeq([i \in 1 .. Len(PmmEntries) |-> PagesOf(PmmEntries[i])]))]
    /\ UNCHANGED <<memmap, slots, bits, given, queues, devices>>

\* What paging_kernel_init maps of the physical memory.
Direct == SelectSeq(memmap, LAMBDA e: e.type \in {"framebuffer", "loader", "image", "usable"})

(* vm_init: the roots of kernel and user half, the kernel image (one page  *)
(* here), the direct map entry by entry, the switch, and empty regions.    *)
vm_init ==
    /\ stage = "pmm" /\ mmu.panic = "no"
    /\ stage' = "running"
    /\ LET rooted == IF Len(mmu.free) < 2 THEN Panic(mmu, "root")
                     ELSE [mmu EXCEPT !.free = SubSeq(mmu.free, 3, Len(mmu.free)),
                                      !.tables = <<"kernel", 0>> :> mmu.free[1] @@ <<"user", 0>> :> mmu.free[2]]
           image == paging_map(rooted, "image", 0, 0, 1)
           mapped == FoldLeft(LAMBDA m, e: IF ~Aligned(e) THEN Panic(m, "unaligned entry")
                                           ELSE paging_map(m, "direct", e.base \div KPage, e.base \div KPage,
                                                           e.length \div KPage), image, Direct)
       IN  mmu' = IF mapped.panic # "no" THEN mapped
                  ELSE [mapped EXCEPT !.direct = {v[2]: v \in {x \in DOMAIN mapped.map: x[1] = "direct"}},
                                      !.map = <<>>]
    /\ UNCHANGED <<memmap, slots, bits, given, queues, devices>>

-----------------------------------------------------------------------------
(* Regions: a slot and a run of pages, both the first that are free.       *)
Running == stage = "running" /\ mmu.panic = "no"
Stretch(at, n) == at .. at + n - 1
OpenSlots(r) == {i \in 1 .. KSlots: slots[r][i] = None}
OpenRuns(r, n) == {at \in 0 .. RegionPages[r] - n: Stretch(at, n) \cap bits[r] = {}}
CanAlloc(r, n) == OpenSlots(r) # {} /\ OpenRuns(r, n) # {}

region_alloc(r, n, use) ==
    LET at == Min(OpenRuns(r, n))
    IN  /\ slots' = [slots EXCEPT ![r][Min(OpenSlots(r))] = [pages |-> n, at |-> at, use |-> use]]
        /\ bits' = [bits EXCEPT ![r] = @ \cup Stretch(at, n)]

SlotAt(r, at) == CHOOSE i \in 1 .. KSlots: slots[r][i] # None /\ slots[r][i].at = at

\* region_free: the bits of as many pages as the slot says.
region_free(r, at) ==
    /\ slots' = [slots EXCEPT ![r][SlotAt(r, at)] = None]
    /\ bits' = [bits EXCEPT ![r] = @ \ Stretch(at, slots[r][SlotAt(r, at)].pages)]

-----------------------------------------------------------------------------
(* vm_map: the result of region_alloc is not tested, and paging_map panics *)
(* on an error value, which is no page address.                            *)
vm_map(r, f, n) ==
    /\ Running
    /\ IF CanAlloc(r, n)
       THEN /\ region_alloc(r, n, "map")
            /\ mmu' = paging_map(mmu, r, Min(OpenRuns(r, n)), f, n)
       ELSE mmu' = Panic(mmu, "region full") /\ UNCHANGED <<slots, bits>>

\* Mutant: the part of the first page in front of the registers is not counted.
MutMmioMap(pa, size) ==
    LET n == PageUp(size) \div KPage
        va == Min(OpenRuns("mmio", n)) * KPage + Offset(pa)
    IN  /\ vm_map("mmio", RoundDown(pa) \div KPage, n)
        /\ devices' = IF mmu'.panic = "no" THEN devices \cup {[pa |-> pa, size |-> size, va |-> va]}
                      ELSE devices
        /\ UNCHANGED <<memmap, stage, given, queues>>
vm_mmio_map(pa, size) ==
    LET n == PageUp(size + Offset(pa)) \div KPage
        va == Min(OpenRuns("mmio", n)) * KPage + Offset(pa)
    IN  /\ vm_map("mmio", RoundDown(pa) \div KPage, n)
        /\ devices' = IF mmu'.panic = "no" THEN devices \cup {[pa |-> pa, size |-> size, va |-> va]}
                      ELSE devices
        /\ UNCHANGED <<memmap, stage, given, queues>>

\* vm_mem_map of a frame that the caller has; it has no caller yet.
vm_mem_map(f) ==
    /\ f \in given
    /\ vm_map("mem", f, 1)
    /\ UNCHANGED <<memmap, stage, given, queues, devices>>

vm_unmap(r, at, n) ==
    /\ Running
    /\ region_free(r, at)
    /\ mmu' = paging_unmap(mmu, r, at, n)
    /\ UNCHANGED <<memmap, stage, given, queues>>

vm_mmio_unmap(d) ==
    /\ vm_unmap("mmio", d.va \div KPage, PageUp(d.size + Offset(d.va)) \div KPage)
    /\ devices' = devices \ {d}

vm_mem_unmap(at) ==
    /\ \E i \in 1 .. KSlots: slots["mem"][i] = [pages |-> 1, at |-> at, use |-> "map"]
    /\ vm_unmap("mem", at, 1)
    /\ UNCHANGED devices

\* The loop body of vm_alloc: without a frame the loop ends.
MapFresh(m, v) ==
    IF m.panic # "no" \/ m.free = <<>> THEN m
    ELSE IF PmmTake(m).panic # "no" THEN PmmTake(m)
    ELSE MapPage(PmmTake(m), v, Head(m.free))

(* vm_alloc_mem: out of addresses it fails; out of frames it fails too and *)
(* leaves what it has taken, at an address that nobody is told ("lost").   *)
vm_alloc_mem(size) ==
    LET n == size \div KPage
        at == Min(OpenRuns("mem", n))
        m == FoldLeft(LAMBDA x, i: MapFresh(x, <<"mem", at + i - 1>>), mmu, [i \in 1 .. n |-> i])
        done == {<<"mem", p>>: p \in Stretch(at, n)} \subseteq DOMAIN m.map \ DOMAIN mmu.map
    IN  /\ Running /\ CanAlloc("mem", n)
        /\ region_alloc("mem", n, IF done THEN "alloc" ELSE "lost")
        /\ mmu' = m
        /\ UNCHANGED <<memmap, stage, given, queues, devices>>

\* Mutant: the frames are not given back.
MutFreePage(m, v) == [m EXCEPT !.map = [x \in DOMAIN @ \ {v} |-> @[x]]]
\* The loop body of vm_free: a page that is mapped is unmapped, its frame freed.
\* paging_lookup says 0 for a page that is not mapped and for frame 0 alike.
FreePage(m, v) ==
    IF v \notin DOMAIN m.map \/ m.map[v] = 0 THEN m
    ELSE PmmGive([m EXCEPT !.map = [x \in DOMAIN @ \ {v} |-> @[x]]], m.map[v])

vm_free_mem(at) ==
    /\ Running
    /\ \E i \in 1 .. KSlots: slots["mem"][i] # None /\ slots["mem"][i].use = "alloc" /\ slots["mem"][i].at = at
    /\ mmu' = FoldLeft(LAMBDA x, i: FreePage(x, <<"mem", at + i - 1>>), mmu,
                       [i \in 1 .. slots["mem"][SlotAt("mem", at)].pages |-> i])
    /\ region_free("mem", at)
    /\ UNCHANGED <<memmap, stage, given, queues, devices>>

-----------------------------------------------------------------------------
(* The other users of pmm: address spaces and drivers take single frames.  *)
pmm_alloc ==
    /\ Running /\ mmu.free # <<>>
    /\ mmu' = PmmTake(mmu)
    /\ given' = IF mmu'.panic = "no" THEN given \cup {Head(mmu.free)} ELSE given
    /\ UNCHANGED <<memmap, stage, slots, bits, queues, devices>>

\* A frame that its owner has mapped is not given back before it is unmapped.
pmm_free(f) ==
    /\ Running /\ f \in given
    /\ \A v \in DOMAIN mmu.map: mmu.map[v] # f
    /\ mmu' = PmmGive(mmu, f)
    /\ given' = given \ {f}
    /\ UNCHANGED <<memmap, stage, slots, bits, queues, devices>>

(* A virtio queue needs two neighbours: it takes two frames and gives them *)
(* back when the second is not the page below the first.                   *)
virtio_queue_create ==
    LET first == mmu.free[1]
        second == mmu.free[2]
        taken == IF PmmTake(mmu).panic # "no" THEN PmmTake(mmu) ELSE PmmTake(PmmTake(mmu))
    IN  /\ Running /\ Len(mmu.free) >= 2
        /\ IF taken.panic # "no" \/ first - second = 1 THEN mmu' = taken
           ELSE mmu' = PmmGive(PmmGive(taken, first), second)
        /\ queues' = IF taken.panic = "no" /\ first - second = 1 THEN queues \cup {second} ELSE queues
        /\ UNCHANGED <<memmap, stage, slots, bits, given, devices>>

virtio_queue_destroy(q) ==
    /\ Running /\ q \in queues
    /\ mmu' = PmmGive(PmmGive(mmu, q), q + 1)
    /\ queues' = queues \ {q}
    /\ UNCHANGED <<memmap, stage, slots, bits, given, devices>>

KernelVmNext ==
    \/ pmm_init \/ vm_init
    \/ pmm_alloc \/ \E f \in given: pmm_free(f) \/ vm_mem_map(f)
    \/ virtio_queue_create \/ \E q \in queues: virtio_queue_destroy(q)
    \/ \E pa \in DevAddrs, size \in DevSizes: vm_mmio_map(pa, size)
    \/ \E d \in devices: vm_mmio_unmap(d)
    \/ \E size \in MemSizes: vm_alloc_mem(size)
    \/ \E at \in bits["mem"]: vm_free_mem(at) \/ vm_mem_unmap(at)

-----------------------------------------------------------------------------
\* The slots of a region, with the pages that each covers.
TakenSlots(r) == {slots[r][i]: i \in {j \in 1 .. KSlots: slots[r][j] # None}}
\* The frames under the allocations of the kernel that end in this way.
FramesUnder(use) ==
    LET pages == UNION {Stretch(s.at, s.pages): s \in {x \in TakenSlots("mem"): x.use = use}}
    IN  {mmu.map[<<"mem", p>>]: p \in {q \in pages: <<"mem", q>> \in DOMAIN mmu.map}}
OwnedFrames == FramesUnder("alloc")
LostFrames == FramesUnder("lost")
\* The pages of the region for memory that are mapped and belong to no slot.
LeftMapped == {v \in DOMAIN mmu.map: v[1] = "mem" /\ v[2] \notin bits["mem"]}
TableFrames == {mmu.tables[g]: g \in DOMAIN mmu.tables}
QueueFrames == queues \cup {q + 1: q \in queues}

(* Every frame that pmm_init found is in one place: free once, part of the *)
(* page table, under an allocation of the kernel, or with the caller that  *)
(* took it; else it is lost, which happens to the frames of a vm_alloc     *)
(* that ran out of memory, and to frame 0 when vm_free comes across it.    *)
KernelFramesConserved ==
    Running =>
        LET left == {mmu.map[v]: v \in LeftMapped}
        IN  /\ ToSet(mmu.free) \cup TableFrames \cup OwnedFrames \cup given \cup QueueFrames
                 \cup LostFrames \cup left = PmmFrames
            /\ Len(mmu.free) + Cardinality(DOMAIN mmu.tables) + Cardinality(OwnedFrames) + Cardinality(given)
                 + 2 * Cardinality(queues) + Cardinality(LostFrames) + Cardinality(LeftMapped) = Cardinality(PmmFrames)
            /\ left \subseteq {0}
            /\ \A s \in TakenSlots("mem"):
                  LET last == <<"mem", s.at + s.pages - 1>>
                  IN  s.use = "lost" /\ last \in DOMAIN mmu.map => mmu.map[last] = 0

\* The byte that a kernel address of the device region reaches.
Reaches(a) == mmu.map[<<"mmio", a \div KPage>>] * KPage + Offset(a)

\* Slots, bitmap and page table of a region agree, but for frame 0.
RegionsAgree ==
    \A r \in KRegions:
        /\ bits[r] = UNION {Stretch(s.at, s.pages): s \in TakenSlots(r)}
        /\ \A s, t \in TakenSlots(r): s # t => Stretch(s.at, s.pages) \cap Stretch(t.at, t.pages) = {}
        /\ {v[2]: v \in {x \in DOMAIN mmu.map \ LeftMapped: x[1] = r}} \subseteq bits[r]

\* paging_unmap never meets an unmapped page, and paging_map a mapped one only
\* if it is frame 0 that an allocation before left behind; a frame outside the
\* direct map is met only where the map of the boot loader has ACPI memory,
\* which pmm uses and paging_kernel_init skips.
OnlyKnownPanics ==
    /\ mmu.panic # "unmap"
    /\ mmu.panic = "remap" => \E v \in DOMAIN mmu.map: v[1] = "mem" /\ mmu.map[v] = 0
    /\ mmu.panic = "no direct map" => \E e \in ToSet(memmap): e.type = "acpi"

(* A driver that maps its registers reaches each of them, also when they   *)
(* begin inside a page and end in another; mappings and allocations do not *)
(* overlap, and no sequence of them and of failures makes the page table   *)
(* disagree with the regions (vm_mmio_map, vm_unmap, region_alloc), but    *)
(* for what FreedIsUnmapped says.                                          *)
DeviceRangesMapped ==
    /\ Running => \A d \in devices: \A b \in 0 .. d.size - 1:
                      /\ <<"mmio", (d.va + b) \div KPage>> \in DOMAIN mmu.map
                      /\ Reaches(d.va + b) = d.pa + b
    /\ Running => RegionsAgree
    /\ OnlyKnownPanics

(* vm_free "frees and unmaps": an address that is given back is not mapped *)
(* any more.  The code breaks this where the page has physical frame 0,    *)
(* and the next vm_alloc there panics on a remap.                          *)
FreedIsUnmapped == Running => LeftMapped = {}

(* No frame is lost.  A vm_alloc that runs out of memory in its loop       *)
(* leaves what it has mapped at an address that it does not return.        *)
NoFrameIsLost == Running => LostFrames = {}
=============================================================================
