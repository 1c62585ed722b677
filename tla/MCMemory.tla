------------------------------ MODULE MCMemory ------------------------------
(* Kernel heap, the kernel's address space, user memory, and the lists.    *)
(* They have no state in common, so a behaviour exercises one of them; the *)
(* others stay in one initial state.                                       *)
EXTENDS FreeList, KernelVm, UserMemory, LinkedList

CONSTANTS n1, n2, n3, n4
VARIABLE part

\* Two of the nodes compare equal.
MCKey == n1 :> 1 @@ n2 :> 2 @@ n3 :> 2 @@ n4 :> 3

MCMemMaps == {
    <<Entry("image", 0, 4), Entry("usable", 4, 18)>>,
    <<Entry("loader", 0, 2), Entry("usable", 2, 10), Entry("usable", 14, 10), Entry("framebuffer", 24, 4)>>,
    <<Entry("usable", 0, 16), Entry("acpi", 16, 4)>>,
    <<Entry("acpi", 1, 4), Entry("usable", 6, 20)>>,
    <<Entry("usable", 0, 20), Entry("acpi", 20, 3)>>,
    <<Entry("usable", 0, 4)>>,
    <<Entry("usable", 0, 2)>>,
    <<Entry("usable", 0, 20), Entry("image", 20, 3)>> }
MCRegions == [r \in {"mem", "mmio"} |-> 3]

Segment(toLoad, off, filesz, memsz, vaddr, w) ==
    [load |-> toLoad, off |-> off, filesz |-> filesz, memsz |-> memsz, vaddr |-> vaddr, w |-> w, x |-> ~w]
OneSegment ==
    {<<Segment(TRUE, off, f, m, v, w)>>: off \in {0, 3}, f \in {0, 2, 5}, m \in {0, 2, 5, 8},
                                          v \in {6, 8, 9, 12, 18, 23, 24}, w \in BOOLEAN}
TwoSegments ==
    {<<Segment(TRUE, 0, 2, 3, 9, FALSE), Segment(FALSE, 0, 9, 0, 0, FALSE), Segment(TRUE, 3, f, m, v, TRUE)>>:
        f \in {0, 2, 4}, m \in {4, 5}, v \in {10, 12, 13, 17}}
MCFiles ==
    {[valid |-> TRUE, size |-> 7, segs |-> s]: s \in OneSegment \cup TwoSegments}
      \cup {[valid |-> FALSE, size |-> 7, segs |-> <<>>]}

MCInit ==
    /\ part \in {"heap", "kernel", "user", "intrusive", "owning"}
    /\ KheapInit /\ KernelVmInit /\ UserMemoryInit /\ ListInit /\ OwnedInit
    /\ part # "kernel" => memmap = CHOOSE m \in MemMaps: TRUE
    /\ part # "user" => file = CHOOSE f \in Files: TRUE

MCNext ==
    /\ UNCHANGED part
    /\ \/ part = "heap" /\ KheapNext /\ UNCHANGED <<kvmVars, umVars, listVars, ownedVars>>
       \/ part = "kernel" /\ KernelVmNext /\ UNCHANGED <<kheapVars, umVars, listVars, ownedVars>>
       \/ part = "user" /\ UserMemoryNext /\ UNCHANGED <<kheapVars, kvmVars, listVars, ownedVars>>
       \/ part = "intrusive" /\ ListNext /\ UNCHANGED <<kheapVars, kvmVars, umVars, ownedVars>>
       \/ part = "owning" /\ OwnedNext /\ UNCHANGED <<kheapVars, kvmVars, umVars>>

MCSpec == MCInit /\ [][MCNext]_<<part, kheapVars, kvmVars, umVars, listVars, ownedVars>>

(* The list that owns its nodes neither leaks a node, nor reaches one that *)
(* is freed, nor loses or reorders what it holds (linkedlist.c).           *)
ContentsKept == part = "owning" => OwnsItsNodes
=============================================================================
