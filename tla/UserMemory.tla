----------------------------- MODULE UserMemory -----------------------------
(***************************************************************************)
(* The memory of one user process: the ELF loader (exec/elf.c) fills it,   *)
(* and system calls copy from and to it (mm/uaccess.c).                    *)
(*                                                                         *)
(* Addresses are bytes.  A byte of memory holds the offset in the file     *)
(* that it was copied from, Zero (pmm_alloc clears a frame) or Kernel, a   *)
(* byte that copy_to_user wrote.  A last-level page table is one frame for *)
(* each TableSpan pages.  Every page of the loader takes a slot of the     *)
(* region and its bit in the bitmap (AddressSpace has the region, and what *)
(* an old bitmap does).  A panic, or a kernel access that the MMU refuses, *)
(* ends the behaviour.  Sizes and addresses are 64-bit and wrap.  No page  *)
(* has physical frame 0, which the check of a range would take for not     *)
(* mapped (KernelVm has that frame).                                       *)
(***************************************************************************)
EXTENDS Integers, FiniteSets, Sequences, FiniteSetsExt

CONSTANTS
    Files,       \* [valid, size, segs]; a program header is [load, off, filesz, memsz, vaddr, w, x]
    UPage,       \* PAGE_SIZE
    UserBase,    \* USER_VM_RANGE_BASE
    UserEnd,     \* USER_VM_RANGE_END
    UsizeMod,    \* 2^64, one more than the largest usize
    VaMod,       \* 2^48: a walk of the page table ignores the bits above
    TableSpan,   \* pages under one last-level table
    UserFrames,  \* how many frames pmm has, with the root table taken
    UserSlots,   \* CONFIG_VM_MAX_USER_ALLOCATIONS
    CopySizes,   \* sizes of copies; a caller has a buffer of that size
    MaxCopies    \* bound on the copies of a behaviour

ProgramHeaders == [load: BOOLEAN, off: Nat, filesz: Nat, memsz: Nat, vaddr: Nat, w: BOOLEAN, x: BOOLEAN]

ASSUME UserMemoryAssumption ==
    /\ Files \subseteq [valid: BOOLEAN, size: Nat, segs: Seq(ProgramHeaders)]
    /\ {UPage, TableSpan, UserBase} \subseteq Nat \ {0}
    /\ UserBase % UPage = 0 /\ UserEnd % UPage = 0 /\ UserBase < UserEnd
    /\ UserEnd <= VaMod /\ VaMod < UsizeMod /\ {UserEnd, VaMod, UsizeMod} \subseteq Nat
    /\ {UserFrames, UserSlots, MaxCopies} \subseteq Nat /\ CopySizes \subseteq 0 .. UsizeMod - 1

Zero == -1
Kernel == -2
NoCopy == [op |-> "none"]

VARIABLES
    file,      \* the program
    load,      \* header, pages, stack, ready, failed, panic, wild
    seg, at,   \* the program header, and the address of the next page of it
    image,     \* what is mapped: page -> [perm, exec, bytes]
    utables,   \* the last-level tables that exist
    uframes,   \* frames that are left
    copies,    \* bound: copies so far
    copy       \* the last copy: [op, ptr, size, res]
umVars == <<file, load, seg, at, image, utables, uframes, copies, copy>>

UserMemoryInit ==
    /\ file \in Files
    /\ load = "header" /\ seg = 1 /\ at = 0
    /\ image = <<>> /\ utables = {} /\ uframes = UserFrames
    /\ copies = 0 /\ copy = NoCopy

-----------------------------------------------------------------------------
(* Loading.                                                                *)
Ph == file.segs[seg]

\* Magic number, class and byte order.
elf_verify_header == file.valid

verify_program_header(g) ==
    /\ g.filesz <= g.memsz
    /\ g.off <= file.size
    /\ g.filesz <= file.size - g.off
    /\ g.vaddr <= UserEnd
    /\ g.memsz <= UserEnd - g.vaddr

\* The addresses of the pages of a segment.
MapStart(g) == (g.vaddr \div UPage) * UPage
MapEnd(g) == ((g.vaddr + g.memsz + UPage - 1) \div UPage) * UPage

\* The process is destroyed, and its frames are given back.
Abandon ==
    /\ load' = "failed"
    /\ image' = <<>> /\ utables' = {} /\ uframes' = UserFrames
    /\ UNCHANGED <<seg, at>>

(* elf_load: the header of the file, then one program header after the     *)
(* other; those that are not to be loaded, or are empty, are skipped.      *)
elf_load ==
    /\ load = "header"
    /\ IF ~elf_verify_header \/ (seg <= Len(file.segs) /\ Ph.load /\ ~verify_program_header(Ph))
       THEN Abandon
       ELSE /\ UNCHANGED <<image, utables, uframes>>
            /\ IF seg > Len(file.segs)
               THEN load' = "stack" /\ UNCHANGED <<seg, at>>
               ELSE IF Ph.load /\ Ph.memsz # 0
               THEN load' = "pages" /\ at' = MapStart(Ph) /\ UNCHANGED seg
               ELSE seg' = seg + 1 /\ UNCHANGED <<load, at>>
    /\ UNCHANGED <<file, copies, copy>>

\* Which bytes of the page at va come from the file; copy_end is unsigned.
FillStart(g, va) == IF va < g.vaddr THEN g.vaddr - va ELSE 0
FillEnd(g, va) ==
    IF va + UPage > g.vaddr + g.filesz THEN (g.vaddr + g.filesz - va) % UsizeMod ELSE UPage

\* Mutant: the copy begins with what belongs to the start of the page.
MutFileOffset(g, va) == g.off + va - g.vaddr
FileOffset(g, va) == g.off + (va + FillStart(g, va)) - g.vaddr

FilledPage(g, va) ==
    [b \in 0 .. UPage - 1 |->
        IF FillStart(g, va) <= b /\ b < FillEnd(g, va)
        THEN FileOffset(g, va) + b - FillStart(g, va)
        ELSE Zero]

\* paging_map of one page; table_next_table takes a frame when it needs one.
TablesNeeded(p) == IF p \div TableSpan \in utables THEN 0 ELSE 1
MapUserPage(p, perm, exec, bytes) ==
    /\ image' = [q \in DOMAIN image \cup {p} |->
                    IF q = p THEN [perm |-> perm, exec |-> exec, bytes |-> bytes] ELSE image[q]]
    /\ utables' = utables \cup {p \div TableSpan}
    /\ uframes' = uframes - 1 - TablesNeeded(p)

PermOf(g) == IF g.w THEN "rw" ELSE "ro"

(* map_section_from_header, one page: a frame, address_space_map_owned,    *)
(* which refuses a page that is taken and asserts that it is in the user   *)
(* range, and the copy.                                                    *)
map_section_from_header ==
    LET p == at \div UPage
    IN  /\ load = "pages" /\ at < MapEnd(Ph)
        /\ IF uframes = 0 \/ Cardinality(DOMAIN image) = UserSlots THEN Abandon
           ELSE IF at < UserBase \/ (p \notin DOMAIN image /\ uframes < 1 + TablesNeeded(p))
           THEN load' = "panic" /\ UNCHANGED <<seg, at, image, utables, uframes>>
           ELSE IF p \in DOMAIN image THEN Abandon
           ELSE /\ MapUserPage(p, PermOf(Ph), Ph.x, FilledPage(Ph, at))
                /\ load' = IF FillEnd(Ph, at) > UPage THEN "wild" ELSE load
                /\ at' = at + UPage
                /\ UNCHANGED seg
        /\ UNCHANGED <<file, copies, copy>>

SegmentDone ==
    /\ load = "pages" /\ at >= MapEnd(Ph)
    /\ load' = "header" /\ seg' = seg + 1
    /\ UNCHANGED <<file, at, image, utables, uframes, copies, copy>>

\* proc_manager_create_exec_from_elf allocates the stack, one page here,
\* where the region has room first.
UserStack ==
    LET open == (UserBase \div UPage .. UserEnd \div UPage - 1) \ DOMAIN image
    IN  /\ load = "stack"
        /\ IF open = {} \/ uframes = 0 \/ Cardinality(DOMAIN image) = UserSlots THEN Abandon
           ELSE IF uframes < 1 + TablesNeeded(Min(open))
           THEN load' = "panic" /\ UNCHANGED <<seg, at, image, utables, uframes>>
           ELSE /\ MapUserPage(Min(open), "rw", FALSE, [b \in 0 .. UPage - 1 |-> Zero])
                /\ load' = "ready" /\ UNCHANGED <<seg, at>>
        /\ UNCHANGED <<file, copies, copy>>

-----------------------------------------------------------------------------
(* Copies of the kernel, for the process that is running.                  *)
PageOf(a) == a \div UPage
\* The difference is unsigned: it is huge when size is more than the end.
is_within_user_vm_range(ptr, size) == ptr >= UserBase /\ ptr <= (UserEnd - size) % UsizeMod

\* The descriptor of page p: mapped, and with the permission.
CheckDesc(p, write) ==
    /\ p \in DOMAIN image
    /\ write => image[p].perm = "rw"
    /\ ~write => image[p].perm \in {"ro", "rw"}

(* user_range_valid: the loop begins at the last page, and ends with it.   *)
(* Without the table of that page the lookup returns an error value, which *)
(* is read as a descriptor.                                                *)
user_range_valid(ptr, size, write) ==
    LET last == PageOf(((ptr + size - 1) % UsizeMod) % VaMod)
    IN  CASE ~is_within_user_vm_range(ptr, size) -> "efault"
          [] is_within_user_vm_range(ptr, size) /\ last \div TableSpan \notin utables -> "lookup"
          [] OTHER -> IF CheckDesc(last, write) THEN "ok" ELSE "efault"

\* What the MMU allows the kernel in the range of the user; no copy that goes
\* on outside of it comes to an end, as page 0 and the hole between the two
\* halves are never mapped.
MayRead(a) == PageOf(a) \in DOMAIN image
MayWrite(a) == MayRead(a) /\ image[PageOf(a)].perm = "rw"
ByteRange(ptr, size) == {a % UsizeMod: a \in ptr .. ptr + size - 1}

\* The end of a copy that was allowed to begin, or not.
CopyResult(ptr, size, write) ==
    IF size = 0 THEN "ok"
    ELSE IF user_range_valid(ptr, size, write) # "ok" THEN user_range_valid(ptr, size, write)
    ELSE IF \A a \in ByteRange(ptr, size): IF write THEN MayWrite(a) ELSE MayRead(a) THEN "ok"
    ELSE "abort"

\* One more copy, with result res; the kernel does not survive the last two.
Copied(op, ptr, size, res) ==
    /\ load = "ready" /\ copies < MaxCopies
    /\ copies' = copies + 1
    /\ copy' = [op |-> op, ptr |-> ptr, size |-> size, res |-> res]
    /\ load' = IF res \in {"abort", "lookup"} THEN "panic" ELSE load
    /\ UNCHANGED <<file, seg, at, utables, uframes>>

copy_from_user(ptr, size) ==
    /\ Copied("from", ptr, size, CopyResult(ptr, size, FALSE))
    /\ UNCHANGED image

copy_to_user(ptr, size) ==
    LET res == CopyResult(ptr, size, TRUE)
    IN  /\ Copied("to", ptr, size, res)
        /\ image' = IF res # "ok" THEN image
                    ELSE [p \in DOMAIN image |->
                            [image[p] EXCEPT !.bytes = [b \in 0 .. UPage - 1 |->
                                IF p * UPage + b \in ByteRange(ptr, size) THEN Kernel ELSE @[b]]]]

(* copy_from_user_string: each byte is read after a check of max bytes     *)
(* from there on, up to the first that is zero.                            *)
copy_from_user_string(ptr, max) ==
    LET va(i) == (ptr + i) % UsizeMod
        check(i) == user_range_valid(va(i), max, FALSE)
        byte(i) == image[PageOf(va(i))].bytes[va(i) % UPage]
        ends == {i \in 0 .. max - 1: check(i) # "ok" \/ ~MayRead(va(i)) \/ byte(i) = Zero}
        i == Min(ends)
        res == IF max = 0 THEN "ok"
               ELSE IF ends = {} THEN "enametoolong"
               ELSE IF check(i) # "ok" THEN check(i)
               ELSE IF MayRead(va(i)) THEN "ok" ELSE "abort"
    IN  /\ Copied("string", ptr, max, res)
        /\ UNCHANGED image

UserMemoryNext ==
    \/ elf_load \/ map_section_from_header \/ SegmentDone \/ UserStack
    \/ \E ptr \in 0 .. UsizeMod - 1, size \in CopySizes:
        copy_from_user(ptr, size) \/ copy_to_user(ptr, size) \/ copy_from_user_string(ptr, size)

UserMemorySpec == UserMemoryInit /\ [][UserMemoryNext]_umVars

-----------------------------------------------------------------------------
Loaded == {file.segs[i]: i \in {j \in 1 .. Len(file.segs): file.segs[j].load /\ file.segs[j].memsz > 0}}

\* What byte a of a page is to hold: a byte of the file, or zero.
Expected(a) ==
    LET of == {g \in Loaded: g.vaddr <= a /\ a < g.vaddr + g.filesz}
    IN  IF of = {} THEN Zero ELSE LET g == CHOOSE g \in of: TRUE IN g.off + a - g.vaddr

(* A program that was loaded is in memory as its headers say: every byte   *)
(* of a segment is mapped with the segment's permissions and holds what    *)
(* the file has there, the rest of its pages is zero, and only pages the   *)
(* program may write differ later, by what the kernel copied to them.      *)
ImageExact ==
    load = "ready" =>
        /\ \A g \in Loaded: \A a \in g.vaddr .. g.vaddr + g.memsz - 1:
              PageOf(a) \in DOMAIN image /\ image[PageOf(a)].perm = PermOf(g) /\ image[PageOf(a)].exec = g.x
        /\ \A p \in DOMAIN image: \A b \in 0 .. UPage - 1:
              \/ image[p].bytes[b] = Expected(p * UPage + b)
              \/ image[p].bytes[b] = Kernel /\ image[p].perm = "rw"
        /\ \A p \in DOMAIN image: \A b \in 0 .. UPage - 1: image[p].bytes[b] < file.size

(* The loader writes outside of the page only for a segment with a page    *)
(* that begins behind what the file fills, where copy_end wraps.           *)
WildOnlyInBss ==
    load = "wild" => \E g \in Loaded: MapEnd(g) - UPage > g.vaddr + g.filesz

(* A copy that the check lets through does not fault, when it stays in one *)
(* page; one that crosses a page may, as only the last page is checked, or *)
(* is longer than the range.  A copy that is refused has a byte that may   *)
(* not be read (or written).                                               *)
CopiesChecked ==
    copy # NoCopy =>
        /\ copy.res = "abort" => PageOf(copy.ptr) # PageOf(copy.ptr + copy.size - 1)
        /\ copy.op # "string" /\ copy.res \in {"efault", "lookup"} =>
              \E a \in ByteRange(copy.ptr, copy.size): ~(IF copy.op = "to" THEN MayWrite(a) ELSE MayRead(a))

(* user_range_valid "verifies if the given pointer (and its range) is      *)
(* within the safe user VM range", hence a copy that it accepts does not   *)
(* fault.  The code breaks this: it looks at the last page of the range    *)
(* only, and its size check wraps.                                         *)
AcceptedCopyIsSafe == copy # NoCopy => copy.res # "abort"

(* The loader copies no more than the page.  Not an invariant: copy_end    *)
(* wraps for a page behind the file part of its segment.                   *)
LoaderStaysInPage == load # "wild"

(* Loader and copies together (elf_load, copy_from_user, copy_to_user).    *)
UserMemorySound == ImageExact /\ WildOnlyInBss /\ CopiesChecked
=============================================================================
