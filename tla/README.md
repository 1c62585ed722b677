# KaworuOS in TLA+

KaworuOS is a small AArch64 SMP kernel in C. These modules model the parts of
it that decide whether it is correct when several CPUs, interrupts, devices and
failing allocations are involved: locks, scheduler, task and process lifetimes,
the sleeping synchronisation primitives, file descriptors, the kernel heap,
kernel and user address spaces, program loading and user copies, the lists
under all queues, console and terminal, the block layer, and the way from
`kernel_main` to a running system. TLC checks each module on a small instance.
TLAPS proves the safety of most of them for every instance: the spin lock, on
which all others rest; tasks and scheduler; mutex, semaphore and wait queues;
processes and their families; descriptor tables and the reference counts of
files; user address spaces, program loading and user copies; both lists and
what a heap promises; console, block layer, framebuffer set-up, and the probing
of drivers and bring-up of CPUs.

`PROJECT.json` holds the machine-readable side: which definition models which
lines, every run and its properties, a mutant of the code that breaks each
property, the findings, and the hazards the properties were written for.

## 1. The system

| Part | State it keeps | Operations | Who calls it |
|---|---|---|---|
| Spin lock, interrupt masking (`kernel/sync/spinlock.c`, `kernel/irq/irq_controller.c`) | `locked`, `cpu`; per CPU `irq_disable_depth`, `irq_was_enabled`, DAIF | acquire, release, push, pop | everything below, from threads and interrupt handlers |
| Scheduler (`kernel/sched`, `kernel/sync/run_queue.c`) | per CPU: run queue, sleep queue, current task; per task: state | enqueue, yield, switch, sleep, tick, block, wake | tasks, timer interrupt, wait queues |
| Tasks (`kernel/core/task.c`, `task_manager.c`) | one list of all tasks under one lock, a cleanup request per CPU | create, exit, find dead, remove, free | processes, the cleanup task of each CPU |
| Wait queue, mutex, semaphore, completion (`kernel/sync`) | queue, owner / count / done, `waiting_on` | acquire, release, wait, signal | kernel code, block driver, wait4 |
| Processes (`kernel/core/process*.c`, `kernel/syscall/sys_process.c`) | family links, threads, state, exit code, waiters | fork, exit, wait4, add/remove thread, reap | system calls, cleanup tasks |
| Descriptor tables and files (`kernel/core/fd_table.c`, `fs/file.c`, `kernel/sync/refcount.c`) | slot state, file, close-on-exec; reference count per file | reserve, install, dup, close, copy, get and put | system calls, fork, exit |
| Heap (`kernel/mm/kheap.c`, `lib/allocator/freelist.c`) | address-ordered free list inside the pool | kalloc, kfree, growth | everywhere |
| Address spaces (`kernel/mm`, `lib/allocator/region.c`, `bitmap.c`) | page table, region with bitmap and allocation list, free frames | create, alloc, map, free, copy, destroy | process creation, fork, ELF loader, exit |
| Kernel address space (`kernel/mm/vmm.c`, `paging.c`, `pmm.c`, `kernel/boot/memmap.c`) | free frames, page-table levels, a memory and a device region | pmm and vm init, alloc, map, unmap, free, virtio queue | drivers, heap, boot |
| Program loading, user access (`kernel/exec/elf.c`, `kernel/mm/uaccess.c`) | the pages of a process | load segments and stack; copy from and to the user, with checks | process creation, system calls |
| Lists (`lib/ds`) | head, tail, count, links | insert at head, tail, index or in order; remove | every queue |
| Console and logging (`kernel/io/console.c`, `kernel/debug/log.c`, `lib/ds/ringbuffer.c`, `lib/allocator/arena.c`) | backends, two arenas, receive ring | register, write, flush, log, receive, read | everything; UART interrupt; system calls |
| Terminal (`drivers/framebuffer`, Flanterm) | parser, grid, queue of changes, pixels | write an event, flush | console |
| Block driver (`drivers/virtio`), block layer (`fs/block.c`) | virtqueue, one request page, one completion per device | submit, poll, interrupt, read, write | kernel tasks |
| Drivers and boot (`drivers/common`, `drivers/irqchip`, `kernel/core/cpu.c`, `kernel/init.c`) | device list, resources of a device, interrupt table, CPUs online | discover, probe, request and dispatch interrupts, wake CPUs | `kernel_main`, interrupts |
| printf, strings, device tree library, user programs | see `components` in `PROJECT.json` | | |

How the parts meet. A switch is the only way from one task to another; it is
reached by yielding, by blocking and from the timer interrupt. Every structure
that CPUs share has a spin lock, and holding one masks interrupts on that CPU,
so a critical section is atomic for other CPUs and for interrupts. What is
*not* inside a critical section interleaves with everything: reads of
`state`, `waiting_on`, `children` or a run queue outside the lock, the gap
between releasing a lock and blocking, the steps of the cleanup task. System
calls run with interrupts masked, so only other CPUs interleave with them;
kernel tasks are preempted too.

What is hard in this code, and what the properties are aimed at:

* two-step sleeps (enter a queue, then block) against wake-ups and preemption;
* lifetimes: a dead task still on its stack, a zombie whose thread is still
  attached, an orphan whose parent is gone, a file closed by one thread and
  used by another, an address space under the threads that run in it;
* failure in the middle of an operation: fork, copy of an address space,
  growth of the heap, a table level that cannot be allocated;
* assertions that read shared state without its lock;
* edges of address arithmetic: a device that does not start at a page, a
  segment shorter in the file than in memory, the last sector, the last cell,
  sums of lengths that wrap, a frame whose address is 0;
* state kept twice by hand: bitmap and page table, arena and event, the cells
  of the terminal and the queue of what changed, the links of a list;
* interrupts that come before what they need, or after what they answer;
* liveness: every ready task runs, every sleeper wakes, every waiter returns.

## 2. Modules

| Module | Models | Uses |
|---|---|---|
| `SpinLock` | spin lock and interrupt masking, one action per memory access | |
| `SpinLockProofs` | proofs about it | `SpinLock`, TLAPS |
| `Scheduler` | run and sleep queues, switch, timer, boot of a CPU | |
| `TaskManager` | task list and cleanup task | `Scheduler` |
| `TaskLife` | complete system of tasks: create, sleep, yield, exit, reclaim | `TaskManager` |
| `TaskLifeProofs` | proofs about scheduler, task list and cleanup | `TaskLife`, TLAPS |
| `WaitQueue` | wait queue, block_current, wake | `Scheduler` |
| `Mutex`, `Semaphore`, `Completion` | the operations of the three primitives; `Completion` with the virtio block driver and its device | `WaitQueue` |
| `Sync` | complete system of tasks that use the three, with scheduler and timer | `Mutex`, `Semaphore`, `Completion` |
| `SyncProofs` | proofs about wait queues, mutex and semaphore | `Sync`, TLAPS |
| `ProcessLife` | processes with tasks, wait queue and cleanup | `TaskManager`, `WaitQueue` |
| `ProcessProofs` | proofs about families, threads, exit and, on one CPU, the assertions | `ProcessLife`, TLAPS |
| `FDTable` | descriptor tables, files, reference counts, their part of fork and reap | |
| `FDTableProofs` | proofs about files, counts and slots | `FDTable`, TLAPS |
| `Heap` | what kalloc and kfree promise (abstract) | |
| `FreeList` | the free list and heap growth; implements `Heap` | `Heap` |
| `AddressSpace` | user spaces, regions, page tables, frames | |
| `AddressSpaceProofs` | proofs about frames, regions and page tables, and about a loaded image and user copies | `AddressSpace`, `UserMemory`, TLAPS |
| `KernelVm` | physical memory from the loader's map on, kernel page table, regions, virtio queue | |
| `UserMemory` | ELF loader and user copies over the memory of one process | |
| `IntrusiveList` | the links of the intrusive list, loops step by step | |
| `LinkedList` | the list that allocates its nodes | `IntrusiveList` |
| `LibProofs` | proofs about both lists; the heap stays tiled and merged, and keeps the promise of `Heap` | `LinkedList`, `FreeList`, TLAPS |
| `Console` | backends, arenas, log calls, receive ring | |
| `Framebuffer` | grid, change queue, cursor and pixels of the terminal | |
| `Terminal` | parser of text and control sequences, the framebuffer driver | `Framebuffer` |
| `FbGeometry` | set-up of the framebuffer: pool, limits, grid, placement | |
| `Block` | block layer, virtio block driver, its queue and interrupt | |
| `Drivers` | driver manager, probes, interrupt table and dispatch, CPU bring-up | |
| `DeviceProofs` | proofs about transfers, probing and bring-up, console output and input, and the set-up of the framebuffer | `Block`, `Drivers`, `Console`, `FbGeometry`, TLAPS |
| `MCMemory` | heap, kernel address space, user memory and lists for TLC | the five modules |
| `MCDevices` | console, terminal, block layer and drivers for TLC | the five modules |
| other `MC*` | values of the constants for TLC | the module of the same name |

### How state and actions correspond to the code

* **SpinLock.** `locked`, `owner`, `depth`, `was`, `enabled` are the fields
  and DAIF. `pc` is the position of a context in `spinlock_acquire` or
  `spinlock_release` (push_read, push_mask, push_count, check_locked,
  check_cpu, exchange, set_cpu and the way back). A CPU executes its current
  thread or its interrupt handler; interrupts are taken wherever they are
  enabled and may end in a switch. Callers use the lock as the kernel does:
  every acquire is matched by a release in the same context, nested locks are
  taken in one order, a context does not switch away inside a critical section.
* **Scheduler.** One action per critical section and per unlocked access of a
  switch: current is put back (`SwitchEnter`), a task is taken from the run
  queue under its lock (`PickFirst`), the `exiting` flag of its process is read
  (`CheckLive`, `CheckExiting`), and only then the assertions are evaluated and
  `state` and `current` written (`SwitchTo`), on the state of that moment.
  Between them other CPUs enqueue, or set `exiting`. The assertions of
  enqueueing, sleeping and waking are evaluated where the code has them. A
  failed assertion halts its CPU (`panic`).
  `wake_sleepers` is one step because only the CPU itself touches its sleep
  queue. `Home[t]` is the CPU that the placement policy gave the task; it is
  constant because tasks never migrate.
* **TaskManager.** The cleanup task is modelled step by step: find, remove,
  detach from the process, free. The list lock is dropped between the steps.
* **WaitQueue.** `waiting_on` and the queue, as two pieces of state; entering
  the queue, releasing the lock of the primitive and blocking are separate
  steps. `wake_all` takes the tasks out one by one.
* **Completion.** The device answers a request at any time and raises an
  interrupt that any CPU with interrupts enabled may take. The device is
  external.
* **Sync.** Each task uses one of the primitives, or only computes; which one
  is chosen in the initial state (`role`), so that one run covers all of them.
* **ProcessLife.** `process` is `Task.process`, set when a thread is created
  by fork or by `process_add_thread`. fork, exit and wait4 are split where another CPU can see
  the difference: exit sets the flag, then the state; wait4 goes from child to
  child of its list, one step for the next one (`WaitScan`) and one for the look
  at its state (`WaitLook`), removes under the lock (`WaitRemove`), copies the
  status and destroys; the cleanup task detaches, reads `exiting` and the
  threads (`CheckLast`), destroys the space, and clears the pointer
  (`ForgetSpace`). What is destroyed or used twice is recorded in `faults`. The parent of a
  new process is uninitialised until it is linked (`Wild`): a read of it finds
  null, which an assertion catches, or anything else. A use of freed memory or a
  failed assertion is recorded in `faults`, and the model stops there: what
  follows is undefined. The root process does not exit. `process_add_thread` is part of
  the interface and has no caller in the tree; `AddThread` is that call.
* **FDTable.** Actors are threads that share a table, and the threads of a
  forked child. Taking a reference happens under the table's lock and is
  atomic; dropping one is the load and the compare-and-swap of
  `refcount_put`, then `file_release`. A failed assertion leaves the thread
  where it is, with the lock of the process manager if it held it. Each file
  is created once, so that a use after its release is visible.
* **FreeList.** The heap counted in words; a block is a header and a payload.
  Growth puts a new pool at any free, page-aligned place. Lengths and their
  sums with the header, and the rounding of growth, are modulo `SizeMod`. A
  block that is split off shorter than a header is overwritten by the header of
  the rest; what the list is then is undefined, and the behaviour ends
  (`heapFault = "wrap"`).
* **AddressSpace.** One action per page for allocation and copy, so failures
  happen between any two pages; the levels below the root of a page table are
  one frame. Which free frame `pmm_alloc` returns is a fixed choice; no
  property tells frames apart. Teardown is atomic: it only adds frames. `free`
  is a set, so a frame that teardown pushes on the list a second time, which
  makes the list of the code a cycle, is found by `GivenBackTwice` and ends
  the behaviour (`fault = "double"`). So does the copy of a space without a
  lower-level table, whose descriptor is an error value (`"lookup"`).
* **KernelVm.** `mmu` is the free list of frames (a stack, as the code links
  them), the tables, and what each kernel page is mapped to; a table frame
  serves `Span` pages. The calls run under one lock and are atomic. The
  memory map is one of those in `MCMemory`: holes, a framebuffer, memory that
  ACPI gives back, entries that are not aligned, too little memory. `vm_free` and `vm_unmap`
  take the address 0 of a frame for "not mapped", as the code does, and memory
  maps that begin at 0 are among the instances. An allocation that fails keeps
  its slot with `use = "lost"`. Where the code panics, `mmu.panic` names the
  reason and the behaviour ends.
* **UserMemory.** One step per page of a segment. A byte holds the file offset
  it came from, zero, or what the kernel wrote, so that "the image is the
  file" can be stated. Sums and differences wrap at `UsizeMod`, those of
  `is_within_user_vm_range` too; of an address the walk of the page table sees
  only what is below `VaMod`. A copy is checked as the code does and its
  outcome is what the MMU makes of it.
* **IntrusiveList, LinkedList.** `next`, `prev`, `head`, `tail`, `count` are
  the fields; `order` records what the list should contain and has no
  counterpart in the code. A search is one step per node. Callers insert a
  node that is in no list and remove one that is in this list, as all callers do.
* **Console.** A write is atomic under the write lock. A log call is two
  locked halves, message and flush, with other CPUs in between. Text is an
  identity repeated `len` times, so overwriting shows. `hist`, `sent` and
  `read` record what went in and out.
* **Terminal, Framebuffer.** One step per event of the console (a message of
  several characters), each character handled by the parser as in the source.
  The rows and columns of the grid, escape values and queue are those of the
  code; a pixel is the character and colours shown in a cell. Characters are
  classes: those with a glyph, wide ones, combining ones, control characters.
* **FbGeometry.** Set-up for a build (pool, aspect) and a call (size, pitch,
  rotation, scale, margin, masks), with the arithmetic of the source; 64-bit
  sizes are cut to TLC's integers by `SizeMax`.
* **Block.** One caller; the device serves requests and raises interrupts at
  its own pace (external), on the blocking and the polled path. The wait ends
  in one step (`WaitEnds`), the status is looked at in the next (`SectorDone`),
  and a late interrupt fits between. The window inside `completion_wait` itself
  is the subject of `Sync`.
* **Drivers.** `kernel_main` step by step, and each probe step by step in the
  order of its code: every kalloc, frame, mapping, unmapping and kfree changes
  the count of one resource of one device, and each may fail. Secondary CPUs
  and dispatchers interleave. A device tree is a sequence of kinds of nodes.
  How a driver reacts to an error of `vm_mmio_map` is modelled here; that the
  call panics on a full region is in `KernelVm`.

## 3. Runs

### What holds

| Run | Instance | What it shows |
|---|---|---|
| `spinlock` | 2 CPUs, 3 threads, 2 locks | exclusion, no panic, the holder of a lock is running with interrupts masked, the interrupt state comes back as it was |
| `tasks_one_cpu` | 1 CPU, 2 tasks, 3 ticks | round robin starves no ready task, sleepers wake in order, a dead task is freed once and not while in use |
| `tasks_two_cpus` | 2 CPUs, 2 tasks | every task is in exactly one place, also between its pick and the switch to it; no assertion of enqueueing, sleeping and switching fails except the one of boot |
| `sync` | 2 CPUs, 4 tasks: all on a semaphore of 2 units, or three on a mutex, or two on a mutex and one on the block device | exclusion; units conserved; a free mutex or unit with waiters always has a woken task on its way; a wait for the device returns only after the answer; wait queues, run queues and task states agree |
| `process_one_cpu` | root, up to two more processes or threads | as long as processes have one thread no assertion fails and no dead object is used; wait4 returns; a thread that can run when its process starts to exit ends or blocks (4,459 states) |
| `process_two_cpus` | the same on 2 CPUs, failing allocations | up to the first fault: of every child somebody takes care and no two do, while processes have one thread; no thread outlives its process or its space (912,653 states, one to two minutes) |
| `fd_table` | 3 actors, 2 files, 2 slots, failing forks | counts exact, no use after release, the last drop releases, no stale flag, a reaped table is empty |
| `address_spaces` | 2 CPUs, 2 spaces of 3 pages, 6 frames, a foreign frame, old data in bitmaps | no frame lost, owned twice or, if it is one of the allocator, pushed on the free list twice; region and table agree, nothing the region gives out is mapped already |
| `memory` | the instances of `MCMemory` | `HeapLayout`: pool tiled, neighbours merged, headers fit, up to a length that wraps; `KeepsPromise`: `FreeList` implements `Heap`, whose promise ends with such a length; `KernelFramesConserved`: every frame of the map is free, a table, mapped, given out or in a queue, once, or lost in one of the two known ways; `DeviceRangesMapped`: every byte of a device's registers is reached where it is, also across a page, region and table agree but for frame 0, and no panic but the known ones; `UserMemorySound`: a loaded image is the file, segment by segment and byte by byte, copies of any size refuse only what the MMU refuses and fault only across a page; `ListSound`: one list in both directions, count exact, sorted insertion sorted; `ContentsKept`: the owning list neither leaks nor loses |
| `devices` | the instances of `MCDevices` | `ConsoleSound`: every backend prints every message once, unharmed, in order, the ring is a queue; `CursorAndParserInBounds`; `ScreenFollowsText`: what is shown after a flush is the text, and the queue always holds the difference; `PlacementSound`: the corners of the grid lie in the framebuffer, the pool is enough; `TransfersSound`: a read returns the sectors the caller named, a write from sector 0 on writes them, no call changes another sector, wrapped sums included; `NoAnswerLost`: a blocked caller's answer is always on its way; `ResourcesBalanced`: whatever fails, nothing is taken or given back twice, a ready device holds exactly what its remove function gives back, no failed one has registers mapped, and one device at most loses memory; `NothingRunsEarly`: a handler runs only for a probed device on a CPU with tasks, boot goes on when all CPUs are ready |

`memory` and `devices` each hold several components that share no state. A
behaviour exercises the one that `part` names while the others stay in one
initial state, so the states of the run are the union of those of the parts,
and each part is checked as completely as in a run of its own.

Several properties are conjunctions, so that one name stands for one subject:
`TasksConsistent` is `TypeOK` and `TaskInOnePlace`, `HoldersExact` is
`MutualExclusion` and `UnitsConserved` of the sleeping primitives,
`QueuesConsistent`, `ThreadsHaveProcess`, `FileLifetime`, `SlotsClean` and
`SpacesConsistent` likewise; the parts keep their names and comments in the
modules.

### Where the code and its comments or assertions disagree

Two runs have TLC find a behaviour of the code that contradicts what an
assertion or a comment of the repository says; `findings` quotes the lines.

| Run | What happens |
|---|---|
| `cleanup_in_use` | two CPUs: a cleanup task frees a task still on its stack, or one the other cleanup task has found too |
| `mutex_wake_assert` | mutex_release dequeues a waiter that has not become BLOCKED yet, and fails the assertion of the wake-up |

The models reach more such states. Each of the following definitions is kept
in its module and is *not* an invariant of the code; giving it to TLC as an
INVARIANT of the named configuration shows the behaviour.

| Definition | Module, configuration | Behaviour |
|---|---|---|
| `NoBootPanic` | `TaskLife`, two CPUs | the assertion of the first switch (`scheduler.c:333`) re-reads the run queue after another CPU filled it |
| `DeadIsReclaimed` (temporal) | `TaskLife`, one CPU | a task preempted between its cleanup request and DEAD (`task.c:82`) is not reclaimed: the request was cleared meanwhile |
| `PreemptedIsNotWaiting` | `Sync` | the timer comes between the entry in the wait queue and BLOCKED (`mutex.c:31`) |
| `BlockedWaitsSomewhere` | `Sync` | the timer comes in `completion_wait` after BLOCKED and before the queue (`completion.c:28`); a signal there finds nobody to wake |
| `SignalledOnce` | `Sync`, two tasks with role "device" | the second answer meets a completion that is done (`completion.c:38`) |
| `ZombieCanBeFreed` | `ProcessLife` | wait4 frees a zombie whose thread is still attached (`process_manager.c:247`), on two CPUs or with two threads |
| `FreedOnce` | `ProcessLife`, two CPUs | two threads of one parent find the same zombie, and it is removed and freed twice (`sys_process.c:106-110`); a cleanup task uses a process its parent has freed, or two of them destroy one address space (`task_manager.c:262-269`) |
| `NoZombieIsLost` | `ProcessLife`, `MayFail` | wait4 unlinks the zombie before `copy_to_user`; when the copy fails nothing refers to it any more (`sys_process.c:112`) |
| `WaiterWillBeWoken` | `ProcessLife`, two CPUs | a child exits between the scan of wait4 and its entry in the queue (`sys_process.c:134`): the wake-up is lost, so `WaitReturns` of the run with one CPU has no counterpart on two |
| `ParentExists` | `ProcessLife`, two CPUs | a child exits before fork has stored its parent (`process_manager.c:231`); if children fork, exit also uses a parent that was freed (`sys_process.c:41`) |
| `ForkFailsCleanly` | `ProcessLife`, `MayFail` | a failed fork links an error value as a child (`process_manager.c:179`) |
| `ReservationKept` | `FDTable` | dup2 takes a slot another thread has reserved (`fd_table.c:313`) |
| `ForkFailureReturns` | `FDTable` | fork that fails after the table was copied fails the assertion of `fdtable_destroy` (`process_manager.c:211`) |
| `InstalledIsFile` | `FDTable`, `Failures` with "file" | an error value is installed as a standard file (`fd_table.c:371`) |
| `SplitLeavesRoom` | `FreeList`, in `Memory.cfg` | a length near the largest usize, which the write call takes from its caller (`sys_io.c:17`), wraps when the header is added (`freelist.c:28`): a block of less than a header is split off and its header overwritten, where the comment says "Split only if another block can fit." (`freelist.c:49`) |
| `ListHasHead` | `FreeList` | the heap is handed out to the last word: the next call fails an assertion (`freelist.c:84`) |
| `PoolIsMemory` | `FreeList` | growth without memory adds an error value as a pool (`kheap.c:66`) |
| `TableIsMemory` | `AddressSpace` | a lower-level table cannot be allocated and its error value is used (`paging.c:321`) |
| `MappedIsNotFree` | `AddressSpace`, `Junk` FALSE, 7 frames, no foreign one | frames run out in the middle of a copy: pages are freed and stay mapped, and the copy is returned as a success (`address_space.c:70`) |
| `UnownedStaysForeign` | `AddressSpace` | destroying a space gives a frame that was mapped unowned to the physical allocator (`paging.c:66`), where `address_space.h:38` says that the mapping "does not take the ownership" |
| `GivenBackOnce` | `AddressSpace` | a foreign frame mapped unowned at two pages is pushed on the free list twice, which becomes a cycle (`pmm.c:86`) |
| `SourceHasTables` | `AddressSpace`, one CPU, three spaces, no foreign frame | a space whose first allocation found no frame has no lower-level table; copying it dereferences an error value (`address_space.c:60`) |
| `LocksGivenBack` | `AddressSpace` | an address space is freed with its lock held (`address_space.c:215`) |
| `FreedIsUnmapped` | `KernelVm`, in `Memory.cfg` | `vm_free`, which "frees and unmaps n bytes" (`vmm.c:259`), takes frame 0 for "not mapped" and leaves it mapped at an address it gives back (`vmm.c:270`); the next `vm_alloc` there panics |
| `NoFrameIsLost` | `KernelVm`, in `Memory.cfg` | a `vm_alloc` that runs out of frames keeps its slot and the pages mapped so far at an address nobody gets (`vmm.c:213`) |
| `AcceptedCopyIsSafe` | `UserMemory`, in `Memory.cfg` | `user_range_valid` "verifies if the given pointer (and its range)" is safe (`uaccess.c:37-40`), but it begins at the last page (`:57`) and its size check wraps (`:19`): a copy whose first page is not mapped is accepted and faults |
| `LoaderStaysInPage` | `UserMemory`, in `Memory.cfg` | `copy_end` wraps for a page that begins behind the file part of its segment, a bss longer than its first page, and the copy runs off (`elf.c:121`) |
| `WritesTakeTheBuffer` | `Block`, in `Devices.cfg` | a write to a sector other than 0 takes its data from behind its place in the buffer (`fs/block.c:109`), against "write n blocks starting from given sector" (`block.h:33`) |
| `AcceptedIsOnDevice` | `Block`, in `Devices.cfg` | sector + count wraps, passes the range check, and the call returns EOK without a transfer (`fs/block.c:25`) |
| `FailedProbeHoldsNothing` | `Drivers`, in `Devices.cfg` | a probe of the block device that fails keeps its data, or data and queue (`virtio_blk.c:263`) |

In the modules of memory and devices the following is part of the models; the
properties name it as the exception they allow, or the behaviour ends there.

* **Kernel memory.** `pmm_init` uses memory that ACPI gives back, which
  `paging_kernel_init` leaves out of the direct map; an entry of it that is
  not aligned panics `pmm_free`. `vm_map` does not test `region_alloc`, so a
  full region panics. `table_next_table` does not test `pmm_alloc`.
  `virtio_queue_create` relies on two allocations being neighbours.
* **Program loading.** `WildOnlyInBss` allows the loader to leave its page
  where `copy_end` wraps (`LoaderStaysInPage` above), and nowhere else. An address
  below the user range fails an assertion of the bitmap. Two segments in one
  page are refused with -ENOMEM.
* **User access.** `CopiesChecked` allows an accepted copy to fault if it
  crosses a page (`AcceptedCopyIsSafe` above), and nowhere else. A missing table level
  is read as a descriptor.
* **Lists.** Removing a node that is in no list empties the list and wraps the
  count; `remove_tail` has no test for the empty list. No caller does either.
  The comment on the comparator ("true if a is smaller than b") is the
  opposite of what the sorted insertion needs; the only comparator in use does
  what the insertion needs.
* **Console.** A message longer than 500 bytes panics with the write lock
  held. The unbuffered path does not look for room; it has no caller.
* **Terminal.** A UTF-8 sequence above the last code point prints nothing,
  where the comment promises a replacement. `full_refresh` with a cursor
  leaves an item in the queue that equals the text.
* **Block layer.** `verify_sector_range` refuses the last sector; errors of the
  device do not reach the caller. The reads and writes of `TransfersSound` are
  those whose sum does not wrap (no buffer is that long); that no sector
  outside the range is changed is claimed of all. After a polled request
  the late interrupt may meet a completion that is done, and panics; hence
  `NoAnswerLost` is about behaviours that only block.
* **Drivers.** `virtio_init` skips the node behind one whose class changed. A
  failed probe of the block device keeps its type claimed, so that no second
  block device is probed; this is why `ResourcesBalanced` can bound the loss to
  one device.

The passing runs hold in spite of these: a behaviour ends, or a CPU halts,
where an assertion fails, and the invariants hold up to there. A run with
`CHECK_DEADLOCK FALSE` is one where the system may really stop: all work is
done, or a CPU has halted with a lock others need.

### Bounds, and why they are enough

* Two CPUs are the smallest number with cross-CPU races; no critical section
  or wake-up involves more than two. Three threads give one CPU a thread to
  preempt the other with; two locks give nesting.
* `MaxTime` bounds the clock. Three ticks and delays of one and two give equal
  and different wake times and insertions before, between and after. Where
  sleeping is not the subject it is 0.
* Three tasks for a mutex: holder, waiter, and one that barges in. Four for a
  semaphore of two units: two holders and two waiters. One user of the device:
  the driver shares one completion, and with two users an answer is taken for
  another (see `SignalledOnce`).
* Two children give wait4 a choice and a non-zombie to skip.
* `MaxFd` is 64 in the code and 2 here, the standard descriptors are {0}: a
  table can be empty, partly full and full. The UINT_MAX guard of the
  reference count is out of reach and left out.
* Kernel memory: pages of 2 units, tables of 4 pages, regions of 3 pages with 2
  slots, 8 memory maps of up to 14 frames, some with usable memory at 0: slots,
  pages, frames and table frames each run out first in some behaviour, and a
  device at an odd address crosses a page.
* User memory: pages of 4 bytes, four of them, 5 frames, 3 slots, a file of 7
  bytes, one or two segments with all relations of file part, memory part and
  page borders; one copy of each of seven sizes, two of them larger than the
  range and one whose sum wraps, at every address of a usize of 64 values.
* Lists: four nodes, two of them equal: head, tail, only, middle and equal.
* Console: arenas of 2 events and 3 bytes, 4 messages of 1, 2 or 4 bytes (one
  does not fit), a ring of 3 filled by 7 characters, so it wraps twice.
* Terminal: 3 by 3 cells and three events out of about sixty, so any sequence may
  meet any two others; two rows of margin and one outside.
* Framebuffer: the numbers of the code (pool of 873000 bytes) and smaller
  pools; sizes from one pixel to 5121 at both sides of the limits. `MaxK` 2000
  is more steps than the search for a limit takes in any of them
  (`GeometryAssumption` relates it to the pool).
* Block: 3 sectors, sizes modulo 5, a queue of 2 entries, 3 calls, indices
  modulo 4: the ring wraps, and calls with every sector and count are made,
  those whose sum wraps too.
* Drivers: all trees of the needed devices and up to three virtio nodes, and
  two that lack a device; one secondary CPU.
* Heap: `Header` 2, `PageSize` 4, sizes 1, 2 and 4 reach every remainder of a
  split (none, less than a header, exactly a header, more), all four merges,
  and growth adjacent to and apart from the pool; a usize of 64 values and
  sizes 40, 58, 61, 62, 63 reach requests that are refused, whose growth wraps,
  and whose sum with the header is just below, at and above the modulus.
* Six frames are too few for two full spaces, which need five each, so frames
  run out at every point of creation, allocation and copy.
* Symmetry is used for files, spaces and CPUs, only in runs of invariants.

### Fairness

Kernel code that has started goes on: weak fairness of the steps of a CPU.
The timer interrupt stays pending while interrupts are masked, hence strong
fairness of taking it. A step of a task that is enabled only while the task is
current has strong fairness: preemption may disable it, and the task is
scheduled again. User code and the creation of work have no fairness. The runs
with liveness are `tasks_one_cpu` and `process_one_cpu`; the others check
safety, where a lost wake-up is caught by `NoLostWakeup` and a lost release by
`LastDropReleases`.

## 4. Proofs

Every theorem is about the module that TLC runs, unchanged, and for all values
of its constants that satisfy the named assumption. Each invariant below was
first given to TLC on the instances of section 3 or larger ones.

| Module | Theorems and the property they state |
|---|---|
| `SpinLockProofs` | `TypeCorrect`, `LockIsExclusive` (`MutualExclusion`), `NeverPanics` (`NoPanic`), `HolderIsRunning` (`HolderRuns`), `IrqStateIsRestored` (`IrqStateRestored`) |
| `TaskLifeProofs` | `TasksStayConsistent` (`TasksConsistent`), `AssertionsHold` (`OnlyBootPanics`), `SleepersStaySorted` (`SleepersSorted`), `FreedOnceOnOneCpu` (`FreedOnceAndUnused`, one CPU) |
| `SyncProofs` | `QueuesStayConsistent` (`QueuesConsistent`), `LocksAreExact` (`HoldersExact`), `ReleasesReachWaiters` (`NoLostWakeup`), `WaitsForItsAnswer` (`AnsweredOnReturn`, one user of the device) |
| `FDTableProofs` | `FilesOutliveReferences` (`FileLifetime`), `FilesAreReleased` (`LastDropReleases`), `DescriptorsClean` (`SlotsClean`) |
| `AddressSpaceProofs` | `FramesAreConserved` (`FramesConserved`), `SpacesStayConsistent` (`SpacesConsistent`), `UserMemoryStaysSound` (`UserMemorySound`) |
| `ProcessProofs` | `ThreadsKeepTheirProcess` (`ThreadsHaveProcess`), `FamilyStaysConsistent` (`FamilyConsistent`), `OneCpuNeverFaults` (`NoFault`, one CPU) |
| `LibProofs` | `ListStaysSound` (`ListSound`), `ListOwnsItsNodes` (`OwnsItsNodes`, which the run checks as `ContentsKept`), `HeapStaysTiled` (`HeapLayout`), `HeapKeepsPromise` (`KeepsPromise`, a refinement), `CallersNeverShare` |
| `DeviceProofs` | `TransfersStaySound` (`TransfersSound`), `AnswersArrive` (`NoAnswerLost`), `ResourcesStayBalanced` (`ResourcesBalanced`), `BootStaysOrdered` (`NothingRunsEarly`), `ConsoleStaysSound` (`ConsoleSound`), `PlacementStaysSound` (`PlacementSound`) |

### SpinLockProofs

Assumptions: CPUs and threads are distinct, finitely many locks, each thread
has a home CPU. The theorems follow from the invariance of `IInv`, the
conjunction of `TypeOK`, `NoPanic` and five parts: `ArgInv` (what a context in
the lock's code knows about its argument), `RestInv` (a context that is not
running is outside any critical section), `SavedInv` (the interrupt state it
resumes with), `ActiveInv` (nesting depth, saved state and mask of a CPU agree
with the position and the locks of the context it runs) and `LockInv` (`locked`
and `owner` agree with the one context that holds the lock). Mutual exclusion
is not inductive: exclusion between a thread and the handler of its own CPU
holds because interrupts are masked, which holds because the depth counts the
locks, which needs the intermediate positions inside push and pop. The proof
has one step per action and one lemma per part.

### TaskLifeProofs

Assumptions: the idle and cleanup tasks of the CPUs are distinct and are not
in `Tasks`, every task has a home CPU, delays are naturals, and no queue is
the null pointer. Nothing is finite and nothing is ordered but time.

That a task is in one place is not inductive, because a switch is several
steps: its CPU has put the current task back before it picks, and has picked
before it switches. In between a ready task is in no queue and only `next` of
its CPU names it, while other CPUs go on enqueueing. `IInv` ties three things together: the state of a task
says how far its own code can be and what it waits on (`TaskOK`), the queues
of a CPU hold tasks of this CPU in the state they stand for, each once
(`QueueOK`), and the position of a CPU in the switch says what its current
task is and in which state (`CpuOK`); the idle and cleanup tasks never wait
(`ServantOK`), and what a cleanup task has found is dead (`CleanupOK`).
`OnlyBootPanics` is a conjunct: every assertion is a consequence of these at
the moment it is evaluated. Lemmas about the sequence operators say what
enqueueing, removing and the sorted insertion do to the contents, to the
distinctness and to the order of a queue.

`FreedOnceOnOneCpu` has the hypothesis `Cpus = {BootCpu}`. On several CPUs the
property is false and `cleanup_in_use` shows it. The proof adds `Lifetimes`:
what is in the list of tasks was created and not freed, and what the cleanup
task is about to free is in the list no more. On one CPU the cleanup task is
current while it works, so the task it found is not on its stack, and no other
cleanup task can have found it.

### SyncProofs

Assumptions: each task has one of the four roles, the three queues are not the
null pointer or the sleep queue, and there are finitely many tasks (a
semaphore counts them).

`Structure` is the invariant about queues and wakers. A task in a wait queue is
`Suspended`: on its way to block, or blocked; a task that a waker has taken out
of its queue and not yet made ready is suspended with `waiting_on` empty
(`TakenOut`), and by one waker only (`OneWaker`). Without the last two a task
could be made ready twice and be in a run queue twice. On top of it `MutexSafe`
and `SemSafe` add the owner and the units: a free mutex with waiters has a task
on its way, and waiters and free units exist together only if at least that
many tasks are. `Coming` counts them, from leaving the queue to trying again;
barging in between takes the unit of a task on its way, never that of a task
in the queue.

`WaitsForItsAnswer` is about the action that returns from the wait for a
completion: the answer to the request made before it has come. `RequestOK`
follows a request: between its making and the return it is with the device, or
its interrupt is raised, or the completion is done, and before it is made the
completion is reset and nothing of an earlier request is left. The hypothesis is
that one task has the role of the device's user (`OneDeviceUser`): the driver
has one completion per device and no lock around a request, so two users could
each take the answer of the other (see `SignalledOnce` in section 3).

### ProcessProofs

Assumptions: the root is a process with a first thread, processes are neither
the null pointer nor an unwritten member, each has its own wait queue. CPUs,
threads of a process, who forks and what fails are arbitrary.

A thread has a process and an address space as long as it may run, and both are
taken away on another CPU, in several steps. `IInv` has five parts. `Types`.
`Placement`: a CPU executes a thread of its own that is RUNNING, unless it is
about to leave, and what it has picked exists (`CpuOK`); what is queued exists;
what a cleanup task reaps is DEAD (`CleanupOK`). `Threads`: a live thread is
counted by its process, whose space exists and which is running or a zombie
(`ThreadOK`); since `proc_manager_remove_destroy` asserts that no thread is
counted, it frees nothing a live thread needs. `Emptied`: between the check of
a cleanup task and its destruction of the space no thread joins the process.
`Known`: a process that is listed, or that a call works on, was created.

`FamilyStaysConsistent` adds `FInv`, under the premise of the property that no
process has had a second thread: a listed child is in one list, once
(`ListOK`); what fork or wait4 has taken is in no list and taken by nobody
else, and what wait4 looks at or is about to remove is still in the list of its
own process (`TakenOK`); and every child is listed, taken, or lost to a status
that could not be copied (`CaredFor`). The scan and the removal of wait4 are
steps of their own; the child found stays in the list because only a thread of
the same process removes from it. With a second thread it does not, and
`FreedOnce` of section 3 shows what happens. `FInvFrame` carries the part over
the steps that leave the lists alone.

`OneCpuNeverFaults` adds the hypothesis `OneCpuOnly`: one CPU, no process but
the root forks, no allocation fails. Each is needed: with two CPUs wait4 can
find a zombie whose thread is not reaped yet, with forking children a parent
can be gone when its child exits, and a fork that fails links its error value.
That no process has had a second thread is the premise of `NoFault` itself.
`NoFault` says nothing about the steps before a fault, so the invariant is
`OneThreadEach => Solo` on top of `IInv`, and `Solo` orders everything between
an exit and the wait that frees the process:

* `Callers`: calls are masked, so one thread at most is inside a call and it is
  the one executed (`CallerRuns`); states, wait queues and places in the code
  agree (`StateAt`, `WaitAt`); only the one thread of a zombie is exiting
  (`CallAt`).
* `Switching`, `Queued`: what a CPU leaves, picks and has picked is as
  scheduler_switch asserts, and its address space exists.
* `Kin`: every process but the root is a child of the root, or about to be told.
* `Listed`, `Reaping`: a dead thread that its process still counts (`Corpse`) is
  on the list of tasks, or in the hands of the cleanup task, which was asked for
  and which nobody but the dead thread itself precedes (`Awaited`).

`Reaping` is the heart: wait4 runs in a thread, and by `OnlyCaller` no other
thread is a corpse when a thread runs, so the zombie it destroys has no threads
left. The argument is that the cleanup task goes before the run queue in
scheduler_pick_next, is picked again after a timer tick while its request
stands, and withdraws the request only when it has found nobody.

### FDTableProofs

Assumptions: at least one slot, the standard descriptors are slots, finitely
many threads and tables (references are counted).

The count of a file is the number of its references: slots that hold it,
descriptors on their way into a slot (`mine`), and references a thread has
still to drop (`todo`). This is `FileLifetime` and not inductive alone, since
`refcount_put` is a load and a compare-and-swap: `ThreadAt` says what a thread
holds at each place of the code, `TableControl` that only installed slots
refer to files and a reaped table belongs to threads that have exited,
`LifeControl` that only live files are counted. Lemmas state how moving,
adding and dropping one reference changes the set of references. A file whose
count reached zero is at the release of exactly one thread, which gives both
"no reference outlives its file" and "no file is leaked".

### AddressSpaceProofs

Assumptions: the user range has a page, a request at least one page, the frames
of `pmm` and foreign frames are disjoint, and the null pointer is neither a
frame nor a CPU.

The bookkeeping of frames (`Conserved`: kept, mapped once, in one table, in
one role) is inductive once a space that is not created is known to be empty
(`Pristine`). That `paging_map` meets no page that is mapped to a frame of
`pmm` needs the loops of allocation and copy: the pages a loop has still to
visit belong to allocations of its space and are not mapped (`Loop`), and
nobody else works on this space, because the CPU of the loop holds its lock or
the space is the target of one copy (`JobOK`, `OneBuilder`).

The attempt showed that two statements were true of the instance of the run
only. Teardown gives foreign frames to `pmm` (`UnownedStaysForeign` in section
3), and the next `pmm_alloc` may make one a page table or map it in two
spaces. Type correctness therefore lets a table be a foreign frame, and
`FramesConserved` speaks of the frames of `pmm`. For these it also says that no
destruction would push one on the free list twice (`GivenBackTwice`), in the
behaviours up to a fault; for foreign frames that is false (`GivenBackOnce`).

User memory. Assumptions: pages and tables are not empty, the user range
consists of pages and lies below the largest address, the walk of the page
table tells the addresses of the range apart, and the numbers in the
headers of a program are naturals. `UserInv` says, while the loader works: exactly the pages of the
segments it has visited are mapped, and each of them holds the bytes and the
permissions of its one segment (`Loading`); the loader is at a page of the
segment it loads (`InSegment`); the stack comes when all are loaded
(`AllSegments`), and nothing is copied before (`CopyAfterLoad`). A page that two
segments share is refused by `region_alloc`, which is why a page has one
segment. The bytes of a page follow from where its beginning lies: before the
file part, in it, or behind it, where `copy_end` wraps and the load ends as
"wild".

### LibProofs

Lists. `ListStaysSound` holds for every set of nodes and every integer key.
`ListSound` alone is not inductive, since the
searching insertions are several steps. `ListInv` (`ListType`, `WellLinked`,
`WalkInside`) adds types and where a search in progress stands: at the node of
`order` that the number of its steps gives, with a node to insert that is in no
list. `SortedSoFar` adds that every node a sorted search has passed is not
larger than the one it inserts. One lemma per piece of surgery (`AddHeadLinks`,
`AddTailLinks`, `AddBeforeLinks`, `UnlinkLinks`) shows that the links follow
the new order; `InsertedOrder` says what an insertion does to the order,
`WalkStarts` and `WalkOn` what a search knows, `NextSorted` that a sorted list
stays sorted.

A call of the owning list is a call of the intrusive one that also fills or
frees a node, so its invariant `OwnedInv` is `ListInv` with `OwnsItsNodes`
(`OwnedIsList`). `FilledKeeps` and `FreedKeeps` follow the data through an
insertion and a removal at any place, `SameContents` through the steps of a
search; that the peeks return the data of the ends follows from the links
(`OwnedParts`).

Heap. Assumptions: a block header is not empty and fits into a page and into the
initial heap, requests are not empty, and the initial heap is memory of the
kernel.

A list is described by the words it covers (`Free`) and by its shape: in the
order of addresses, room for a header in every block (`Ordered`), and no two
blocks that touch (`Merged`). `InsertKeeps` says what `freelist_free` and
`freelist_add_region` do to a merged list: it is merged again and covers the
words of the block in addition. It rests on `PlaceFound` (where the search
ends) and on `CoalesceKeeps`, used once for the successor and once for the
predecessor: between the two merges the list is ordered, and at most the two
places next to the new block touch. `TakeKeeps` is the same for
`freelist_alloc`, whether the block is split or taken whole.

`HeapInv` is the inductive invariant: `Layout` (a merged list, blocks of callers
longer than their header, no word in two of them, pool and blocks cover the
same words), the pool is memory of the kernel, and `capacity` is its size.
Every action is one of `AllocKeeps`, `GrowKeeps` and `FreeKeeps`, or leaves the
layout alone. All of it holds up to a request whose length wraps (`HeapSound`):
`TooLong` shows that a request of at most `Longest` never does, so the
arithmetic of the code is the plain one there, and that beyond it the fault is
recorded. `HeapLayout` follows by counting: pieces that are disjoint and not
empty are as many as their names (`CountOf`). For the refinement `Seen` says
what a step is to the callers: one block more (`Granted`: disjoint from the
others, in the pool, long enough without its header), one block less
(`Returned`), or none. `HeapKeepsPromise` is the step simulation over it; a step
that wraps is `Break` of `Heap`, which needs a request longer than `Longest`.

### DeviceProofs

Block layer. Assumptions: the ring indices have more than one value (they are 16 bits wide)
and the number of sectors is less than the modulus of the arithmetic. One
caller, as in the model.

Neither property is inductive. `BlockInv` adds where a call in progress stands
(`InRange`), that the used index is what the device has seen and
`last_used_index` follows the available index except between the two stores of
the notification (`Ring`), and what the request page holds (`PageExact`). As
long as all calls wait in one way, the device has at most one request
(`OneRequest`); if they all block, its answer is at exactly one of the places
request, served, interrupt raised, acknowledged, signalled while the caller
waits, and at none of the first four otherwise (`OneAnswer`): without that, a
late answer to the last request would end the wait for the next. `Answered`
carries the conclusion from the end of the wait to the look at the status.
`EndsWhereAsked` relates the end the code computes, which may have wrapped, to
the range the caller named. `ReadSoFar`, `WroteSoFar` and `WrittenSoFar` are the
properties in the middle of a call. After both ways
have been used only the range of the offered requests is claimed, as in the
properties; what then goes wrong is described in section 3.

Drivers and bring-up. Assumptions: finitely many CPUs besides the one that
boots, and device trees of any length over the kinds of nodes. `DriversInv`:
the device under probe holds what the point of the probe says, one of each
(`ProbeOK`); the class of any other tells how far it was probed, what may be
left of a failed one follows from the points at which its probe returns
(`Settled`, `Rest`), and none is READY before its step of `kernel_main`
(`DevicesOK`); a line that is
enabled in the distributor has its handler and a READY device (`Wiring`); what a
CPU has set up follows from where it is, and the number of CPUs online is that
of the secondaries that have counted themselves, plus one (`BringUp`); a CPU in
the dispatcher has interrupts on, the shared line it has acknowledged is its
own, and the device of its handler is live (`Dispatching`).

Console. Assumptions: arenas with room for an event and a byte, a ring of two
places at least (one stays free), and lengths that are naturals. The arenas
hold the last messages of `hist`, each behind the one before, and a backend has
printed all from its first one up to those (`OutputOK`); a panic has one of the
two reasons the property allows (`PanicStays`). `RingInv` states the queue
without a remainder: `HeldAt` and `SlotAt` count around the end at most once
(`WrapOnce`), which is what the provers can reason about.

Framebuffer set-up. Assumptions: the pool has a place to align, the bound
`MaxK` on the search is large enough for the pool, and a scale is such that the
size of a glyph does not overflow. A live area is `Placed`: its cells lie inside it and it lies
inside the framebuffer, in the turned coordinates of its rotation; a pool
without an instance is at its start (`AtStart`). `LimitFits` shows that the
search ends and that the cells of the largest screen fit; `CentredFits` and
`GridPlaced` that limiting, centring and the margin keep the grid inside;
`PixelsInside` draws the conclusion for each rotation. Seven blocks are aligned
with at most 15 bytes each, which the 7 * 16 bytes of `fixed_bytes` cover
(`FontsTaken`, `CellsTaken`).

### What the proofs give the other modules

A critical section may be one step and a queue a sequence. `ProcessLife` uses
the scheduler, the wait queue and the cleanup task of the modules proved here.

### Only model-checked

* Liveness: `ReadyRuns`, `SleeperWakes`, `WaitReturns`, `ExitingThreadsEnd`.
  Fairness and ENABLED are outside the prover.
* `KernelFramesConserved` and `DeviceRangesMapped` of `KernelVm`, and
  `CursorAndParserInBounds` and `ScreenFollowsText` of `Terminal`: folds over
  memory maps, pages and characters. What a fold computes for every input is
  induction over data, which the installed provers cannot do.
* `ContentsKept` is `OwnsItsNodes` for the part of `MCMemory` that runs the
  owning list; the theorem is about `OwnsItsNodes`.
* The two violations: a counterexample is a behaviour of an instance.

## 5. Not modelled

* Registers of GIC, timer, UART and virtio transport beyond what they do to a
  line, a tick, a character or a request; attribute bits, ASIDs and TLB
  maintenance; assembly of entry and switch beyond its effect.
* printf and string functions: loops over memory of the caller without state.
  Reading them showed that `print_string` and `print_double` advance the
  pointer to the count instead of the count.
* libfdt and the boot protocol: vendored, read-only; their answers are inputs.
  Flanterm is modelled because it is stateful and runs under every message of
  the kernel; its canvas and the loading of fonts are not, the kernel uses none.
* User programs: user code may make any system call at any time.
* File contents and offsets.
* Functions without a caller where they add no state of their own:
  `waitqueue_remove`, the removal functions of drivers, `reject_irq`.
* Composition of `UserMemory` and `AddressSpace` with `ProcessLife`: a process
  has a space, and the two models meet in when it is created and destroyed.
* Memory ordering: accesses are sequentially consistent, as the acquire and
  release orderings of the lock make the data they protect.

At this commit `kernel_main` starts no process; the models are of the
interfaces, with any caller the code allows.

## 6. Plan

Done, in this order: spin lock and its proof, scheduler and tasks, wait queues
and the primitives over them, processes, descriptors, heap, user address
spaces; then kernel address space, program loading and user access, lists and
their proof, console, terminal, block layer, drivers and bring-up; then the
proofs of descriptor tables, synchronisation, user address spaces, tasks, the
heap, the owning list and the block layer; then those of processes, drivers and
bring-up, console, user memory and the set-up of the framebuffer.

Next:

1. `KernelVm` with its loops as steps, so that frames can be conserved by an
   invariant of the loop instead of a fold.
2. The composition of `UserMemory` and `AddressSpace` with `ProcessLife`.
