------------------------------- MODULE Drivers -------------------------------
(***************************************************************************)
(* From kernel_main to the scheduler: the driver manager discovers the     *)
(* devices of the tree, the probes take memory, mappings and interrupts    *)
(* (each of which may fail), the secondary CPUs come up, and the           *)
(* dispatcher of each CPU shares the interrupt controller with the others. *)
(*                                                                         *)
(* A device is its place in the device list; res counts what its probe     *)
(* took and did not give back, so that giving back twice or what was never *)
(* taken shows.  A probe goes from one call that may fail to the next.     *)
(* The device tree, the GIC and the devices behind it are external.  The   *)
(* remove functions, which say what a device holds, have no caller.        *)
(***************************************************************************)
EXTENDS Integers, Sequences, FiniteSets, SequencesExt

CONSTANTS BootCpu, Secondaries,
          Trees     \* device trees: sequences of kinds of nodes

Kinds == {"gic", "uart", "timer", "block", "net", "none"}

ASSUME DriversAssumption ==
    /\ BootCpu \notin Secondaries /\ IsFiniteSet(Secondaries)
    /\ Trees \subseteq Seq(Kinds)

Processors == {BootCpu} \cup Secondaries
Spurious == "spurious"
NoDevice == 0

VARIABLES boot,     \* where kernel_main is, or "panic"
          list,     \* dmanager.device_list: [kind, class, state]
          probe,    \* the probe that runs: [dev, pc]
          res,      \* per device and resource: taken less given back
          claimed,  \* virtio_mmio_device_claimed
          skip,     \* the counter of virtio_init
          table,    \* irq_table: line |-> [handler, data]
          spis,     \* shared lines enabled in the distributor
          proc,     \* per CPU: [pc, timer, tasks, masked]
          online,   \* cpus_enabled_count
          raised,   \* shared lines held active by their device
          fired,    \* CPUs whose timer has fired
          disp      \* per CPU: the dispatcher, [pc, irq, handler, data]
driverVars == <<boot, list, probe, res, claimed, skip, table, spis, proc, online,
                raised, fired, disp>>

Class(kind) == CASE kind = "gic" -> "IRQCHIP" [] kind = "uart" -> "CONSOLE"
                 [] kind = "timer" -> "TIMER" [] OTHER -> "VIRTIO_MMIO"
Resources == {"data", "distributor", "cpu interface", "registers",
              "first page", "second page", "request page"}
NoProbe == [dev |-> NoDevice, pc |-> "none"]
Idle == [pc |-> "idle", irq |-> Spurious, handler |-> "null", data |-> NoDevice]

DriversInit ==
    /\ \E tree \in Trees:     \* dmanager_init inserts at the head
         list = [i \in 1 .. Len(tree) |->
                   [kind |-> Reverse(tree)[i], class |-> Class(Reverse(tree)[i]),
                    state |-> "DISCOVERED"]]
    /\ res = [d \in DOMAIN list |-> [r \in Resources |-> 0]]
    /\ boot = "irqchip" /\ probe = NoProbe /\ claimed = {} /\ skip = 0
    /\ table = [l \in {"uart", "timer", "block"} |-> [handler |-> "null", data |-> NoDevice]]
    /\ spis = {} /\ online = 1 /\ raised = {} /\ fired = {}
    /\ proc = [c \in Processors |->
                 [pc |-> "off", timer |-> FALSE, tasks |-> FALSE, masked |-> TRUE]]
    /\ disp = [c \in Processors |-> Idle]

(* dmanager_get_by_class_skip: the device of its class with that many of   *)
(* them in front.                                                          *)
OfClass(class) == {d \in DOMAIN list: list[d].class = class}
IsAfter(d, class, n) == d \in OfClass(class) /\ Cardinality({e \in OfClass(class): e < d}) = n
HasAfter(class, n) == \E d \in DOMAIN list: IsAfter(d, class, n)
DeviceAfter(class, n) == CHOOSE d \in DOMAIN list: IsAfter(d, class, n)

(* What the remove function of the driver gives back.                      *)
Needs(kind) == CASE kind = "gic" -> {"data", "distributor", "cpu interface"}
                 [] kind = "uart" -> {"data", "registers"}
                 [] kind = "block" -> {"data", "registers", "first page", "second page",
                                       "request page"}
                 [] OTHER -> {}
Holds(d) == {r \in Resources: res[d][r] # 0}

request_irq(l, d) ==
    /\ table' = [table EXCEPT ![l] = [handler |-> l, data |-> d]]
    /\ spis' = spis \cup {l}

platform == <<proc, online, raised, fired, disp>>

-----------------------------------------------------------------------------
(* Probes.                                                                 *)
At(pc) == probe.pc = pc
Goes(pc) == probe' = [probe EXCEPT !.pc = pc] /\ UNCHANGED res

(* kalloc, pmm_alloc or vm_mmio_map has succeeded.                         *)
Gets(r, pc) ==
    /\ res' = [res EXCEPT ![probe.dev][r] = @ + 1]
    /\ probe' = [probe EXCEPT !.pc = pc]

(* kfree, pmm_free and vm_mmio_unmap on the way out.                       *)
Gives(rs, pc) ==
    /\ res' = [res EXCEPT ![probe.dev] =
                  [r \in Resources |-> res[probe.dev][r] - (IF r \in rs THEN 1 ELSE 0)]]
    /\ probe' = [probe EXCEPT !.pc = pc]

(* The allocation, the tree, both mappings.  The probe tests driver_data,  *)
(* which nothing has set, in place of its allocation: it may give up and   *)
(* leak, or go on without memory and fault, which like an error stops the  *)
(* kernel.                                                                 *)
armgicv2_probe ==
    /\ \/ At("gic") /\ (Goes("error") \/ Gets("data", "error") \/ Gets("data", "gic tree"))
       \/ At("gic tree") /\ (Gives({"data"}, "error") \/ Goes("gic distributor"))
       \/ /\ At("gic distributor")
          /\ Gives({"data"}, "error") \/ Gets("distributor", "gic cpu")
       \/ /\ At("gic cpu")
          /\ Gives({"distributor", "data"}, "error") \/ Gets("cpu interface", "ok")
    /\ spis' = IF probe'.pc = "ok" THEN {} ELSE spis   \* armgicv2_probe_dist
    /\ UNCHANGED <<boot, list, claimed, skip, table, platform>>

pl011_probe ==
    /\ \/ At("uart") /\ (Goes("error") \/ Goes("uart data"))
       \/ At("uart data") /\ (Goes("error") \/ Gets("data", "uart map"))
       \/ At("uart map") /\ (Gives({"data"}, "error") \/ Gets("registers", "uart irq"))
       \/ At("uart irq") /\ Goes("ok")
    /\ IF At("uart irq") THEN request_irq("uart", probe.dev) ELSE UNCHANGED <<table, spis>>
    /\ UNCHANGED <<boot, list, claimed, skip, platform>>

(* Magic and version, the data, virtio_queue_create and its two pages,     *)
(* which must be neighbours, and the request page.  No failure gives back  *)
(* what was taken before it, but for the pages inside of                   *)
(* virtio_queue_create.                                                    *)
virtio_blk_probe ==
    /\ \/ At("blk") /\ (Goes("blk error") \/ Gets("data", "blk first"))
       \/ At("blk first") /\ (Goes("blk error") \/ Gets("first page", "blk second"))
       \/ /\ At("blk second")
          /\ Gives({"first page"}, "blk error") \/ Gets("second page", "blk pages")
       \/ /\ At("blk pages")
          /\ Gives({"first page", "second page"}, "blk error") \/ Goes("blk request")
       \/ At("blk request") /\ (Goes("blk error") \/ Gets("request page", "blk irq"))
       \/ At("blk irq") /\ Goes("ok")
    /\ IF At("blk irq") THEN request_irq("block", probe.dev) ELSE UNCHANGED <<table, spis>>
    /\ UNCHANGED <<boot, list, claimed, skip, platform>>

(* A type is claimed, and the class of the device changed, before it is    *)
(* known whether there is a driver for it.                                 *)
Identify ==
    LET kind == list[probe.dev].kind
        class == IF kind = "block" THEN "BLOCK" ELSE "NETWORK"
    IN  \/ /\ kind \in {"none"} \cup claimed
           /\ Gives({"registers"}, "error")
           /\ UNCHANGED <<list, claimed>>
        \/ /\ kind \notin {"none"} \cup claimed
           /\ claimed' = claimed \cup {kind}
           /\ list' = [list EXCEPT ![probe.dev].class = class]
           /\ IF class = "BLOCK" THEN Goes("blk") ELSE Gives({"registers"}, "error")

(* Mutant: the registers stay mapped after a failure of the block driver.  *)
MutMmioProbe ==
    /\ \/ At("mmio") /\ (Goes("error") \/ Goes("mmio map")) /\ UNCHANGED <<list, claimed>>
       \/ At("mmio map") /\ (Goes("error") \/ Gets("registers", "mmio id"))
          /\ UNCHANGED <<list, claimed>>
       \/ At("mmio id") /\ Identify
       \/ At("blk error") /\ Goes("error") /\ UNCHANGED <<list, claimed>>
    /\ UNCHANGED <<boot, skip, table, spis, platform>>

(* The tree, the mapping, the type, and the end of a failed block probe.   *)
virtio_mmio_probe ==
    /\ \/ /\ At("mmio") /\ (Goes("error") \/ Goes("mmio map"))
          /\ UNCHANGED <<list, claimed>>
       \/ /\ At("mmio map") /\ (Goes("error") \/ Gets("registers", "mmio id"))
          /\ UNCHANGED <<list, claimed>>
       \/ At("mmio id") /\ Identify
       \/ /\ At("blk error") /\ Gives({"registers"}, "error")
          /\ UNCHANGED <<list, claimed>>
    /\ UNCHANGED <<boot, skip, table, spis, platform>>

-----------------------------------------------------------------------------
(* kernel_main readies its devices.                                        *)
Start(d, pc) ==
    /\ probe = NoProbe /\ probe' = [dev |-> d, pc |-> pc]
    /\ UNCHANGED <<boot, list, skip>>

(* The end of dmanager_ready_device.                                       *)
dmanager_ready_device ==
    /\ probe.pc \in {"ok", "error"}
    /\ list' = IF At("ok") THEN [list EXCEPT ![probe.dev].state = "READY"] ELSE list
    /\ probe' = NoProbe

IrqControllerInit ==
    /\ boot = "irqchip"
    /\ \/ HasAfter("IRQCHIP", 0) /\ Start(DeviceAfter("IRQCHIP", 0), "gic")
       \/ /\ probe = NoProbe /\ ~HasAfter("IRQCHIP", 0)
          /\ boot' = "panic" /\ UNCHANGED <<list, probe, skip>>
       \/ /\ dmanager_ready_device
          /\ boot' = IF At("ok") THEN "console" ELSE "panic"
          /\ UNCHANGED skip
    /\ UNCHANGED <<res, claimed, table, spis, platform>>

(* Without a console kernel_main goes on.                                  *)
ConsoleProbe ==
    /\ boot = "console"
    /\ \/ HasAfter("CONSOLE", 0) /\ Start(DeviceAfter("CONSOLE", 0), "uart")
       \/ /\ probe = NoProbe /\ ~HasAfter("CONSOLE", 0)
          /\ boot' = "timer" /\ UNCHANGED <<list, probe, skip>>
       \/ dmanager_ready_device /\ boot' = "timer" /\ UNCHANGED skip
    /\ UNCHANGED <<res, claimed, table, spis, platform>>

(* The data of the timer stands for timer.device: its handler gets null.   *)
(* timer_cpu_init and timer_cpu_enable: the CPU interface and the private  *)
(* line are enabled and the timer is armed.                                *)
timer_cpu(c) == [proc EXCEPT ![c].timer = TRUE]

(* The probe of the timer takes nothing and cannot fail.                   *)
TimerInit ==
    /\ boot = "timer"
    /\ \/ /\ HasAfter("TIMER", 0)
          /\ LET d == DeviceAfter("TIMER", 0)
             IN  /\ list' = [list EXCEPT ![d].state = "READY"]
                 /\ table' = [table EXCEPT !["timer"] = [handler |-> "timer", data |-> d]]
          /\ proc' = timer_cpu(BootCpu)
          /\ boot' = "virtio"
       \/ /\ ~HasAfter("TIMER", 0)
          /\ boot' = "panic"
          /\ UNCHANGED <<list, table, proc>>
    /\ UNCHANGED <<probe, res, claimed, skip, spis, online, raised, fired, disp>>

(* virtio_init: the counter moves on although a probe that changed the     *)
(* class has moved the next device into its place.                         *)
VirtioInit ==
    /\ boot = "virtio"
    /\ \/ HasAfter("VIRTIO_MMIO", skip) /\ Start(DeviceAfter("VIRTIO_MMIO", skip), "mmio")
       \/ dmanager_ready_device /\ skip' = skip + 1 /\ UNCHANGED boot
       \/ /\ probe = NoProbe /\ ~HasAfter("VIRTIO_MMIO", skip)
          /\ boot' = "wake" /\ UNCHANGED <<list, probe, skip>>
    /\ UNCHANGED <<res, claimed, table, spis, platform>>

-----------------------------------------------------------------------------
(* Bring-up.                                                               *)
probed == <<list, probe, res, claimed, skip, table, spis>>

(* wake_secondary_cpus_and_wait: release the others, set up this CPU, wait.*)
WakeSecondary(c) ==
    /\ boot = "wake" /\ proc[c].pc = "off"
    /\ proc' = [proc EXCEPT ![c].pc = "entry"]
    /\ UNCHANGED <<probed, boot, online, raised, fired, disp>>

(* common_cpu_init_tasks: the queues, the idle and the cleanup task; no    *)
(* memory for one of them is a panic.                                      *)
BootTasks ==
    /\ boot = "wake" /\ \A c \in Secondaries: proc[c].pc # "off"
    /\ \/ boot' = "wait" /\ proc' = [proc EXCEPT ![BootCpu].tasks = TRUE]
       \/ boot' = "panic" /\ UNCHANGED proc
    /\ UNCHANGED <<probed, online, raised, fired, disp>>

WaitForCpus ==
    /\ boot = "wait" /\ online = Cardinality(Processors)
    /\ boot' = "managers"
    /\ UNCHANGED <<probed, platform>>

(* proc_manager_init, syscall_build_table, scheduler_init.                 *)
EnterScheduler ==
    /\ boot = "managers"
    /\ boot' = "scheduler"
    /\ proc' = [proc EXCEPT ![BootCpu].masked = FALSE]
    /\ UNCHANGED <<probed, online, raised, fired, disp>>

(* Mutant: the CPU is counted when it enters.                              *)
MutSecondary(c) ==
    /\ boot # "panic"
    /\ CASE proc[c].pc = "entry" -> /\ proc' = [timer_cpu(c) EXCEPT ![c].pc = "timer"]
                                    /\ online' = online + 1 /\ UNCHANGED boot
         [] proc[c].pc = "timer" -> /\ proc' = [proc EXCEPT ![c].pc = "unmask", ![c].tasks = TRUE]
                                    /\ UNCHANGED <<boot, online>>
         [] proc[c].pc = "unmask" -> /\ proc' = [proc EXCEPT ![c].pc = "yield", ![c].masked = FALSE]
                                     /\ UNCHANGED <<boot, online>>
         [] OTHER -> FALSE
    /\ UNCHANGED <<probed, raised, fired, disp>>

(* Mutant: interrupts are enabled before the queues exist.                 *)
MutEarly(c) ==
    /\ boot # "panic"
    /\ CASE proc[c].pc = "entry" -> /\ proc' = [timer_cpu(c) EXCEPT ![c].pc = "timer", ![c].masked = FALSE]
                                    /\ UNCHANGED <<boot, online>>
         [] proc[c].pc = "timer" -> /\ proc' = [proc EXCEPT ![c].pc = "yield", ![c].tasks = TRUE]
                                    /\ online' = online + 1 /\ UNCHANGED boot
         [] OTHER -> FALSE
    /\ UNCHANGED <<probed, raised, fired, disp>>

(* init_secondary_cpu: the timer, the tasks, interrupts on, counted.       *)
init_secondary_cpu(c) ==
    /\ boot # "panic"
    /\ \/ /\ proc[c].pc = "entry"
          /\ proc' = [timer_cpu(c) EXCEPT ![c].pc = "tasks"]
          /\ UNCHANGED <<boot, online>>
       \/ /\ proc[c].pc = "tasks"
          /\ \/ proc' = [proc EXCEPT ![c].pc = "unmask", ![c].tasks = TRUE] /\ UNCHANGED boot
             \/ boot' = "panic" /\ UNCHANGED proc
          /\ UNCHANGED online
       \/ /\ proc[c].pc = "unmask"
          /\ proc' = [proc EXCEPT ![c].pc = "count", ![c].masked = FALSE]
          /\ UNCHANGED <<boot, online>>
       \/ /\ proc[c].pc = "count" /\ disp[c].pc = "idle"
          /\ proc' = [proc EXCEPT ![c].pc = "yield"]
          /\ online' = online + 1
          /\ UNCHANGED boot
    /\ UNCHANGED <<probed, raised, fired, disp>>

-----------------------------------------------------------------------------
(* Interrupts.  A shared line is level triggered and targets every CPU.    *)
Raise(l) ==
    /\ l \in spis /\ l \notin raised
    /\ raised' = raised \cup {l}
    /\ UNCHANGED <<boot, probed, proc, online, fired, disp>>

Fire(c) ==
    /\ proc[c].timer /\ c \notin fired
    /\ fired' = fired \cup {c}
    /\ UNCHANGED <<boot, probed, proc, online, raised, disp>>

Active(l) == \E c \in Processors: disp[c].pc # "idle" /\ disp[c].irq = l
Waiting(c) == {l \in raised: ~Active(l)} \cup (IF c \in fired THEN {"timer"} ELSE {})

(* The exception is taken; another CPU may acknowledge the line first.     *)
TakeInterrupt(c) ==
    /\ boot # "panic" /\ ~proc[c].masked
    /\ disp[c].pc = "idle" /\ Waiting(c) # {}
    /\ disp' = [disp EXCEPT ![c] = [Idle EXCEPT !.pc = "entered"]]
    /\ UNCHANGED <<boot, probed, proc, online, raised, fired>>

(* irq_dispatcher: the acknowledge register gives a waiting line or the    *)
(* spurious one, which exceeds interrupts_count and ends the handler; then *)
(* the table is read without its lock.                                     *)
Acknowledge(c) ==
    /\ disp[c].pc = "entered"
    /\ \/ \E l \in Waiting(c):
            disp' = [disp EXCEPT ![c] = [pc |-> "call", irq |-> l,
                       handler |-> table[l].handler, data |-> table[l].data]]
       \/ Waiting(c) = {} /\ disp' = [disp EXCEPT ![c] = Idle]
    /\ UNCHANGED <<boot, probed, proc, online, raised, fired>>

(* The handler quiets its device: the UART by reading its data, the block  *)
(* device by the acknowledge register, the timer by the next deadline.     *)
CallHandler(c) ==
    /\ disp[c].pc = "call"
    /\ raised' = raised \ {disp[c].irq}
    /\ fired' = IF disp[c].irq = "timer" THEN fired \ {c} ELSE fired
    /\ disp' = [disp EXCEPT ![c].pc = "eoi"]
    /\ UNCHANGED <<boot, probed, proc, online>>

SignalEoi(c) ==
    /\ disp[c].pc = "eoi"
    /\ disp' = [disp EXCEPT ![c] = Idle]
    /\ UNCHANGED <<boot, probed, proc, online, raised, fired>>

DriversNext ==
    \/ IrqControllerInit \/ ConsoleProbe \/ TimerInit \/ VirtioInit
    \/ armgicv2_probe \/ pl011_probe \/ virtio_mmio_probe \/ virtio_blk_probe
    \/ BootTasks \/ WaitForCpus \/ EnterScheduler
    \/ \E c \in Secondaries: WakeSecondary(c) \/ init_secondary_cpu(c)
    \/ \E l \in {"uart", "block"}: Raise(l)
    \/ \E c \in Processors: \/ Fire(c) \/ TakeInterrupt(c) \/ Acknowledge(c)
                            \/ CallHandler(c) \/ SignalEoi(c)

DriversSpec == DriversInit /\ [][DriversNext]_driverVars

-----------------------------------------------------------------------------
(* Whatever fails on the way, nothing is taken twice or given back without *)
(* being held, a READY device holds exactly what its remove function gives *)
(* back, and one whose probe failed has no registers mapped.  Memory is    *)
(* lost by one device at most, the one whose type virtio_mmio_probe        *)
(* claimed; see FailedProbeHoldsNothing.                                   *)
Lossy == {d \in DOMAIN list \ {probe.dev}: list[d].state # "READY" /\ Holds(d) # {}}
ResourcesBalanced ==
    /\ \A d \in DOMAIN list, r \in Resources: res[d][r] \in {0, 1}
    /\ boot # "panic" =>
        /\ \A d \in DOMAIN list: list[d].state = "READY" => Holds(d) = Needs(list[d].kind)
        /\ \A d \in Lossy: /\ Holds(d) \cap {"distributor", "cpu interface", "registers"} = {}
                            /\ list[d].class = "BLOCK"
                            /\ \A e \in Lossy: d = e

(* A handler is only called for a device whose probe finished and with     *)
(* that device as its data, on a CPU whose queues the tick may use, and    *)
(* never for the same shared line on two CPUs.                             *)
HandlersAreLive ==
    \A c \in Processors: disp[c].pc = "call" =>
        /\ disp[c].handler = disp[c].irq /\ disp[c].data \in DOMAIN list
        /\ list[disp[c].data].state = "READY"
        /\ Holds(disp[c].data) = Needs(list[disp[c].data].kind)
        /\ disp[c].irq = "timer" => proc[c].tasks
        /\ \A o \in Processors \ {c}: disp[o].irq = disp[c].irq => disp[c].irq = "timer"

(* kernel_main goes on to the process manager only when every CPU has its  *)
(* timer and its tasks, and at most one block device was set up.           *)
BootWaitsForAll ==
    boot \in {"managers", "scheduler"} =>
        /\ \A c \in Processors: proc[c].timer /\ proc[c].tasks
        /\ \A d, e \in DOMAIN list:
             list[d].class = "BLOCK" /\ list[e].class = "BLOCK" => d = e

(* What runs during and after boot finds its device, queues and CPUs set   *)
(* up (irq_dispatcher, init_secondary_cpu, wake_secondary_cpus_and_wait).  *)
NothingRunsEarly == HandlersAreLive /\ BootWaitsForAll

-----------------------------------------------------------------------------
(* A probe that failed has given back all it took.  virtio_blk_probe       *)
(* returns without kfree, and without virtio_queue_destroy.                *)
FailedProbeHoldsNothing == boot # "panic" => Lossy = {}
=============================================================================
