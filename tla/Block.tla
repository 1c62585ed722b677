-------------------------------- MODULE Block --------------------------------
(***************************************************************************)
(* The block layer (fs/block.c) over the virtio block driver: the range    *)
(* check, the loop over the sectors of a call, and for each sector the     *)
(* request page, the available and used rings, and the two ways to wait:   *)
(* polling the used index, or blocking on the completion the interrupt     *)
(* handler signals.  The device (external) serves a request in steps of    *)
(* its own and raises its interrupt after it has moved the used index.     *)
(*                                                                         *)
(* There is one request page and one completion per device, and no lock:   *)
(* the model has one caller.  How a task blocks in completion_wait, and    *)
(* the window in it, is the subject of Completion; here a wait ends when   *)
(* the completion is done.  A sector is a value, the caller's memory a     *)
(* function of the offset from buf in sectors; usize and u16 arithmetic    *)
(* keeps its width.                                                        *)
(***************************************************************************)
EXTENDS Integers, FiniteSets

CONSTANTS Sectors,      \* capacity / sector_size
          UsizeMod,     \* 2^64
          IndexMod,     \* 2^16, the ring indices
          Entries,      \* VIRTIO_QUEUE_ENTRY_COUNT
          MaxCalls      \* bound on the number of calls

ASSUME BlockAssumption ==
    /\ Sectors \in Nat /\ UsizeMod \in Nat /\ Sectors < UsizeMod
    /\ Entries \in Nat \ {0} /\ IndexMod \in Nat \ {0, 1} /\ IndexMod % Entries = 0

VARIABLES call,   \* the caller: [pc, op, path, sector, count, end, sect, ret]
          buf,    \* its memory, from the start of the buffer
          req,    \* the request page: [sector, type, data, status]
          vq,     \* [avail, ring, used, last_used]
          done,   \* irq_completion.done
          dev,    \* the device: [seen, owes, isr]
          irq,    \* the interrupt handler: "off", "acked", "panic"
          disk,   \* contents of the sectors
          before, \* disk when the call began
          failed, \* sectors of the call the device did not transfer
          paths,  \* ways of waiting used so far
          calls   \* calls made
blockVars == <<call, buf, req, vq, done, dev, irq, disk, before, failed, paths, calls>>

Offsets == 0 .. Sectors
BlockInit ==
    /\ call = [pc |-> "idle", op |-> "read", path |-> "block", sector |-> 0,
               count |-> 0, end |-> 0, sect |-> 0, ret |-> "EOK"]
    /\ buf = [o \in Offsets |-> <<"memory", o>>]
    /\ disk = [s \in 0 .. Sectors - 1 |-> <<"disk", s>>]
    /\ req = [sector |-> 0, type |-> "in", data |-> <<"page", 0>>, status |-> 0]
    /\ vq = [avail |-> 0, ring |-> [i \in 0 .. Entries - 1 |-> 0],
             used |-> 0, last_used |-> 0]
    /\ done = FALSE /\ irq = "off"
    /\ dev = [seen |-> 0, owes |-> FALSE, isr |-> FALSE]
    /\ before = disk /\ failed = {} /\ paths = {} /\ calls = 0

-----------------------------------------------------------------------------
(* The block layer.                                                        *)

(* Mutant: only the first sector is checked.                               *)
MutVerify(sector, count) ==
    IF Sectors = 0 THEN "ENODEV"
    ELSE IF sector >= Sectors THEN "EINVAL" ELSE "EOK"

(* The last sector of the device is refused, and the sum may wrap.         *)
verify_sector_range(sector, count) ==
    IF Sectors = 0 THEN "ENODEV"
    ELSE IF sector >= Sectors \/ (sector + count) % UsizeMod >= Sectors THEN "EINVAL"
    ELSE "EOK"

(* block_read, block_read_sync, block_write and block_write_sync up to the *)
(* first sector; a sum that wrapped leaves the loop without a turn.        *)
BlockCall(op, path, sector, count) ==
    LET ret == IF count = 0 THEN "EOK" ELSE verify_sector_range(sector, count)
        end == IF ret = "EOK" THEN (sector + count) % UsizeMod ELSE sector
    IN  /\ call.pc = "idle" /\ irq # "panic"
        /\ calls < MaxCalls
        /\ calls' = calls + 1
        /\ call' = [pc |-> IF sector < end THEN "fill" ELSE "idle", op |-> op,
                    path |-> path, sector |-> sector, count |-> count, end |-> end,
                    sect |-> sector, ret |-> ret]
        /\ buf' = [o \in Offsets |-> <<"memory", o>>]
        /\ before' = disk /\ failed' = {}
        /\ paths' = IF sector < end THEN paths \cup {path} ELSE paths
        /\ UNCHANGED <<req, vq, done, dev, irq, disk>>

Busy == UNCHANGED <<before, paths, calls>>

-----------------------------------------------------------------------------
(* The driver.                                                             *)

(* memcpy into the request page (a write takes its data at sect, not at    *)
(* sect - sector), then the request and its three descriptors.             *)
virtio_blk_add_requests ==
    /\ call.pc = "fill" /\ irq # "panic"
    /\ req' = [sector |-> call.sect,
               type |-> IF call.op = "write" THEN "out" ELSE "in",
               data |-> IF call.op = "write" THEN buf[call.sect] ELSE req.data,
               status |-> req.status]
    /\ call' = [call EXCEPT !.pc = "reset"]
    /\ UNCHANGED <<buf, vq, done, dev, irq, disk, failed>> /\ Busy

(* Mutant: the completion is left as the last request left it.             *)
MutStaleCompletion ==
    /\ call.pc = "reset" /\ irq # "panic"
    /\ call' = [call EXCEPT !.pc = "notify"]
    /\ UNCHANGED <<buf, req, vq, done, dev, irq, disk, failed>> /\ Busy

completion_reset ==
    /\ call.pc = "reset" /\ irq # "panic"
    /\ done' = FALSE
    /\ call' = [call EXCEPT !.pc = "notify"]
    /\ UNCHANGED <<buf, req, vq, dev, irq, disk, failed>> /\ Busy

(* The device may answer before last_used_index is advanced.               *)
virtio_blk_flush_notify_host ==
    /\ irq # "panic"
    /\ \/ /\ call.pc = "notify"
          /\ vq' = [vq EXCEPT !.ring[vq.avail % Entries] = 0,
                              !.avail = (@ + 1) % IndexMod]
          /\ call' = [call EXCEPT !.pc = "advance"]
       \/ /\ call.pc = "advance"
          /\ vq' = [vq EXCEPT !.last_used = (@ + 1) % IndexMod]
          /\ call' = [call EXCEPT !.pc = "wait"]
    /\ UNCHANGED <<buf, req, done, dev, irq, disk, failed>> /\ Busy

\* Mutant: the driver compares with what it offered, not with what the device used.
MutIsBusy(q) == q.last_used # q.avail
virtq_is_busy(q) == q.last_used # q.used

(* The end of the loop of virtio_blk_submit_and_wait, or of                *)
(* completion_wait in virtio_blk_submit_and_block.                         *)
WaitEnds ==
    /\ call.pc = "wait" /\ irq # "panic"
    /\ IF call.path = "wait" THEN ~virtq_is_busy(vq) ELSE done
    /\ call' = [call EXCEPT !.pc = "check"]
    /\ UNCHANGED <<buf, req, vq, done, dev, irq, disk, failed>> /\ Busy

(* The status check and, for a read, the copy; internal_block_read and     *)
(* internal_block_write ignore the error and go on.                        *)
SectorDone ==
    /\ call.pc = "check" /\ irq # "panic"
    /\ buf' = IF req.status = 0 /\ call.op = "read"
              THEN [buf EXCEPT ![call.sect - call.sector] = req.data] ELSE buf
    /\ failed' = IF req.status = 0 THEN failed ELSE failed \cup {call.sect}
    /\ call' = [call EXCEPT !.sect = @ + 1,
                            !.pc = IF call.sect + 1 < call.end THEN "fill" ELSE "idle"]
    /\ UNCHANGED <<req, vq, done, dev, irq, disk>> /\ Busy

(* virtio_blk_irq_handler: acknowledge, then signal; completion_signal     *)
(* asserts that the completion is not done.                                *)
virtio_blk_irq_handler ==
    /\ \/ /\ irq = "off" /\ dev.isr
          /\ dev' = [dev EXCEPT !.isr = FALSE] /\ irq' = "acked"
          /\ UNCHANGED done
       \/ /\ irq = "acked"
          /\ irq' = IF done THEN "panic" ELSE "off"
          /\ done' = TRUE
          /\ UNCHANGED dev
    /\ UNCHANGED <<call, buf, req, vq, disk, failed>> /\ Busy

-----------------------------------------------------------------------------
(* The device (external): transfer or fail, move the used index, interrupt.*)
DeviceServes(status) ==
    /\ dev.seen # vq.avail /\ irq # "panic"
    /\ IF status = 0 /\ req.type = "out"
       THEN disk' = [disk EXCEPT ![req.sector] = req.data] ELSE UNCHANGED disk
    /\ req' = [req EXCEPT !.status = status,
                          !.data = IF status = 0 /\ req.type = "in"
                                   THEN disk[req.sector] ELSE @]
    /\ vq' = [vq EXCEPT !.used = (@ + 1) % IndexMod]
    /\ dev' = [dev EXCEPT !.seen = (@ + 1) % IndexMod, !.owes = TRUE]
    /\ UNCHANGED <<call, buf, done, irq, failed>> /\ Busy

DeviceInterrupts ==
    /\ dev.owes /\ irq # "panic"
    /\ dev' = [dev EXCEPT !.isr = TRUE, !.owes = FALSE]
    /\ UNCHANGED <<call, buf, req, vq, done, irq, disk, failed>> /\ Busy

BlockNext ==
    \/ \E op \in {"read", "write"}, path \in {"wait", "block"},
          sector \in 0 .. UsizeMod - 1, count \in 0 .. UsizeMod - 1:
          BlockCall(op, path, sector, count)
    \/ virtio_blk_add_requests \/ completion_reset
    \/ virtio_blk_flush_notify_host \/ WaitEnds \/ SectorDone
    \/ virtio_blk_irq_handler
    \/ \E status \in {0, 1}: DeviceServes(status)
    \/ DeviceInterrupts

BlockSpec == BlockInit /\ [][BlockNext]_blockVars

-----------------------------------------------------------------------------
\* All calls so far wait in the same way.  After a polled request the late
\* interrupt of the one before may end a blocking wait too early.
OneWay == Cardinality(paths) <= 1

\* A call has returned EOK; no buffer is as long as a sum that wraps asks for.
Returned(op) ==
    /\ OneWay /\ call.pc = "idle" /\ call.op = op /\ call.ret = "EOK"
    /\ call.sector + call.count < UsizeMod

\* The sectors that the caller has named.
Asked == call.sector .. call.sector + call.count - 1

(* A read of count sectors that returns EOK has put into every place of    *)
(* the buffer the sector it stands for, except where the device failed.    *)
ReadsGetSectors ==
    Returned("read") => \A s \in Asked: s \notin failed => buf[s - call.sector] = disk[s]

(* Whatever sector, count and wrapped sum are given, a call changes no     *)
(* sector outside its range, a read none at all, and no request offered    *)
(* names a sector the device lacks.                                        *)
WritesStayInRange ==
    /\ dev.seen # vq.avail => req.sector < Sectors
    /\ OneWay => \A s \in 0 .. Sectors - 1:
                    disk[s] # before[s] => call.op = "write" /\ s \in Asked

(* A write from sector 0 on that returns EOK has written every sector of   *)
(* its range, from its place in the buffer, except where the device failed.*)
(* For other sectors see WritesTakeTheBuffer.                              *)
FirstWritesArrive ==
    Returned("write") /\ call.sector = 0 => \A s \in Asked: s \notin failed => disk[s] = buf[s]

(* Sectors and memory are exchanged as far as the code has it right        *)
(* (block_read, block_write and their _sync forms).                        *)
TransfersSound == ReadsGetSectors /\ WritesStayInRange /\ FirstWritesArrive

(* Callers that only block never meet the assertion of completion_signal,  *)
(* and an answer is never lost: a blocked caller whose request was served  *)
(* has its interrupt ahead of it or its completion done.                   *)
NoAnswerLost ==
    paths = {"block"} =>
        /\ irq # "panic"
        /\ call.pc = "wait" /\ ~done =>
              dev.seen # vq.avail \/ dev.owes \/ dev.isr \/ irq = "acked"

-----------------------------------------------------------------------------
(* "write n blocks starting from given sector", from a buffer of n blocks: *)
(* the first block of the buffer goes to the first sector.  The code       *)
(* breaks this for every sector but 0, and reads behind the buffer.        *)
WritesTakeTheBuffer ==
    Returned("write") => \A s \in Asked: s \notin failed => disk[s] = buf[s - call.sector]

(* EOK means that the device has all the sectors.  A sum that wraps passes *)
(* the check, and the call returns EOK without a transfer.                 *)
AcceptedIsOnDevice ==
    call.ret = "EOK" /\ call.count # 0 => call.sector + call.count <= Sectors
=============================================================================
