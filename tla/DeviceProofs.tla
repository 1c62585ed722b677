---------------------------- MODULE DeviceProofs ----------------------------
(***************************************************************************)
(* The devices, for every value of the constants.                          *)
(*                                                                         *)
(* The block layer over the virtio driver: a read returns what the device  *)
(* has, a write changes its own sectors alone, and a caller that blocks    *)
(* has its answer ahead of it.  Drivers and bring-up: what a probe took it *)
(* gives back, and nothing runs before what it needs.  The console: every  *)
(* message is printed once, and the receive ring is a queue.  The set-up   *)
(* of the framebuffer: every pixel of a cell lies inside of it, and the    *)
(* cells fit into the pool.                                                *)
(***************************************************************************)
EXTENDS Block, Drivers, Console, FbGeometry, SequenceTheorems, FiniteSetTheorems,
        WellFoundedInduction, TLAPS

Pcs == {"idle", "fill", "reset", "notify", "advance", "wait", "check"}
Indices == 0 .. IndexMod - 1

BlockType ==
    /\ call \in [pc: Pcs, op: {"read", "write"}, path: {"wait", "block"}, sector: Nat,
                 count: Nat, end: Nat, sect: Nat, ret: {"EOK", "EINVAL", "ENODEV"}]
    /\ DOMAIN buf = Offsets /\ DOMAIN disk = 0 .. Sectors - 1
    /\ req = [sector |-> req.sector, type |-> req.type, data |-> req.data,
              status |-> req.status]
    /\ req.sector \in Nat
    /\ vq \in [avail: Indices, ring: [0 .. Entries - 1 -> {0}], used: Indices,
               last_used: Indices]
    /\ done \in BOOLEAN
    /\ dev \in [seen: Indices, owes: BOOLEAN, isr: BOOLEAN]
    /\ irq \in {"off", "acked", "panic"}
    /\ paths \subseteq {"wait", "block"}

\* A call in progress is inside of the device, at one of its sectors.
InRange ==
    call.pc # "idle" =>
        /\ call.sector <= call.sect /\ call.sect < call.end /\ call.end < Sectors
        /\ call.path \in paths

\* The loop ends within what the caller asked for, and at its end if the call
\* was accepted and the sum did not wrap.
EndsWhereAsked ==
    /\ call.end <= call.sector + call.count
    /\ call.ret = "EOK" /\ call.sector + call.count < UsizeMod =>
          call.end = call.sector + call.count

\* The request is in the page, and it is with the device.
Filled == call.pc \in {"reset", "notify", "advance", "wait", "check"}
InFlight == call.pc \in {"advance", "wait", "check"}

\* The device's count is the used index; the driver's follows the available one.
Ring ==
    /\ vq.used = dev.seen
    /\ vq.avail = IF call.pc = "advance" THEN (vq.last_used + 1) % IndexMod
                                         ELSE vq.last_used

\* A request in the page, and one offered earlier, names a sector of the device.
Offered == Filled \/ dev.seen # vq.avail => req.sector < Sectors

\* Both ways of waiting have been used.
Mixed == "wait" \in paths /\ "block" \in paths

\* The device has at most one request to serve, and only while the caller waits.
OneRequest ==
    ~Mixed /\ dev.seen # vq.avail => InFlight /\ vq.avail = (dev.seen + 1) % IndexMod

\* The way of an answer: request, served, interrupt raised, acknowledged,
\* signalled.  It is at one of these places while the caller waits and at none
\* of the first four otherwise.
OneAnswer ==
    "wait" \notin paths =>
        /\ irq # "panic"
        /\ dev.seen # vq.avail => ~dev.owes
        /\ dev.seen # vq.avail \/ dev.owes => ~dev.isr
        /\ dev.seen # vq.avail \/ dev.owes \/ dev.isr => irq = "off"
        /\ dev.seen # vq.avail \/ dev.owes \/ dev.isr \/ irq = "acked" => ~done /\ InFlight
        /\ InFlight => dev.seen # vq.avail \/ dev.owes \/ dev.isr \/ irq = "acked" \/ done
        /\ call.pc = "notify" => ~done

\* A wait has ended with the answer to the request of the sector.
Answered ==
    call.pc = "check" => /\ ~Mixed => dev.seen = vq.avail
                         /\ "wait" \notin paths => done

\* What the request page holds is the sector at which the call is, and after
\* the device served a request, it and the sector agree.
PageExact ==
    ~Mixed =>
        /\ Filled => /\ req.sector = call.sect
                     /\ req.type = IF call.op = "write" THEN "out" ELSE "in"
                     /\ call.op = "write" => req.data = buf[call.sect]
        /\ InFlight /\ dev.seen = vq.avail /\ req.status = 0 /\ call.op = "read" =>
              req.data = disk[call.sect]
        /\ InFlight /\ dev.seen = vq.avail /\ req.status = 0 /\ call.op = "write" =>
              disk[call.sect] = buf[call.sect]

\* The sectors a read has passed are in the buffer.
Passed == IF call.pc = "idle" THEN call.end ELSE call.sect
ReadSoFar ==
    ~Mixed /\ call.op = "read" =>
        \A s \in call.sector .. Passed - 1 : s \notin failed => buf[s - call.sector] = disk[s]

\* The sectors a write has passed are on the device.
WroteSoFar ==
    ~Mixed /\ call.op = "write" =>
        \A s \in call.sector .. Passed - 1 : s \notin failed => disk[s] = buf[s]

\* The sectors a call has changed are its own.
WrittenSoFar ==
    ~Mixed =>
        \A s \in 0 .. Sectors - 1 :
            disk[s] # before[s] => /\ call.op = "write" /\ disk[s] = buf[s]
                                   /\ s \in call.sector .. call.end - 1

BlockInv ==
    /\ BlockType /\ InRange /\ EndsWhereAsked /\ Ring /\ Offered
    /\ OneRequest /\ OneAnswer /\ Answered
    /\ PageExact /\ ReadSoFar /\ WroteSoFar /\ WrittenSoFar

-----------------------------------------------------------------------------
(* The next ring index is another one.                                     *)
LEMMA NextIndex ==
    ASSUME NEW a \in Indices
    PROVE  (a + 1) % IndexMod \in Indices /\ (a + 1) % IndexMod # a
  <1>1. IndexMod \in Nat /\ IndexMod > 1 /\ a \in Nat /\ a < IndexMod
    BY BlockAssumption DEF Indices
  <1>2. CASE a + 1 < IndexMod
    <2>1. (a + 1) % IndexMod = a + 1
      BY <1>1, <1>2
    <2>2. QED
      BY <1>1, <1>2, <2>1 DEF Indices
  <1>3. CASE a + 1 = IndexMod
    <2>1. (a + 1) % IndexMod = 0
      BY <1>1, <1>3
    <2>2. QED
      BY <1>1, <1>3, <2>1 DEF Indices
  <1>4. QED
    BY <1>1, <1>2, <1>3

(* A call that is accepted lies inside of the device, its wrapped sum too. *)
LEMMA AcceptedRange ==
    ASSUME NEW sector \in 0 .. UsizeMod - 1, NEW count \in 0 .. UsizeMod - 1
    PROVE  /\ (sector + count) % UsizeMod \in Nat
           /\ verify_sector_range(sector, count) \in {"EOK", "EINVAL", "ENODEV"}
           /\ verify_sector_range(sector, count) = "EOK" =>
                 sector < Sectors /\ (sector + count) % UsizeMod < Sectors
  <1>1. UsizeMod \in Nat /\ UsizeMod > 0 /\ sector + count \in Nat /\ Sectors \in Nat
    BY BlockAssumption
  <1>2. (sector + count) % UsizeMod \in Nat
    BY <1>1
  <1>3. QED
    BY <1>1, <1>2 DEF verify_sector_range

LEMMA OneWayCount ==
    ASSUME paths \subseteq {"wait", "block"}, Cardinality(paths) <= 1
    PROVE  ~Mixed
  <1> SUFFICES ASSUME Mixed PROVE FALSE
    OBVIOUS
  <1>1. paths = {"wait", "block"}
    BY DEF Mixed
  <1>2. IsFiniteSet({"wait"}) /\ Cardinality({"wait"}) = 1
    BY FS_Singleton
  <1>3. Cardinality({"wait"} \cup {"block"}) = 2
    BY <1>2, FS_AddElement
  <1>4. {"wait"} \cup {"block"} = paths
    BY <1>1
  <1>5. QED
    BY <1>3, <1>4

(* What the runs check follows.                                            *)
LEMMA BlockInvImplies == BlockInv => TransfersSound /\ NoAnswerLost
  <1> SUFFICES ASSUME BlockInv PROVE TransfersSound /\ NoAnswerLost
    OBVIOUS
  <1>1. OneWay => ~Mixed
    BY OneWayCount DEF OneWay, BlockInv, BlockType
  <1>2. /\ call.sector \in Nat /\ call.count \in Nat /\ call.end \in Nat
        /\ call.end <= call.sector + call.count
    BY DEF BlockInv, BlockType, EndsWhereAsked
  <1>3. ASSUME NEW op \in {"read", "write"}, Returned(op)
        PROVE  ~Mixed /\ call.op = op /\ Asked = call.sector .. Passed - 1
    <2>1. ~Mixed /\ call.op = op /\ call.pc = "idle"
      BY <1>1, <1>3 DEF Returned
    <2>2. call.end = call.sector + call.count
      BY <1>3 DEF Returned, BlockInv, EndsWhereAsked
    <2>3. Passed = call.sector + call.count
      BY <2>1, <2>2 DEF Passed
    <2>4. QED
      BY <1>2, <2>1, <2>3 DEF Asked
  <1>4. ReadsGetSectors
    BY <1>3 DEF ReadsGetSectors, BlockInv, ReadSoFar
  <1>5. FirstWritesArrive
    BY <1>3 DEF FirstWritesArrive, BlockInv, WroteSoFar
  <1>6. WritesStayInRange
    <2>1. \A s \in call.sector .. call.end - 1 : s \in Asked
      BY <1>2 DEF Asked
    <2>2. QED
      BY <1>1, <2>1 DEF WritesStayInRange, BlockInv, WrittenSoFar, Offered
  <1>7. NoAnswerLost
    BY DEF NoAnswerLost, BlockInv, OneAnswer, InFlight
  <1>8. QED
    BY <1>4, <1>5, <1>6, <1>7 DEF TransfersSound

LEMMA InitBlockInv == BlockInit => BlockInv
  <1> SUFFICES ASSUME BlockInit PROVE BlockInv
    OBVIOUS
  <1> USE DEF BlockInit
  <1>1. 0 \in Indices /\ Sectors \in Nat
    BY BlockAssumption DEF Indices
  <1>2. BlockType
    BY <1>1 DEF BlockType, Pcs, Offsets
  <1>3. InRange /\ EndsWhereAsked /\ Ring /\ Offered /\ OneRequest
    BY <1>1 DEF InRange, EndsWhereAsked, Ring, Offered, OneRequest, Filled
  <1>4. OneAnswer /\ Answered /\ PageExact
    BY DEF OneAnswer, Answered, PageExact, InFlight, Filled
  <1>5. ReadSoFar /\ WroteSoFar /\ WrittenSoFar
    BY <1>1 DEF ReadSoFar, WroteSoFar, WrittenSoFar, Passed
  <1>6. QED
    BY <1>2, <1>3, <1>4, <1>5 DEF BlockInv

-----------------------------------------------------------------------------
(* One lemma per action.                                                   *)

LEMMA CallKeeps ==
    ASSUME BlockInv, NEW op \in {"read", "write"}, NEW path \in {"wait", "block"},
           NEW sector \in 0 .. UsizeMod - 1, NEW count \in 0 .. UsizeMod - 1,
           BlockCall(op, path, sector, count)
    PROVE  BlockInv'
  <1> DEFINE end == call'.end
  <1>1. /\ call' = [pc |-> IF sector < end THEN "fill" ELSE "idle", op |-> op,
                    path |-> path, sector |-> sector, count |-> count, end |-> end,
                    sect |-> sector, ret |-> call'.ret]
        /\ end \in Nat /\ call'.ret \in {"EOK", "EINVAL", "ENODEV"}
        /\ sector < end => end < Sectors
        /\ end <= sector + count
        /\ call'.ret = "EOK" /\ sector + count < UsizeMod => end = sector + count
    <2> DEFINE r == IF count = 0 THEN "EOK" ELSE verify_sector_range(sector, count)
               e == IF r = "EOK" THEN (sector + count) % UsizeMod ELSE sector
    <2>1. call' = [pc |-> IF sector < e THEN "fill" ELSE "idle", op |-> op, path |-> path,
                   sector |-> sector, count |-> count, end |-> e, sect |-> sector,
                   ret |-> r]
      BY DEF BlockCall
    <2>2. /\ sector \in Nat /\ (sector + count) % UsizeMod \in Nat
          /\ r \in {"EOK", "EINVAL", "ENODEV"}
      BY AcceptedRange
    <2>3. sector < e => e < Sectors
      <3>1. CASE count = 0
        <4>1. (sector + count) % UsizeMod = sector
          BY <3>1, BlockAssumption
        <4>2. QED
          BY <2>2, <4>1
      <3>2. CASE count # 0
        BY <2>2, <3>2, AcceptedRange
      <3>3. QED
        BY <3>1, <3>2
    <2>4. /\ (sector + count) % UsizeMod <= sector + count
          /\ sector + count < UsizeMod => (sector + count) % UsizeMod = sector + count
      BY BlockAssumption, SMT
    <2>5. e <= sector + count /\ (r = "EOK" /\ sector + count < UsizeMod => e = sector + count)
      BY <2>2, <2>4
    <2>6. QED
      BY <2>1, <2>2, <2>3, <2>5
  <1>2. /\ call.pc = "idle" /\ DOMAIN buf' = Offsets
        /\ before' = disk /\ failed' = {}
        /\ paths' = IF sector < end THEN paths \cup {path} ELSE paths
        /\ UNCHANGED <<req, vq, done, dev, irq, disk>>
    BY <1>1 DEF BlockCall
  <1> HIDE DEF end
  <1>3. sector \in Nat /\ Sectors \in Nat
    BY BlockAssumption
  <1>4. BlockType'
    BY <1>1, <1>2, <1>3 DEF BlockInv, BlockType, Pcs
  <1>5. InRange' /\ EndsWhereAsked'
    BY <1>1, <1>2, <1>3 DEF InRange, EndsWhereAsked
  <1>6. Ring' /\ Offered'
    BY <1>1, <1>2 DEF BlockInv, Ring, Offered, Filled
  <1>7. OneRequest' /\ OneAnswer' /\ Answered'
    BY <1>1, <1>2 DEF BlockInv, OneRequest, OneAnswer, Answered, Mixed, InFlight
  <1>8. PageExact'
    BY <1>1, <1>2 DEF PageExact, InFlight, Filled
  <1>9. ReadSoFar' /\ WroteSoFar'
    <2>1. call'.sector = sector /\ call'.sect = sector /\ call'.end = end
          /\ call'.pc = IF sector < end THEN "fill" ELSE "idle"
      BY <1>1
    <2>2. \A s \in call'.sector .. Passed' - 1 : FALSE
      BY <1>1, <1>3, <2>1 DEF Passed
    <2>3. QED
      BY <2>2 DEF ReadSoFar, WroteSoFar
  <1>10. WrittenSoFar'
    BY <1>2 DEF WrittenSoFar
  <1>11. QED
    BY <1>4, <1>5, <1>6, <1>7, <1>8, <1>9, <1>10 DEF BlockInv

LEMMA FillKeeps == BlockInv /\ virtio_blk_add_requests => BlockInv'
  <1> SUFFICES ASSUME BlockInv, virtio_blk_add_requests PROVE BlockInv'
    OBVIOUS
  <1>1. /\ call.pc = "fill" /\ call' = [call EXCEPT !.pc = "reset"]
        /\ req' = [sector |-> call.sect,
                   type |-> IF call.op = "write" THEN "out" ELSE "in",
                   data |-> IF call.op = "write" THEN buf[call.sect] ELSE req.data,
                   status |-> req.status]
        /\ UNCHANGED <<buf, vq, done, dev, irq, disk, failed, before, paths>>
    BY DEF virtio_blk_add_requests, Busy
  <1>2. BlockType'
    BY <1>1 DEF BlockInv, BlockType, Pcs
  <1>3. InRange' /\ EndsWhereAsked' /\ Ring' /\ OneRequest' /\ OneAnswer' /\ Answered'
    BY <1>1 DEF BlockInv, BlockType, InRange, EndsWhereAsked, Ring, OneRequest, OneAnswer,
                Answered, InFlight, Mixed
  <1>4. Offered' /\ PageExact'
    <2>1. call.sect < Sectors
      BY <1>1, BlockAssumption DEF BlockInv, BlockType, InRange
    <2>2. QED
      BY <1>1, <2>1 DEF BlockInv, BlockType, Offered, PageExact, Filled, InFlight
  <1>5. ReadSoFar' /\ WroteSoFar' /\ WrittenSoFar'
    BY <1>1 DEF BlockInv, BlockType, ReadSoFar, WroteSoFar, WrittenSoFar, Passed, Mixed
  <1>6. QED
    BY <1>2, <1>3, <1>4, <1>5 DEF BlockInv

LEMMA ResetKeeps == BlockInv /\ completion_reset => BlockInv'
  <1> SUFFICES ASSUME BlockInv, completion_reset PROVE BlockInv'
    OBVIOUS
  <1>1. /\ call.pc = "reset" /\ call' = [call EXCEPT !.pc = "notify"] /\ done' = FALSE
        /\ UNCHANGED <<buf, req, vq, dev, irq, disk, failed, before, paths>>
    BY DEF completion_reset, Busy
  <1>2. BlockType'
    BY <1>1 DEF BlockInv, BlockType, Pcs
  <1>3. InRange' /\ EndsWhereAsked' /\ Ring' /\ OneRequest' /\ OneAnswer' /\ Answered'
    BY <1>1 DEF BlockInv, BlockType, InRange, EndsWhereAsked, Ring, OneRequest, OneAnswer,
                Answered, InFlight, Mixed
  <1>4. Offered' /\ PageExact'
    BY <1>1 DEF BlockInv, BlockType, Offered, PageExact, Filled, InFlight, Mixed
  <1>5. ReadSoFar' /\ WroteSoFar' /\ WrittenSoFar'
    BY <1>1 DEF BlockInv, BlockType, ReadSoFar, WroteSoFar, WrittenSoFar, Passed, Mixed
  <1>6. QED
    BY <1>2, <1>3, <1>4, <1>5 DEF BlockInv

(* The request becomes visible with the available index.                   *)
LEMMA NotifyKeeps ==
    ASSUME BlockInv, call.pc = "notify",
           vq' = [vq EXCEPT !.ring[vq.avail % Entries] = 0, !.avail = (@ + 1) % IndexMod],
           call' = [call EXCEPT !.pc = "advance"],
           UNCHANGED <<buf, req, done, dev, irq, disk, failed, before, paths>>
    PROVE  BlockInv'
  <1>1. /\ vq.avail \in Indices /\ (vq.avail + 1) % IndexMod \in Indices
        /\ (vq.avail + 1) % IndexMod # vq.avail
    BY NextIndex DEF BlockInv, BlockType
  <1>2. BlockType'
    BY <1>1 DEF BlockInv, BlockType, Pcs
  <1>3. /\ vq'.avail = (vq.avail + 1) % IndexMod
        /\ vq'.used = vq.used /\ vq'.last_used = vq.last_used
    BY DEF BlockInv, BlockType
  <1>4. InRange' /\ EndsWhereAsked' /\ Ring'
    BY <1>3 DEF BlockInv, BlockType, InRange, EndsWhereAsked, Ring
  <1>5. OneRequest' /\ OneAnswer' /\ Answered'
    BY <1>1, <1>3 DEF BlockInv, BlockType, OneRequest, OneAnswer, Answered, InFlight, Mixed
  <1>6. Offered' /\ PageExact'
    BY <1>1, <1>3 DEF BlockInv, BlockType, Offered, OneRequest, PageExact, Filled, InFlight, Mixed
  <1>7. ReadSoFar' /\ WroteSoFar' /\ WrittenSoFar'
    BY DEF BlockInv, BlockType, ReadSoFar, WroteSoFar, WrittenSoFar, Passed, Mixed
  <1>8. QED
    BY <1>2, <1>4, <1>5, <1>6, <1>7 DEF BlockInv

LEMMA AdvanceKeeps ==
    ASSUME BlockInv, call.pc = "advance",
           vq' = [vq EXCEPT !.last_used = (@ + 1) % IndexMod],
           call' = [call EXCEPT !.pc = "wait"],
           UNCHANGED <<buf, req, done, dev, irq, disk, failed, before, paths>>
    PROVE  BlockInv'
  <1>1. (vq.last_used + 1) % IndexMod \in Indices
    BY NextIndex DEF BlockInv, BlockType
  <1>2. BlockType'
    BY <1>1 DEF BlockInv, BlockType, Pcs
  <1>3. /\ vq'.last_used = (vq.last_used + 1) % IndexMod
        /\ vq'.used = vq.used /\ vq'.avail = vq.avail
    BY DEF BlockInv, BlockType
  <1>4. InRange' /\ EndsWhereAsked' /\ Ring'
    BY <1>3 DEF BlockInv, BlockType, InRange, EndsWhereAsked, Ring
  <1>5. OneRequest' /\ OneAnswer' /\ Answered'
    BY <1>3 DEF BlockInv, BlockType, OneRequest, OneAnswer, Answered, InFlight, Mixed
  <1>6. Offered' /\ PageExact'
    BY <1>3 DEF BlockInv, BlockType, Offered, PageExact, Filled, InFlight, Mixed
  <1>7. ReadSoFar' /\ WroteSoFar' /\ WrittenSoFar'
    BY DEF BlockInv, BlockType, ReadSoFar, WroteSoFar, WrittenSoFar, Passed, Mixed
  <1>8. QED
    BY <1>2, <1>4, <1>5, <1>6, <1>7 DEF BlockInv

(* A wait that ends, as long as all calls wait in the same way, has an     *)
(* answer to the request of the sector.                                    *)
LEMMA WaitEndsServed ==
    ASSUME BlockInv, call.pc = "wait", ~Mixed,
           IF call.path = "wait" THEN ~virtq_is_busy(vq) ELSE done
    PROVE  dev.seen = vq.avail
  <1>1. CASE call.path = "wait"
    BY <1>1 DEF virtq_is_busy, BlockInv, Ring
  <1>2. CASE call.path = "block"
    BY <1>2 DEF BlockInv, InRange, OneAnswer, Mixed
  <1>3. QED
    BY <1>1, <1>2 DEF BlockInv, BlockType

LEMMA WaitKeeps == BlockInv /\ WaitEnds => BlockInv'
  <1> SUFFICES ASSUME BlockInv, WaitEnds PROVE BlockInv'
    OBVIOUS
  <1>1. /\ call.pc = "wait" /\ call' = [call EXCEPT !.pc = "check"]
        /\ UNCHANGED <<buf, req, vq, done, dev, irq, disk, failed, before, paths>>
    BY DEF WaitEnds, Busy
  <1>2. Answered'
    <2>1. ~Mixed => dev.seen = vq.avail
      BY <1>1, WaitEndsServed DEF WaitEnds
    <2>2. "wait" \notin paths => done
      BY <1>1 DEF WaitEnds, BlockInv, BlockType, InRange
    <2>3. QED
      BY <1>1, <2>1, <2>2 DEF Answered, Mixed
  <1>3. BlockType'
    BY <1>1 DEF BlockInv, BlockType, Pcs
  <1>4. InRange' /\ EndsWhereAsked' /\ Ring' /\ OneRequest' /\ OneAnswer'
    BY <1>1 DEF BlockInv, BlockType, InRange, EndsWhereAsked, Ring, OneRequest, OneAnswer,
                InFlight, Mixed
  <1>5. Offered' /\ PageExact'
    BY <1>1 DEF BlockInv, BlockType, Offered, PageExact, Filled, InFlight, Mixed
  <1>6. ReadSoFar' /\ WroteSoFar' /\ WrittenSoFar'
    BY <1>1 DEF BlockInv, BlockType, ReadSoFar, WroteSoFar, WrittenSoFar, Passed, Mixed
  <1>7. QED
    BY <1>2, <1>3, <1>4, <1>5, <1>6 DEF BlockInv

LEMMA DoneKeeps == BlockInv /\ SectorDone => BlockInv'
  <1> SUFFICES ASSUME BlockInv, SectorDone PROVE BlockInv'
    OBVIOUS
  <1>1. /\ call.pc = "check"
        /\ buf' = IF req.status = 0 /\ call.op = "read"
                  THEN [buf EXCEPT ![call.sect - call.sector] = req.data] ELSE buf
        /\ failed' = IF req.status = 0 THEN failed ELSE failed \cup {call.sect}
        /\ call' = [call EXCEPT !.sect = @ + 1,
                                !.pc = IF call.sect + 1 < call.end THEN "fill" ELSE "idle"]
        /\ UNCHANGED <<req, vq, done, dev, irq, disk, before, paths>>
    BY DEF SectorDone, Busy
  <1>2. ~Mixed => dev.seen = vq.avail
    BY <1>1 DEF BlockInv, Answered
  <1>3. /\ call.sector \in Nat /\ call.sect \in Nat /\ call.end \in Nat /\ Sectors \in Nat
        /\ call.sector <= call.sect /\ call.sect < call.end /\ call.end < Sectors
    BY <1>1, BlockAssumption DEF BlockInv, BlockType, InRange
  <1>4. /\ call'.sect = call.sect + 1 /\ call'.sector = call.sector /\ call'.end = call.end
        /\ call'.op = call.op /\ call'.path = call.path
        /\ call'.count = call.count /\ call'.ret = call.ret
        /\ call'.pc = IF call.sect + 1 < call.end THEN "fill" ELSE "idle"
    BY <1>1 DEF BlockInv, BlockType
  <1>5. BlockType'
    <2>1. call' \in [pc: Pcs, op: {"read", "write"}, path: {"wait", "block"}, sector: Nat,
                     count: Nat, end: Nat, sect: Nat, ret: {"EOK", "EINVAL", "ENODEV"}]
      <3> DEFINE after == IF call.sect + 1 < call.end THEN "fill" ELSE "idle"
      <3>1. after \in Pcs /\ call.sect + 1 \in Nat
        BY <1>3 DEF Pcs
      <3>2. call' = [call EXCEPT !.sect = @ + 1, !.pc = after]
        BY <1>1
      <3>3. QED
        BY <3>1, <3>2 DEF BlockInv, BlockType
    <2>2. DOMAIN buf' = Offsets
      BY <1>1 DEF BlockInv, BlockType
    <2>3. req' = [sector |-> req'.sector, type |-> req'.type, data |-> req'.data,
                  status |-> req'.status] /\ req'.sector \in Nat
      BY <1>1 DEF BlockInv, BlockType
    <2>4. QED
      BY <1>1, <2>1, <2>2, <2>3 DEF BlockInv, BlockType
  <1>6. InRange' /\ EndsWhereAsked' /\ Ring' /\ Offered'
    BY <1>1, <1>3, <1>4 DEF BlockInv, InRange, EndsWhereAsked, Ring, Offered, Filled
  <1>7. OneRequest' /\ OneAnswer' /\ Answered'
    <2>1. "wait" \notin paths => done
      BY <1>1 DEF BlockInv, Answered
    <2>2. QED
      BY <1>1, <1>2, <1>4, <2>1
         DEF BlockInv, OneRequest, OneAnswer, Answered, Mixed, InFlight
  <1>8. PageExact'
    BY <1>1, <1>4 DEF PageExact, Filled, InFlight
  <1>9. ReadSoFar'
    <2> SUFFICES ASSUME ~Mixed, call.op = "read", NEW s \in call.sector .. Passed' - 1,
                        s \notin failed'
                 PROVE  buf'[s - call.sector] = disk[s]
      BY <1>1, <1>4 DEF ReadSoFar, Mixed
    <2>1. Passed' = call.sect + 1
      BY <1>3, <1>4 DEF Passed
    <2>2. CASE s = call.sect
      <3>1. req.status = 0
        BY <1>1, <2>2
      <3>2. req.data = disk[call.sect]
        BY <1>1, <1>2, <3>1 DEF BlockInv, PageExact, InFlight
      <3>3. call.sect - call.sector \in DOMAIN buf
        BY <1>3 DEF BlockInv, BlockType, Offsets
      <3>4. QED
        BY <1>1, <2>2, <3>1, <3>2, <3>3
    <2>3. CASE s # call.sect
      <3>1. s \in call.sector .. Passed - 1 /\ s \notin failed
        BY <1>1, <1>3, <2>1, <2>3 DEF Passed
      <3>2. buf[s - call.sector] = disk[s]
        BY <3>1 DEF BlockInv, ReadSoFar
      <3>3. s - call.sector # call.sect - call.sector /\ s - call.sector \in DOMAIN buf
        BY <1>1, <1>3, <2>1, <2>3 DEF BlockInv, BlockType, Offsets
      <3>4. QED
        BY <1>1, <3>2, <3>3
    <2>4. QED
      BY <2>2, <2>3
  <1>10. WrittenSoFar'
    <2>1. call.op = "write" => buf' = buf
      BY <1>1
    <2>2. QED
      BY <1>1, <1>4, <2>1 DEF BlockInv, WrittenSoFar, Mixed
  <1>11. WroteSoFar'
    <2> SUFFICES ASSUME ~Mixed, call.op = "write", NEW s \in call.sector .. Passed' - 1,
                        s \notin failed'
                 PROVE  disk[s] = buf[s]
      BY <1>1, <1>4 DEF WroteSoFar, Mixed
    <2>1. Passed' = call.sect + 1 /\ Passed = call.sect
      BY <1>1, <1>3, <1>4 DEF Passed
    <2>2. CASE s = call.sect
      <3>1. req.status = 0
        BY <1>1, <2>2
      <3>2. QED
        BY <1>1, <1>2, <2>2, <3>1 DEF BlockInv, PageExact, InFlight
    <2>3. CASE s # call.sect
      <3>1. s \in call.sector .. Passed - 1 /\ s \notin failed
        BY <1>1, <1>3, <2>1, <2>3
      <3>2. QED
        BY <3>1 DEF BlockInv, WroteSoFar
    <2>4. QED
      BY <2>2, <2>3
  <1>12. QED
    BY <1>5, <1>6, <1>7, <1>8, <1>9, <1>10, <1>11 DEF BlockInv

LEMMA HandlerKeeps == BlockInv /\ virtio_blk_irq_handler => BlockInv'
  <1> SUFFICES ASSUME BlockInv, virtio_blk_irq_handler PROVE BlockInv'
    OBVIOUS
  <1>1. UNCHANGED <<call, buf, req, vq, disk, failed, before, paths>> /\ dev'.seen = dev.seen
    BY DEF virtio_blk_irq_handler, Busy, BlockInv, BlockType
  <1>2. BlockType'
    BY <1>1 DEF virtio_blk_irq_handler, BlockInv, BlockType
  <1>3. /\ InRange' /\ EndsWhereAsked' /\ Ring' /\ Offered' /\ OneRequest' /\ PageExact'
        /\ ReadSoFar' /\ WroteSoFar' /\ WrittenSoFar'
    BY <1>1 DEF BlockInv, InRange, EndsWhereAsked, Ring, Offered, OneRequest, PageExact,
                ReadSoFar, WroteSoFar, WrittenSoFar, Filled, InFlight, Mixed, Passed
  <1>4. OneAnswer' /\ Answered'
    BY <1>1 DEF virtio_blk_irq_handler, BlockInv, BlockType, OneAnswer, Answered, InFlight, Mixed
  <1>5. QED
    BY <1>2, <1>3, <1>4 DEF BlockInv

LEMMA InterruptsKeeps == BlockInv /\ DeviceInterrupts => BlockInv'
  <1> SUFFICES ASSUME BlockInv, DeviceInterrupts PROVE BlockInv'
    OBVIOUS
  <1>1. /\ UNCHANGED <<call, buf, req, vq, done, irq, disk, failed, before, paths>>
        /\ dev.owes /\ dev'.seen = dev.seen /\ dev'.isr /\ ~dev'.owes
    BY DEF DeviceInterrupts, Busy, BlockInv, BlockType
  <1>2. BlockType'
    BY <1>1 DEF DeviceInterrupts, BlockInv, BlockType
  <1>3. /\ InRange' /\ EndsWhereAsked' /\ Ring' /\ Offered' /\ OneRequest' /\ PageExact'
        /\ ReadSoFar' /\ WroteSoFar' /\ WrittenSoFar'
    BY <1>1 DEF BlockInv, InRange, EndsWhereAsked, Ring, Offered, OneRequest, PageExact,
                ReadSoFar, WroteSoFar, WrittenSoFar, Filled, InFlight, Mixed, Passed
  <1>4. OneAnswer' /\ Answered'
    BY <1>1 DEF BlockInv, OneAnswer, Answered, InFlight, Mixed
  <1>5. QED
    BY <1>2, <1>3, <1>4 DEF BlockInv

LEMMA ServesKeeps ==
    ASSUME BlockInv, NEW status \in {0, 1}, DeviceServes(status)
    PROVE  BlockInv'
  <1>1. /\ dev.seen # vq.avail /\ irq # "panic"
        /\ disk' = IF status = 0 /\ req.type = "out"
                   THEN [disk EXCEPT ![req.sector] = req.data] ELSE disk
        /\ UNCHANGED <<call, buf, done, irq, failed, before, paths>>
    BY DEF DeviceServes, Busy
  <1>2. /\ req'.sector = req.sector /\ req'.type = req.type /\ req'.status = status
        /\ req'.data = IF status = 0 /\ req.type = "in" THEN disk[req.sector] ELSE req.data
    BY DEF DeviceServes, BlockInv, BlockType
  <1>3. /\ vq'.used = (vq.used + 1) % IndexMod /\ vq'.avail = vq.avail
        /\ vq'.last_used = vq.last_used
        /\ dev'.seen = (dev.seen + 1) % IndexMod /\ dev'.owes /\ dev'.isr = dev.isr
    BY DEF DeviceServes, BlockInv, BlockType
  <1>4. BlockType'
    <2>1. (vq.used + 1) % IndexMod \in Indices /\ (dev.seen + 1) % IndexMod \in Indices
      BY NextIndex DEF BlockInv, BlockType
    <2>2. vq' \in [avail: Indices, ring: [0 .. Entries - 1 -> {0}], used: Indices,
                   last_used: Indices]
      BY <2>1 DEF DeviceServes, BlockInv, BlockType
    <2>3. dev' \in [seen: Indices, owes: BOOLEAN, isr: BOOLEAN]
      BY <2>1 DEF DeviceServes, BlockInv, BlockType
    <2>4. req' = [sector |-> req'.sector, type |-> req'.type, data |-> req'.data,
                  status |-> req'.status]
      BY DEF DeviceServes, BlockInv, BlockType
    <2>5. DOMAIN disk' = 0 .. Sectors - 1
      BY <1>1 DEF BlockInv, BlockType
    <2>6. QED
      BY <1>1, <1>2, <2>2, <2>3, <2>4, <2>5 DEF BlockInv, BlockType
  <1>5. InRange' /\ EndsWhereAsked' /\ Ring' /\ Offered'
    BY <1>1, <1>2, <1>3 DEF BlockInv, InRange, EndsWhereAsked, Ring, Offered, Filled
  <1>6. ~Mixed => InFlight /\ dev'.seen = vq'.avail
    BY <1>1, <1>3 DEF BlockInv, OneRequest
  <1>7. OneRequest'
    BY <1>1, <1>6 DEF OneRequest, Mixed
  <1>8. OneAnswer' /\ Answered'
    BY <1>1, <1>3, <1>6 DEF BlockInv, OneAnswer, Answered, Mixed, InFlight
  <1>9. ~Mixed => /\ req.sector = call.sect /\ call.sect \in 0 .. Sectors - 1
                  /\ call.sect \in call.sector .. call.end - 1
                  /\ req.type = IF call.op = "write" THEN "out" ELSE "in"
                  /\ call.op = "write" => req.data = buf[call.sect]
    BY <1>6, BlockAssumption DEF BlockInv, BlockType, InRange, PageExact, Filled, InFlight
  <1>10. ~Mixed /\ call.op = "read" => disk' = disk
    BY <1>1, <1>9
  <1>11. PageExact'
    BY <1>1, <1>2, <1>9, <1>10 DEF BlockInv, BlockType, PageExact, Filled, InFlight, Mixed
  <1>12. ReadSoFar'
    BY <1>1, <1>10 DEF BlockInv, ReadSoFar, Passed, Mixed
  <1>13. WrittenSoFar'
    <2> SUFFICES ASSUME ~Mixed, NEW s \in 0 .. Sectors - 1, disk'[s] # before[s]
                 PROVE  /\ call.op = "write" /\ disk'[s] = buf[s]
                        /\ s \in call.sector .. call.end - 1
      BY <1>1 DEF WrittenSoFar, Mixed
    <2>1. CASE disk'[s] = disk[s]
      BY <2>1 DEF BlockInv, WrittenSoFar
    <2>2. CASE disk'[s] # disk[s]
      <3>1. s = call.sect /\ call.op = "write" /\ disk'[s] = req.data
        BY <1>1, <1>9, <2>2 DEF BlockInv, BlockType
      <3>2. QED
        BY <1>9, <3>1
    <2>3. QED
      BY <2>1, <2>2
  <1>14. WroteSoFar'
    <2> SUFFICES ASSUME ~Mixed, call.op = "write", NEW s \in call.sector .. Passed - 1,
                        s \notin failed
                 PROVE  disk'[s] = buf[s]
      BY <1>1 DEF WroteSoFar, Passed, Mixed
    <2>1. disk[s] = buf[s]
      BY DEF BlockInv, WroteSoFar
    <2>2. Passed = call.sect /\ call.sect \in Nat /\ call.sector \in Nat
      BY <1>6 DEF Passed, InFlight, BlockInv, BlockType
    <2>3. s # req.sector
      BY <1>9, <2>2
    <2>4. QED
      BY <1>1, <2>1, <2>3
  <1>15. QED
    BY <1>4, <1>5, <1>7, <1>8, <1>11, <1>12, <1>13, <1>14 DEF BlockInv

-----------------------------------------------------------------------------
LEMMA NextBlockInv == BlockInv /\ [BlockNext]_blockVars => BlockInv'
  <1> SUFFICES ASSUME BlockInv, [BlockNext]_blockVars PROVE BlockInv'
    OBVIOUS
  <1>1. ASSUME NEW op \in {"read", "write"}, NEW path \in {"wait", "block"},
               NEW sector \in 0 .. UsizeMod - 1, NEW count \in 0 .. UsizeMod - 1,
               BlockCall(op, path, sector, count)
        PROVE  BlockInv'
    BY <1>1, CallKeeps
  <1>2. CASE virtio_blk_add_requests
    BY <1>2, FillKeeps
  <1>3. CASE completion_reset
    BY <1>3, ResetKeeps
  <1>4. CASE virtio_blk_flush_notify_host
    BY <1>4, NotifyKeeps, AdvanceKeeps DEF virtio_blk_flush_notify_host, Busy
  <1>5. CASE WaitEnds \/ SectorDone
    BY <1>5, WaitKeeps, DoneKeeps
  <1>6. CASE virtio_blk_irq_handler
    BY <1>6, HandlerKeeps
  <1>7. ASSUME NEW status \in {0, 1}, DeviceServes(status) PROVE BlockInv'
    BY <1>7, ServesKeeps
  <1>8. CASE DeviceInterrupts
    BY <1>8, InterruptsKeeps
  <1>9. CASE UNCHANGED blockVars
    BY <1>9 DEF blockVars, BlockInv, BlockType, InRange, EndsWhereAsked, Ring, Offered,
                OneRequest, OneAnswer, Answered, PageExact, ReadSoFar, WroteSoFar,
                WrittenSoFar, Filled, InFlight, Mixed, Passed
  <1>10. QED
    BY <1>1, <1>2, <1>3, <1>4, <1>5, <1>6, <1>7, <1>8, <1>9 DEF BlockNext

(* Whatever sectors and counts are asked for, a read that returns EOK has  *)
(* put every sector asked for in its place of the buffer except where the  *)
(* device failed, a write changes the sectors of its range alone and, from *)
(* sector 0 on, all of them, and no request names a sector the device      *)
(* lacks (block_read, block_write, virtio_blk_submit_and_wait, _and_block).*)
THEOREM TransfersStaySound == BlockSpec => []TransfersSound
  <1>1. BlockInv => TransfersSound
    BY BlockInvImplies
  <1>2. QED
    BY <1>1, InitBlockInv, NextBlockInv, PTL DEF BlockSpec

(* Callers that only block never meet the assertion of completion_signal,  *)
(* and a blocked caller has the answer of the device ahead of it, from the *)
(* request in the ring to the handler about to signal.                     *)
THEOREM AnswersArrive == BlockSpec => []NoAnswerLost
  <1>1. BlockInv => NoAnswerLost
    BY BlockInvImplies
  <1>2. QED
    BY <1>1, InitBlockInv, NextBlockInv, PTL DEF BlockSpec

-----------------------------------------------------------------------------
(* Drivers and bring-up                                                    *)

BootPoints == {"irqchip", "console", "timer", "virtio", "wake", "wait", "managers",
               "scheduler", "panic"}
EarlyPoints == {"irqchip", "console", "timer", "virtio"}
CpuPoints == {"off", "entry", "tasks", "unmask", "count", "yield"}
GicPoints == {"gic", "gic tree", "gic distributor", "gic cpu"}
UartPoints == {"uart", "uart data", "uart map", "uart irq"}
MmioPoints == {"mmio", "mmio map", "mmio id"}
BlkPoints == {"blk", "blk first", "blk second", "blk pages", "blk request", "blk irq", "blk error"}
ProbePoints == GicPoints \cup UartPoints \cup MmioPoints \cup BlkPoints \cup {"ok", "error"}
Classes == {"IRQCHIP", "CONSOLE", "TIMER", "VIRTIO_MMIO", "BLOCK", "NETWORK"}
IrqLines == {"uart", "timer", "block"}

DriverTypes ==
    /\ boot \in BootPoints
    /\ list \in [DOMAIN list -> [kind: Kinds, class: Classes, state: {"DISCOVERED", "READY"}]]
    /\ NoDevice \notin DOMAIN list
    /\ probe \in {NoProbe} \cup [dev: DOMAIN list, pc: ProbePoints]
    /\ res \in [DOMAIN list -> [Resources -> Int]]
    /\ DOMAIN table = IrqLines /\ table = [l \in IrqLines |-> table[l]]
    /\ spis \subseteq {"uart", "block"} /\ raised \subseteq spis
    /\ proc \in [Processors -> [pc: CpuPoints, timer: BOOLEAN, tasks: BOOLEAN, masked: BOOLEAN]]
    /\ disp = [c \in Processors |-> disp[c]]
    /\ \A c \in Processors: disp[c].pc \in {"idle", "entered", "call", "eoi"}

\* A device holds these resources, each once.
HoldsExactly(d, rs) == res[d] = [r \in Resources |-> IF r \in rs THEN 1 ELSE 0]
HoldsOneOf(d, sets) == \E rs \in sets : HoldsExactly(d, rs)

\* What a failed virtio_blk_probe leaves, and any probe that has failed.
Leaks == {{}, {"data"}, {"data", "first page", "second page"}}
Rest(class) == CASE class = "BLOCK" -> Leaks
                 [] class = "IRQCHIP" -> {{}, {"data"}}
                 [] OTHER -> {{}}

\* What the device of a probe holds at each point of it.
Held(pc) ==
    CASE pc \in {"gic", "uart", "uart data", "mmio", "mmio map"} -> {}
      [] pc \in {"gic tree", "gic distributor", "uart map"} -> {"data"}
      [] pc = "gic cpu" -> {"data", "distributor"}
      [] pc = "uart irq" -> {"data", "registers"}
      [] pc \in {"mmio id", "blk"} -> {"registers"}
      [] pc = "blk first" -> {"registers", "data"}
      [] pc = "blk second" -> {"registers", "data", "first page"}
      [] pc \in {"blk pages", "blk request"} -> {"registers", "data", "first page", "second page"}
      [] pc = "blk irq" -> Needs("block")
      [] OTHER -> {}

ProbeHolds(d, pc) ==
    CASE pc = "ok" -> HoldsExactly(d, Needs(list[d].kind))
      [] pc = "error" -> HoldsOneOf(d, Rest(list[d].class))
      [] pc = "blk error" -> \E rs \in Leaks : HoldsExactly(d, rs \cup {"registers"})
      [] OTHER -> HoldsExactly(d, Held(pc))

\* The probe that runs belongs to where kernel_main is, and to its device.
ProbeAt(d, pc) ==
    /\ list[d].state # "READY"
    /\ pc \in GicPoints => boot = "irqchip" /\ list[d].class = "IRQCHIP"
    /\ pc \in UartPoints => boot = "console" /\ list[d].class = "CONSOLE"
    /\ pc \in MmioPoints => boot = "virtio" /\ list[d].class = "VIRTIO_MMIO"
    /\ pc \in BlkPoints => boot = "virtio" /\ list[d].class = "BLOCK"
    /\ pc = "ok" => <<boot, list[d].class>> \in
          {<<"irqchip", "IRQCHIP">>, <<"console", "CONSOLE">>, <<"virtio", "BLOCK">>}
    /\ pc = "error" => \/ boot = "irqchip" /\ list[d].class = "IRQCHIP"
                       \/ boot = "console" /\ list[d].class = "CONSOLE"
                       \/ boot = "virtio" /\ list[d].class \in {"BLOCK", "VIRTIO_MMIO", "NETWORK"}
ProbeOK == probe # NoProbe => ProbeAt(probe.dev, probe.pc) /\ ProbeHolds(probe.dev, probe.pc)

\* What a device holds that is not being probed.  A failure of the interrupt
\* controller, which may leak, has stopped the kernel.
Settled(d) ==
    IF list[d].state = "READY" THEN HoldsExactly(d, Needs(list[d].kind))
    ELSE IF list[d].class = "BLOCK" \/ boot = "panic" THEN HoldsOneOf(d, Rest(list[d].class))
    ELSE HoldsExactly(d, {})

\* The class of a device tells how far it was probed, and none is READY before
\* its step of kernel_main.
DeviceOK(d) ==
    /\ list[d].kind = "gic" <=> list[d].class = "IRQCHIP"
    /\ list[d].kind = "uart" <=> list[d].class = "CONSOLE"
    /\ list[d].kind = "timer" <=> list[d].class = "TIMER"
    /\ list[d].class = "BLOCK" => list[d].kind = "block" /\ "block" \in claimed
    /\ list[d].class = "VIRTIO_MMIO" => list[d].state # "READY"
    /\ list[d].state = "READY" =>
        /\ boot # "irqchip"
        /\ boot = "console" => list[d].class = "IRQCHIP"
        /\ boot = "timer" => list[d].class \in {"IRQCHIP", "CONSOLE"}
    /\ d # probe.dev => Settled(d)

DevicesOK ==
    /\ \A d \in DOMAIN list: DeviceOK(d)
    /\ \A d, e \in DOMAIN list: list[d].class = "BLOCK" /\ list[e].class = "BLOCK" => d = e

\* The handler of a line is there, for a device that is set up or at the end
\* of its probe.
LiveDevice(d) == d \in DOMAIN list /\ list[d].state = "READY"
Wired(l) == /\ table[l].handler = l
            /\ LiveDevice(table[l].data) \/ probe = [dev |-> table[l].data, pc |-> "ok"]

Wiring ==
    /\ boot = "irqchip" => spis = {}
    /\ \A l \in spis: Wired(l)
    /\ boot \in {"virtio", "wake", "wait", "managers", "scheduler"} =>
        Wired("timer") /\ proc[BootCpu].timer

\* While kernel_main probes the other CPUs are off and interrupts masked.
Alone == boot \in EarlyPoints => \A c \in Processors: proc[c].masked /\ proc[c].pc = "off"

\* How far a CPU has come says what it has.
CpuUp(c) ==
    /\ proc[c].timer \/ proc[c].pc # "off" => Wired("timer")
    /\ proc[c].pc \in {"tasks", "unmask", "count", "yield"} => proc[c].timer
    /\ proc[c].pc \in {"unmask", "count", "yield"} => proc[c].tasks
    /\ ~proc[c].masked => proc[c].tasks

Counted == {c \in Secondaries: proc[c].pc = "yield"}

BringUp ==
    /\ \A c \in Processors: CpuUp(c)
    /\ online = 1 + Cardinality(Counted)
    /\ boot \in {"wait", "managers", "scheduler"} => proc[BootCpu].tasks
    /\ boot \in {"managers", "scheduler"} => Counted = Secondaries

\* A CPU in the dispatcher has interrupts on; the line it has acknowledged is
\* its own, but for the timer, and wired.
DispatchOK(c) ==
    /\ disp[c].pc # "idle" => ~proc[c].masked
    /\ disp[c].pc \in {"idle", "entered"} => disp[c].irq = Spurious
    /\ disp[c].pc \in {"call", "eoi"} =>
        disp[c].handler = disp[c].irq /\ disp[c].irq \in IrqLines /\ LiveDevice(disp[c].data)

Dispatching ==
    /\ fired \subseteq {c \in Processors: proc[c].timer}
    /\ \A c \in Processors: DispatchOK(c)
    /\ \A c, o \in Processors:
        disp[c].irq = disp[o].irq /\ disp[c].irq \in {"uart", "block"} => c = o

\* The inductive invariant.
DriversInv ==
    DriverTypes /\ ProbeOK /\ DevicesOK /\ Wiring /\ Alone /\ BringUp /\ Dispatching

(* The invariant at the start: everything is DISCOVERED and nothing is     *)
(* taken.                                                                  *)
LEMMA InitDriversInv == DriversInit => DriversInv
  <1> SUFFICES ASSUME DriversInit PROVE DriversInv
    OBVIOUS
  <1> USE DriversAssumption
  <1>1. PICK tree \in Trees :
          list = [i \in 1 .. Len(tree) |->
                   [kind |-> Reverse(tree)[i], class |-> Class(Reverse(tree)[i]), state |-> "DISCOVERED"]]
    BY DEF DriversInit
  <1>2. tree \in Seq(Kinds)
    OBVIOUS
  <1>3. DOMAIN list = 1 .. Len(tree)
    BY <1>1
  <1>4. ASSUME NEW d \in DOMAIN list
        PROVE  /\ list[d] \in [kind: Kinds, class: Classes, state: {"DISCOVERED", "READY"}]
               /\ list[d].class = Class(list[d].kind) /\ list[d].state = "DISCOVERED"
    <2>1. Reverse(tree)[d] \in Kinds
      BY <1>2, <1>3 DEF Reverse
    <2>2. Class(Reverse(tree)[d]) \in Classes
      BY DEF Class, Classes
    <2>3. list[d] = [kind |-> Reverse(tree)[d], class |-> Class(Reverse(tree)[d]), state |-> "DISCOVERED"]
      BY <1>1, <1>3
    <2>4. QED
      BY <2>1, <2>2, <2>3
  <1>5. /\ boot = "irqchip" /\ probe = NoProbe /\ claimed = {}
        /\ res = [d \in DOMAIN list |-> [r \in Resources |-> 0]]
        /\ table = [l \in {"uart", "timer", "block"} |-> [handler |-> "null", data |-> NoDevice]]
        /\ spis = {} /\ online = 1 /\ raised = {} /\ fired = {}
        /\ proc = [c \in Processors |-> [pc |-> "off", timer |-> FALSE, tasks |-> FALSE, masked |-> TRUE]]
        /\ disp = [c \in Processors |-> Idle]
    BY DEF DriversInit
  <1>6. DriverTypes
    <2>1. list \in [DOMAIN list -> [kind: Kinds, class: Classes, state: {"DISCOVERED", "READY"}]]
      BY <1>1, <1>3, <1>4
    <2>2. res \in [DOMAIN list -> [Resources -> Int]]
      BY <1>5
    <2>3. NoDevice \notin DOMAIN list
      BY <1>2, <1>3 DEF NoDevice
    <2>4. QED
      BY <1>5, <2>1, <2>2, <2>3 DEF DriverTypes, BootPoints, IrqLines, CpuPoints, Idle
  <1>7. DevicesOK
    <2>1. ASSUME NEW d \in DOMAIN list PROVE DeviceOK(d) /\ list[d].class # "BLOCK"
      <3>1. HoldsExactly(d, {})
        BY <1>5 DEF HoldsExactly
      <3>2. QED
        BY <1>4, <1>5, <3>1 DEF DeviceOK, Settled, Class
    <2>2. QED
      BY <2>1 DEF DevicesOK
  <1>8. Wiring /\ ProbeOK /\ Alone
    BY <1>5 DEF Wiring, ProbeOK, Alone
  <1>9. BringUp
    <2>1. Counted = {}
      BY <1>5 DEF Counted, Processors
    <2>2. QED
      BY <1>5, <2>1, FS_EmptySet DEF BringUp, CpuUp
  <1>10. Dispatching
    BY <1>5 DEF Dispatching, DispatchOK, Idle, Spurious
  <1>11. QED
    BY <1>6, <1>7, <1>8, <1>9, <1>10 DEF DriversInv

\* dmanager_get_by_class_skip returns a device of the class.
LEMMA AfterIsOfClass ==
    ASSUME NEW class, NEW n, HasAfter(class, n)
    PROVE  DeviceAfter(class, n) \in DOMAIN list /\ list[DeviceAfter(class, n)].class = class
  BY DEF HasAfter, DeviceAfter, IsAfter, OfClass

\* A step that makes no READY device other than READY, outside of the end of a
\* probe, keeps the wires.
LEMMA WiresStay ==
    ASSUME DOMAIN list' = DOMAIN list, probe.pc # "ok",
           \A d \in DOMAIN list : list[d].state = "READY" => list'[d].state = "READY"
    PROVE  /\ \A d : LiveDevice(d) => LiveDevice(d)'
           /\ \A l : table'[l] = table[l] /\ Wired(l) => Wired(l)'
  BY DEF LiveDevice, Wired

-----------------------------------------------------------------------------
(* Probes                                                                  *)

\* A probe takes or gives back for its device alone.
OthersKeep(d) ==
    /\ res' \in [DOMAIN list -> [Resources -> Int]]
    /\ \A e \in DOMAIN list \ {d} : res'[e] = res[e]

LEMMA GoesKeeps ==
    ASSUME DriverTypes, NEW d \in DOMAIN list, probe.dev = d, probe # NoProbe,
           NEW pc, Goes(pc), NEW rs, HoldsExactly(d, rs)
    PROVE  OthersKeep(d) /\ HoldsExactly(d, rs)' /\ probe' = [dev |-> d, pc |-> pc]
  BY DEF DriverTypes, Goes, OthersKeep, HoldsExactly

LEMMA GetsKeeps ==
    ASSUME DriverTypes, NEW d \in DOMAIN list, probe.dev = d, probe # NoProbe,
           NEW pc, NEW r \in Resources, Gets(r, pc), NEW rs, r \notin rs, HoldsExactly(d, rs)
    PROVE  OthersKeep(d) /\ HoldsExactly(d, rs \cup {r})' /\ probe' = [dev |-> d, pc |-> pc]
  <1>1. /\ res \in [DOMAIN list -> [Resources -> Int]]
        /\ res' = [res EXCEPT ![d][r] = res[d][r] + 1]
        /\ probe' = [dev |-> d, pc |-> pc]
    BY DEF DriverTypes, Gets
  <1>2. OthersKeep(d) /\ res'[d] \in [Resources -> Int]
    BY <1>1 DEF OthersKeep
  <1>3. ASSUME NEW q \in Resources
        PROVE  res'[d][q] = IF q \in rs \cup {r} THEN 1 ELSE 0
    BY <1>1 DEF HoldsExactly
  <1>4. QED
    BY <1>1, <1>2, <1>3 DEF HoldsExactly

LEMMA GivesKeeps ==
    ASSUME DriverTypes, NEW d \in DOMAIN list, probe.dev = d, probe # NoProbe,
           NEW pc, NEW gs, Gives(gs, pc), NEW rs, gs \subseteq rs, HoldsExactly(d, rs)
    PROVE  OthersKeep(d) /\ HoldsExactly(d, rs \ gs)' /\ probe' = [dev |-> d, pc |-> pc]
  <1>1. /\ res \in [DOMAIN list -> [Resources -> Int]]
        /\ res' = [res EXCEPT ![d] = [r \in Resources |-> res[d][r] - (IF r \in gs THEN 1 ELSE 0)]]
        /\ probe' = [dev |-> d, pc |-> pc]
    BY DEF DriverTypes, Gives
  <1>2. [r \in Resources |-> res[d][r] - (IF r \in gs THEN 1 ELSE 0)] \in [Resources -> Int]
    BY <1>1
  <1>3. OthersKeep(d) /\ res'[d] = [r \in Resources |-> res[d][r] - (IF r \in gs THEN 1 ELSE 0)]
    BY <1>1, <1>2 DEF OthersKeep
  <1>4. ASSUME NEW q \in Resources
        PROVE  res[d][q] - (IF q \in gs THEN 1 ELSE 0) = IF q \in rs \ gs THEN 1 ELSE 0
    BY DEF HoldsExactly
  <1>5. QED
    BY <1>1, <1>3, <1>4 DEF HoldsExactly

\* What a probe takes is known to be a resource.
LEMMA KnownResources ==
    /\ "data" \in Resources /\ "distributor" \in Resources /\ "cpu interface" \in Resources
    /\ "registers" \in Resources /\ "first page" \in Resources /\ "second page" \in Resources
    /\ "request page" \in Resources
  BY DEF Resources

\* A step of a probe: its device alone changes, and not its state.
LEMMA ProbeStepKeeps ==
    ASSUME DriversInv, NEW d \in DOMAIN list, probe.dev = d, probe # NoProbe, probe.pc # "ok",
           UNCHANGED boot, UNCHANGED platform, OthersKeep(d),
           list' \in [DOMAIN list -> [kind: Kinds, class: Classes, state: {"DISCOVERED", "READY"}]],
           \A e \in DOMAIN list \ {d} : list'[e] = list[e],
           list'[d].kind = list[d].kind, list'[d].state = list[d].state,
           \/ list'[d].class = list[d].class
           \/ list[d].class = "VIRTIO_MMIO" /\ list'[d].class = "NETWORK"
           \/ /\ list[d].class = "VIRTIO_MMIO" /\ list'[d].class = "BLOCK"
              /\ list[d].kind = "block" /\ "block" \notin claimed /\ "block" \in claimed',
           claimed \subseteq claimed', NEW pc \in ProbePoints, probe' = [dev |-> d, pc |-> pc],
           ProbeAt(d, pc)', ProbeHolds(d, pc)',
           \/ UNCHANGED <<table, spis>>
           \/ pc = "ok" /\ boot # "irqchip" /\ \E l \in {"uart", "block"} : request_irq(l, d)
    PROVE  DriversInv'
  <1>0. /\ UNCHANGED <<proc, online, raised, fired, disp>> /\ DOMAIN list' = DOMAIN list
        /\ list \in [DOMAIN list -> [kind: Kinds, class: Classes, state: {"DISCOVERED", "READY"}]]
        /\ boot \in {"irqchip", "console", "virtio"}
    BY DEF platform, DriversInv, DriverTypes, ProbeOK, ProbeAt, ProbePoints
  <1>1. /\ DOMAIN table' = IrqLines /\ table' = [l \in IrqLines |-> table'[l]]
        /\ table'["timer"] = table["timer"] /\ spis' \subseteq {"uart", "block"}
    BY DEF DriversInv, DriverTypes, request_irq, IrqLines
  <1>2. DriverTypes'
    <2>1. probe' \in [dev: DOMAIN list', pc: ProbePoints]
      BY <1>0
    <2>2. raised' \subseteq spis'
      BY <1>0 DEF DriversInv, DriverTypes, request_irq
    <2>3. QED
      BY <1>0, <1>1, <2>1, <2>2 DEF DriversInv, DriverTypes, OthersKeep
  <1>3. ProbeOK'
    BY DEF ProbeOK
  <1>4. DevicesOK'
    <2>1. ASSUME NEW e \in DOMAIN list, e # d PROVE DeviceOK(e)'
      <3>1. DeviceOK(e) /\ list'[e] = list[e] /\ res'[e] = res[e]
        BY <2>1 DEF DriversInv, DevicesOK, OthersKeep
      <3>2. Settled(e)'
        BY <2>1, <3>1 DEF DeviceOK, Settled, HoldsExactly, HoldsOneOf
      <3>3. QED
        BY <3>1, <3>2 DEF DeviceOK
    <2>2. DeviceOK(d)'
      <3>1. DeviceOK(d) /\ probe'.dev = d /\ list[d].state # "READY"
        BY DEF DriversInv, DevicesOK, ProbeOK, ProbeAt
      <3>2. QED
        BY <3>1 DEF DeviceOK
    <2>3. ASSUME NEW e \in DOMAIN list, NEW f \in DOMAIN list,
                 list'[e].class = "BLOCK", list'[f].class = "BLOCK"
          PROVE  e = f
      BY <2>3 DEF DriversInv, DevicesOK, DeviceOK
    <2>4. QED
      BY <1>0, <2>1, <2>2, <2>3 DEF DevicesOK
  <1>5. /\ \A e : LiveDevice(e) => LiveDevice(e)'
        /\ \A l : table'[l] = table[l] /\ Wired(l) => Wired(l)'
    BY <1>0, WiresStay
  <1>6. \A l \in spis' : Wired(l)'
    <2>1. \A l \in spis : Wired(l)
      BY DEF DriversInv, Wiring
    <2>2. CASE UNCHANGED <<table, spis>>
      BY <1>5, <2>1, <2>2
    <2>3. ASSUME NEW l \in {"uart", "block"}, request_irq(l, d), pc = "ok" PROVE \A k \in spis' : Wired(k)'
      <3>1. /\ spis' = spis \cup {l} /\ l \in IrqLines
            /\ table'[l] = [handler |-> l, data |-> d]
            /\ \A k \in IrqLines \ {l} : table'[k] = table[k]
        BY <2>3 DEF request_irq, DriversInv, DriverTypes, IrqLines
      <3>2. Wired(l)'
        BY <2>3, <3>1 DEF Wired
      <3>3. \A k \in spis : k \in IrqLines
        BY DEF DriversInv, DriverTypes, IrqLines
      <3>4. QED
        BY <1>5, <2>1, <3>1, <3>2, <3>3
    <2>4. QED
      BY <2>2, <2>3
  <1>7. Wired("timer") => Wired("timer")'
    BY <1>1, <1>5
  <1>8. Wiring' /\ Alone'
    BY <1>0, <1>6, <1>7 DEF DriversInv, Wiring, Alone
  <1>9. BringUp'
    <2>1. Counted' = Counted
      BY <1>0 DEF Counted
    <2>2. QED
      BY <1>0, <1>7, <2>1 DEF DriversInv, BringUp, CpuUp
  <1>10. Dispatching'
    BY <1>0, <1>5 DEF DriversInv, Dispatching, DispatchOK
  <1>11. QED
    BY <1>2, <1>3, <1>4, <1>8, <1>9, <1>10 DEF DriversInv

\* The same with the list and the types as they are.
LEMMA PlainProbeStep ==
    ASSUME DriversInv, NEW d \in DOMAIN list, probe.dev = d, probe # NoProbe, probe.pc # "ok",
           UNCHANGED <<boot, list, claimed>>, UNCHANGED platform, OthersKeep(d),
           NEW pc \in ProbePoints, probe' = [dev |-> d, pc |-> pc],
           ProbeAt(d, pc)', ProbeHolds(d, pc)',
           \/ UNCHANGED <<table, spis>>
           \/ pc = "ok" /\ boot # "irqchip" /\ \E l \in {"uart", "block"} : request_irq(l, d)
    PROVE  DriversInv'
  <1>1. list' \in [DOMAIN list -> [kind: Kinds, class: Classes, state: {"DISCOVERED", "READY"}]]
    BY DEF DriversInv, DriverTypes
  <1>2. QED
    BY <1>1, ProbeStepKeeps

\* The probe that runs, its point and what its device holds.
LEMMA ProbeRuns ==
    ASSUME DriversInv, probe.pc # "none"
    PROVE  /\ probe # NoProbe /\ probe.dev \in DOMAIN list /\ probe.pc \in ProbePoints
           /\ ProbeAt(probe.dev, probe.pc) /\ ProbeHolds(probe.dev, probe.pc)
           /\ DeviceOK(probe.dev)
  BY DEF DriversInv, DriverTypes, ProbeOK, NoProbe, DevicesOK

\* The same two steps, with what the device holds after them.
LEMMA GetsTo ==
    ASSUME DriverTypes, NEW d \in DOMAIN list, probe.dev = d, probe # NoProbe,
           NEW pc, NEW r \in Resources, Gets(r, pc), NEW rs, r \notin rs, HoldsExactly(d, rs),
           NEW after, rs \cup {r} = after
    PROVE  OthersKeep(d) /\ HoldsExactly(d, after)' /\ probe' = [dev |-> d, pc |-> pc]
  <1>1. OthersKeep(d) /\ HoldsExactly(d, rs \cup {r})' /\ probe' = [dev |-> d, pc |-> pc]
    BY GetsKeeps
  <1>2. QED
    BY <1>1, Zenon

LEMMA GivesTo ==
    ASSUME DriverTypes, NEW d \in DOMAIN list, probe.dev = d, probe # NoProbe,
           NEW pc, NEW gs, Gives(gs, pc), NEW rs, gs \subseteq rs, HoldsExactly(d, rs),
           NEW after, rs \ gs = after
    PROVE  OthersKeep(d) /\ HoldsExactly(d, after)' /\ probe' = [dev |-> d, pc |-> pc]
  <1>1. OthersKeep(d) /\ HoldsExactly(d, rs \ gs)' /\ probe' = [dev |-> d, pc |-> pc]
    BY GivesKeeps
  <1>2. QED
    BY <1>1, Zenon

LEMMA GicProbeOK == ASSUME DriversInv, armgicv2_probe PROVE DriversInv'
  <1> USE DEF At
  <1>1. probe.pc \in GicPoints
    BY DEF armgicv2_probe, GicPoints
  <1>2. PICK d \in DOMAIN list : /\ d = probe.dev /\ probe # NoProbe /\ DriverTypes
                                 /\ ProbeAt(d, probe.pc) /\ ProbeHolds(d, probe.pc) /\ DeviceOK(d)
    BY <1>1, ProbeRuns DEF GicPoints, DriversInv
  <1>3. /\ boot = "irqchip" /\ list[d].class = "IRQCHIP" /\ list[d].kind = "gic"
        /\ list[d].state # "READY"
    BY <1>1, <1>2 DEF ProbeAt, DeviceOK, GicPoints
  <1>4. UNCHANGED <<boot, list, claimed>> /\ UNCHANGED platform
    BY DEF armgicv2_probe
  <1>5. \A pc \in GicPoints \cup {"ok", "error"} : ProbeAt(d, pc)' /\ pc \in ProbePoints
    BY <1>3, <1>4 DEF ProbeAt, GicPoints, UartPoints, MmioPoints, BlkPoints, ProbePoints
  <1>6. ASSUME NEW pc \in GicPoints \cup {"ok", "error"}, OthersKeep(d),
               probe' = [dev |-> d, pc |-> pc], ProbeHolds(d, pc)',
               UNCHANGED <<table, spis>>
        PROVE  DriversInv'
    BY <1>1, <1>2, <1>3, <1>4, <1>5, <1>6, PlainProbeStep DEF GicPoints
  <1>7. CASE At("gic") /\ Goes("error")
    <2>1. HoldsExactly(d, {}) /\ UNCHANGED <<table, spis>>
      BY <1>2, <1>3, <1>7 DEF armgicv2_probe, ProbeHolds, Held, DriversInv, Wiring
    <2>2. OthersKeep(d) /\ HoldsExactly(d, {})' /\ probe' = [dev |-> d, pc |-> "error"]
      BY <1>2, <1>7, <2>1, GoesKeeps
    <2>3. ProbeHolds(d, "error")'
      BY <1>3, <1>4, <2>2 DEF ProbeHolds, HoldsOneOf, Rest
    <2>4. QED
      BY <1>6, <2>1, <2>2, <2>3 DEF GicPoints
  <1>8. CASE At("gic") /\ Gets("data", "error")
    <2>1. HoldsExactly(d, {}) /\ UNCHANGED <<table, spis>>
      BY <1>2, <1>3, <1>8 DEF armgicv2_probe, ProbeHolds, Held, DriversInv, Wiring
    <2>2. {} \cup {"data"} = {"data"} /\ "data" \in Resources /\ "data" \notin {}
      BY KnownResources
    <2>3. OthersKeep(d) /\ HoldsExactly(d, {"data"})' /\ probe' = [dev |-> d, pc |-> "error"]
      BY <1>2, <1>8, <2>1, <2>2, GetsTo
    <2>4. ProbeHolds(d, "error")'
      BY <1>3, <1>4, <2>3 DEF ProbeHolds, HoldsOneOf, Rest
    <2>5. QED
      BY <1>6, <2>1, <2>3, <2>4 DEF GicPoints
  <1>9. CASE At("gic") /\ Gets("data", "gic tree")
    <2>1. HoldsExactly(d, {}) /\ UNCHANGED <<table, spis>>
      BY <1>2, <1>3, <1>9 DEF armgicv2_probe, ProbeHolds, Held, DriversInv, Wiring
    <2>2. {} \cup {"data"} = {"data"} /\ "data" \in Resources /\ "data" \notin {}
      BY KnownResources
    <2>3. OthersKeep(d) /\ HoldsExactly(d, {"data"})' /\ probe' = [dev |-> d, pc |-> "gic tree"]
      BY <1>2, <1>9, <2>1, <2>2, GetsTo
    <2>4. ProbeHolds(d, "gic tree")'
      BY <2>3 DEF ProbeHolds, Held
    <2>5. QED
      BY <1>6, <2>1, <2>3, <2>4 DEF GicPoints
  <1>10. CASE At("gic tree") /\ Gives({"data"}, "error")
    <2>1. HoldsExactly(d, {"data"}) /\ UNCHANGED <<table, spis>>
      BY <1>2, <1>3, <1>10 DEF armgicv2_probe, ProbeHolds, Held, DriversInv, Wiring
    <2>2. {"data"} \ {"data"} = {} /\ {"data"} \subseteq {"data"}
      BY KnownResources
    <2>3. OthersKeep(d) /\ HoldsExactly(d, {})' /\ probe' = [dev |-> d, pc |-> "error"]
      BY <1>2, <1>10, <2>1, <2>2, GivesTo
    <2>4. ProbeHolds(d, "error")'
      BY <1>3, <1>4, <2>3 DEF ProbeHolds, HoldsOneOf, Rest
    <2>5. QED
      BY <1>6, <2>1, <2>3, <2>4 DEF GicPoints
  <1>11. CASE At("gic tree") /\ Goes("gic distributor")
    <2>1. HoldsExactly(d, {"data"}) /\ UNCHANGED <<table, spis>>
      BY <1>2, <1>3, <1>11 DEF armgicv2_probe, ProbeHolds, Held, DriversInv, Wiring
    <2>2. OthersKeep(d) /\ HoldsExactly(d, {"data"})' /\ probe' = [dev |-> d, pc |-> "gic distributor"]
      BY <1>2, <1>11, <2>1, GoesKeeps
    <2>3. ProbeHolds(d, "gic distributor")'
      BY <2>2 DEF ProbeHolds, Held
    <2>4. QED
      BY <1>6, <2>1, <2>2, <2>3 DEF GicPoints
  <1>12. CASE At("gic distributor") /\ Gives({"data"}, "error")
    <2>1. HoldsExactly(d, {"data"}) /\ UNCHANGED <<table, spis>>
      BY <1>2, <1>3, <1>12 DEF armgicv2_probe, ProbeHolds, Held, DriversInv, Wiring
    <2>2. {"data"} \ {"data"} = {} /\ {"data"} \subseteq {"data"}
      BY KnownResources
    <2>3. OthersKeep(d) /\ HoldsExactly(d, {})' /\ probe' = [dev |-> d, pc |-> "error"]
      BY <1>2, <1>12, <2>1, <2>2, GivesTo
    <2>4. ProbeHolds(d, "error")'
      BY <1>3, <1>4, <2>3 DEF ProbeHolds, HoldsOneOf, Rest
    <2>5. QED
      BY <1>6, <2>1, <2>3, <2>4 DEF GicPoints
  <1>13. CASE At("gic distributor") /\ Gets("distributor", "gic cpu")
    <2>1. HoldsExactly(d, {"data"}) /\ UNCHANGED <<table, spis>>
      BY <1>2, <1>3, <1>13 DEF armgicv2_probe, ProbeHolds, Held, DriversInv, Wiring
    <2>2. {"data"} \cup {"distributor"} = {"data", "distributor"} /\ "distributor" \in Resources /\ "distributor" \notin {"data"}
      BY KnownResources
    <2>3. OthersKeep(d) /\ HoldsExactly(d, {"data", "distributor"})' /\ probe' = [dev |-> d, pc |-> "gic cpu"]
      BY <1>2, <1>13, <2>1, <2>2, GetsTo
    <2>4. ProbeHolds(d, "gic cpu")'
      BY <2>3 DEF ProbeHolds, Held
    <2>5. QED
      BY <1>6, <2>1, <2>3, <2>4 DEF GicPoints
  <1>14. CASE At("gic cpu") /\ Gives({"distributor", "data"}, "error")
    <2>1. HoldsExactly(d, {"data", "distributor"}) /\ UNCHANGED <<table, spis>>
      BY <1>2, <1>3, <1>14 DEF armgicv2_probe, ProbeHolds, Held, DriversInv, Wiring
    <2>2. {"data", "distributor"} \ {"distributor", "data"} = {} /\ {"distributor", "data"} \subseteq {"data", "distributor"}
      BY KnownResources
    <2>3. OthersKeep(d) /\ HoldsExactly(d, {})' /\ probe' = [dev |-> d, pc |-> "error"]
      BY <1>2, <1>14, <2>1, <2>2, GivesTo
    <2>4. ProbeHolds(d, "error")'
      BY <1>3, <1>4, <2>3 DEF ProbeHolds, HoldsOneOf, Rest
    <2>5. QED
      BY <1>6, <2>1, <2>3, <2>4 DEF GicPoints
  <1>15. CASE At("gic cpu") /\ Gets("cpu interface", "ok")
    <2>1. HoldsExactly(d, {"data", "distributor"}) /\ UNCHANGED <<table, spis>>
      BY <1>2, <1>3, <1>15 DEF armgicv2_probe, ProbeHolds, Held, DriversInv, Wiring
    <2>2. {"data", "distributor"} \cup {"cpu interface"} = {"data", "distributor", "cpu interface"} /\ "cpu interface" \in Resources /\ "cpu interface" \notin {"data", "distributor"}
      BY KnownResources
    <2>3. OthersKeep(d) /\ HoldsExactly(d, {"data", "distributor", "cpu interface"})' /\ probe' = [dev |-> d, pc |-> "ok"]
      BY <1>2, <1>15, <2>1, <2>2, GetsTo
    <2>4. ProbeHolds(d, "ok")'
      BY <1>3, <1>4, <2>3 DEF ProbeHolds, Needs
    <2>5. QED
      BY <1>6, <2>1, <2>3, <2>4 DEF GicPoints
  <1>16. QED
    BY <1>7, <1>8, <1>9, <1>10, <1>11, <1>12, <1>13, <1>14, <1>15 DEF armgicv2_probe

LEMMA UartProbeOK == ASSUME DriversInv, pl011_probe PROVE DriversInv'
  <1> USE DEF At
  <1>1. probe.pc \in UartPoints
    BY DEF pl011_probe, UartPoints
  <1>2. PICK d \in DOMAIN list : /\ d = probe.dev /\ probe # NoProbe /\ DriverTypes
                                 /\ ProbeAt(d, probe.pc) /\ ProbeHolds(d, probe.pc) /\ DeviceOK(d)
    BY <1>1, ProbeRuns DEF UartPoints, DriversInv
  <1>3. /\ boot = "console" /\ list[d].class = "CONSOLE" /\ list[d].kind = "uart"
        /\ list[d].state # "READY"
    BY <1>1, <1>2 DEF ProbeAt, DeviceOK, UartPoints
  <1>4. UNCHANGED <<boot, list, claimed>> /\ UNCHANGED platform
    BY DEF pl011_probe
  <1>5. \A pc \in UartPoints \cup {"ok", "error"} : ProbeAt(d, pc)' /\ pc \in ProbePoints
    BY <1>3, <1>4 DEF ProbeAt, GicPoints, UartPoints, MmioPoints, BlkPoints, ProbePoints
  <1>6. ASSUME NEW pc \in UartPoints \cup {"ok", "error"}, OthersKeep(d),
               probe' = [dev |-> d, pc |-> pc], ProbeHolds(d, pc)',
               UNCHANGED <<table, spis>> \/ (pc = "ok" /\ request_irq("uart", d))
        PROVE  DriversInv'
    BY <1>1, <1>2, <1>3, <1>4, <1>5, <1>6, PlainProbeStep DEF UartPoints
  <1>7. CASE At("uart") /\ Goes("error")
    <2>1. HoldsExactly(d, {}) /\ UNCHANGED <<table, spis>>
      BY <1>2, <1>7 DEF pl011_probe, ProbeHolds, Held
    <2>2. OthersKeep(d) /\ HoldsExactly(d, {})' /\ probe' = [dev |-> d, pc |-> "error"]
      BY <1>2, <1>7, <2>1, GoesKeeps
    <2>3. ProbeHolds(d, "error")'
      BY <1>3, <1>4, <2>2 DEF ProbeHolds, HoldsOneOf, Rest
    <2>4. QED
      BY <1>6, <2>1, <2>2, <2>3 DEF UartPoints
  <1>8. CASE At("uart") /\ Goes("uart data")
    <2>1. HoldsExactly(d, {}) /\ UNCHANGED <<table, spis>>
      BY <1>2, <1>8 DEF pl011_probe, ProbeHolds, Held
    <2>2. OthersKeep(d) /\ HoldsExactly(d, {})' /\ probe' = [dev |-> d, pc |-> "uart data"]
      BY <1>2, <1>8, <2>1, GoesKeeps
    <2>3. ProbeHolds(d, "uart data")'
      BY <2>2 DEF ProbeHolds, Held
    <2>4. QED
      BY <1>6, <2>1, <2>2, <2>3 DEF UartPoints
  <1>9. CASE At("uart data") /\ Goes("error")
    <2>1. HoldsExactly(d, {}) /\ UNCHANGED <<table, spis>>
      BY <1>2, <1>9 DEF pl011_probe, ProbeHolds, Held
    <2>2. OthersKeep(d) /\ HoldsExactly(d, {})' /\ probe' = [dev |-> d, pc |-> "error"]
      BY <1>2, <1>9, <2>1, GoesKeeps
    <2>3. ProbeHolds(d, "error")'
      BY <1>3, <1>4, <2>2 DEF ProbeHolds, HoldsOneOf, Rest
    <2>4. QED
      BY <1>6, <2>1, <2>2, <2>3 DEF UartPoints
  <1>10. CASE At("uart data") /\ Gets("data", "uart map")
    <2>1. HoldsExactly(d, {}) /\ UNCHANGED <<table, spis>>
      BY <1>2, <1>10 DEF pl011_probe, ProbeHolds, Held
    <2>2. {} \cup {"data"} = {"data"} /\ "data" \in Resources /\ "data" \notin {}
      BY KnownResources
    <2>3. OthersKeep(d) /\ HoldsExactly(d, {"data"})' /\ probe' = [dev |-> d, pc |-> "uart map"]
      BY <1>2, <1>10, <2>1, <2>2, GetsTo
    <2>4. ProbeHolds(d, "uart map")'
      BY <2>3 DEF ProbeHolds, Held
    <2>5. QED
      BY <1>6, <2>1, <2>3, <2>4 DEF UartPoints
  <1>11. CASE At("uart map") /\ Gives({"data"}, "error")
    <2>1. HoldsExactly(d, {"data"}) /\ UNCHANGED <<table, spis>>
      BY <1>2, <1>11 DEF pl011_probe, ProbeHolds, Held
    <2>2. {"data"} \ {"data"} = {} /\ {"data"} \subseteq {"data"}
      BY KnownResources
    <2>3. OthersKeep(d) /\ HoldsExactly(d, {})' /\ probe' = [dev |-> d, pc |-> "error"]
      BY <1>2, <1>11, <2>1, <2>2, GivesTo
    <2>4. ProbeHolds(d, "error")'
      BY <1>3, <1>4, <2>3 DEF ProbeHolds, HoldsOneOf, Rest
    <2>5. QED
      BY <1>6, <2>1, <2>3, <2>4 DEF UartPoints
  <1>12. CASE At("uart map") /\ Gets("registers", "uart irq")
    <2>1. HoldsExactly(d, {"data"}) /\ UNCHANGED <<table, spis>>
      BY <1>2, <1>12 DEF pl011_probe, ProbeHolds, Held
    <2>2. {"data"} \cup {"registers"} = {"data", "registers"} /\ "registers" \in Resources /\ "registers" \notin {"data"}
      BY KnownResources
    <2>3. OthersKeep(d) /\ HoldsExactly(d, {"data", "registers"})' /\ probe' = [dev |-> d, pc |-> "uart irq"]
      BY <1>2, <1>12, <2>1, <2>2, GetsTo
    <2>4. ProbeHolds(d, "uart irq")'
      BY <2>3 DEF ProbeHolds, Held
    <2>5. QED
      BY <1>6, <2>1, <2>3, <2>4 DEF UartPoints
  <1>13. CASE At("uart irq") /\ Goes("ok")
    <2>1. HoldsExactly(d, {"data", "registers"}) /\ request_irq("uart", d)
      BY <1>2, <1>13 DEF pl011_probe, ProbeHolds, Held
    <2>2. OthersKeep(d) /\ HoldsExactly(d, {"data", "registers"})' /\ probe' = [dev |-> d, pc |-> "ok"]
      BY <1>2, <1>13, <2>1, GoesKeeps
    <2>3. ProbeHolds(d, "ok")'
      BY <1>3, <1>4, <2>2 DEF ProbeHolds, Needs
    <2>4. QED
      BY <1>6, <2>1, <2>2, <2>3 DEF UartPoints
  <1>14. QED
    BY <1>7, <1>8, <1>9, <1>10, <1>11, <1>12, <1>13 DEF pl011_probe

LEMMA BlkProbeOK == ASSUME DriversInv, virtio_blk_probe PROVE DriversInv'
  <1> USE DEF At
  <1>1. probe.pc \in BlkPoints
    BY DEF virtio_blk_probe, BlkPoints
  <1>2. PICK d \in DOMAIN list : /\ d = probe.dev /\ probe # NoProbe /\ DriverTypes
                                 /\ ProbeAt(d, probe.pc) /\ ProbeHolds(d, probe.pc) /\ DeviceOK(d)
    BY <1>1, ProbeRuns DEF BlkPoints, DriversInv
  <1>3. /\ boot = "virtio" /\ list[d].class = "BLOCK" /\ list[d].kind = "block"
        /\ list[d].state # "READY"
    BY <1>1, <1>2 DEF ProbeAt, DeviceOK, BlkPoints
  <1>4. UNCHANGED <<boot, list, claimed>> /\ UNCHANGED platform
    BY DEF virtio_blk_probe
  <1>5. \A pc \in BlkPoints \cup {"ok", "error"} : ProbeAt(d, pc)' /\ pc \in ProbePoints
    BY <1>3, <1>4 DEF ProbeAt, GicPoints, UartPoints, MmioPoints, BlkPoints, ProbePoints
  <1>6. ASSUME NEW pc \in BlkPoints \cup {"ok", "error"}, OthersKeep(d),
               probe' = [dev |-> d, pc |-> pc], ProbeHolds(d, pc)',
               UNCHANGED <<table, spis>> \/ (pc = "ok" /\ request_irq("block", d))
        PROVE  DriversInv'
    BY <1>1, <1>2, <1>3, <1>4, <1>5, <1>6, PlainProbeStep DEF BlkPoints
  <1>7. CASE At("blk") /\ Goes("blk error")
    <2>1. HoldsExactly(d, {"registers"}) /\ UNCHANGED <<table, spis>>
      BY <1>2, <1>7 DEF virtio_blk_probe, ProbeHolds, Held
    <2>2. OthersKeep(d) /\ HoldsExactly(d, {"registers"})' /\ probe' = [dev |-> d, pc |-> "blk error"]
      BY <1>2, <1>7, <2>1, GoesKeeps
    <2>3. ProbeHolds(d, "blk error")'
      <3>1. {} \in Leaks /\ {} \cup {"registers"} = {"registers"}
        BY DEF Leaks
      <3>2. QED
        BY <2>2, <3>1 DEF ProbeHolds
    <2>4. QED
      BY <1>6, <2>1, <2>2, <2>3 DEF BlkPoints
  <1>8. CASE At("blk") /\ Gets("data", "blk first")
    <2>1. HoldsExactly(d, {"registers"}) /\ UNCHANGED <<table, spis>>
      BY <1>2, <1>8 DEF virtio_blk_probe, ProbeHolds, Held
    <2>2. {"registers"} \cup {"data"} = {"registers", "data"} /\ "data" \in Resources /\ "data" \notin {"registers"}
      BY KnownResources
    <2>3. OthersKeep(d) /\ HoldsExactly(d, {"registers", "data"})' /\ probe' = [dev |-> d, pc |-> "blk first"]
      BY <1>2, <1>8, <2>1, <2>2, GetsTo
    <2>4. ProbeHolds(d, "blk first")'
      BY <2>3 DEF ProbeHolds, Held
    <2>5. QED
      BY <1>6, <2>1, <2>3, <2>4 DEF BlkPoints
  <1>9. CASE At("blk first") /\ Goes("blk error")
    <2>1. HoldsExactly(d, {"registers", "data"}) /\ UNCHANGED <<table, spis>>
      BY <1>2, <1>9 DEF virtio_blk_probe, ProbeHolds, Held
    <2>2. OthersKeep(d) /\ HoldsExactly(d, {"registers", "data"})' /\ probe' = [dev |-> d, pc |-> "blk error"]
      BY <1>2, <1>9, <2>1, GoesKeeps
    <2>3. ProbeHolds(d, "blk error")'
      <3>1. {"data"} \in Leaks /\ {"data"} \cup {"registers"} = {"registers", "data"}
        BY DEF Leaks
      <3>2. QED
        BY <2>2, <3>1 DEF ProbeHolds
    <2>4. QED
      BY <1>6, <2>1, <2>2, <2>3 DEF BlkPoints
  <1>10. CASE At("blk first") /\ Gets("first page", "blk second")
    <2>1. HoldsExactly(d, {"registers", "data"}) /\ UNCHANGED <<table, spis>>
      BY <1>2, <1>10 DEF virtio_blk_probe, ProbeHolds, Held
    <2>2. {"registers", "data"} \cup {"first page"} = {"registers", "data", "first page"} /\ "first page" \in Resources /\ "first page" \notin {"registers", "data"}
      BY KnownResources
    <2>3. OthersKeep(d) /\ HoldsExactly(d, {"registers", "data", "first page"})' /\ probe' = [dev |-> d, pc |-> "blk second"]
      BY <1>2, <1>10, <2>1, <2>2, GetsTo
    <2>4. ProbeHolds(d, "blk second")'
      BY <2>3 DEF ProbeHolds, Held
    <2>5. QED
      BY <1>6, <2>1, <2>3, <2>4 DEF BlkPoints
  <1>11. CASE At("blk second") /\ Gives({"first page"}, "blk error")
    <2>1. HoldsExactly(d, {"registers", "data", "first page"}) /\ UNCHANGED <<table, spis>>
      BY <1>2, <1>11 DEF virtio_blk_probe, ProbeHolds, Held
    <2>2. {"registers", "data", "first page"} \ {"first page"} = {"registers", "data"} /\ {"first page"} \subseteq {"registers", "data", "first page"}
      BY KnownResources
    <2>3. OthersKeep(d) /\ HoldsExactly(d, {"registers", "data"})' /\ probe' = [dev |-> d, pc |-> "blk error"]
      BY <1>2, <1>11, <2>1, <2>2, GivesTo
    <2>4. ProbeHolds(d, "blk error")'
      <3>1. {"data"} \in Leaks /\ {"data"} \cup {"registers"} = {"registers", "data"}
        BY DEF Leaks
      <3>2. QED
        BY <2>3, <3>1 DEF ProbeHolds
    <2>5. QED
      BY <1>6, <2>1, <2>3, <2>4 DEF BlkPoints
  <1>12. CASE At("blk second") /\ Gets("second page", "blk pages")
    <2>1. HoldsExactly(d, {"registers", "data", "first page"}) /\ UNCHANGED <<table, spis>>
      BY <1>2, <1>12 DEF virtio_blk_probe, ProbeHolds, Held
    <2>2. {"registers", "data", "first page"} \cup {"second page"} = {"registers", "data", "first page", "second page"} /\ "second page" \in Resources /\ "second page" \notin {"registers", "data", "first page"}
      BY KnownResources
    <2>3. OthersKeep(d) /\ HoldsExactly(d, {"registers", "data", "first page", "second page"})' /\ probe' = [dev |-> d, pc |-> "blk pages"]
      BY <1>2, <1>12, <2>1, <2>2, GetsTo
    <2>4. ProbeHolds(d, "blk pages")'
      BY <2>3 DEF ProbeHolds, Held
    <2>5. QED
      BY <1>6, <2>1, <2>3, <2>4 DEF BlkPoints
  <1>13. CASE At("blk pages") /\ Gives({"first page", "second page"}, "blk error")
    <2>1. HoldsExactly(d, {"registers", "data", "first page", "second page"}) /\ UNCHANGED <<table, spis>>
      BY <1>2, <1>13 DEF virtio_blk_probe, ProbeHolds, Held
    <2>2. {"registers", "data", "first page", "second page"} \ {"first page", "second page"} = {"registers", "data"} /\ {"first page", "second page"} \subseteq {"registers", "data", "first page", "second page"}
      BY KnownResources
    <2>3. OthersKeep(d) /\ HoldsExactly(d, {"registers", "data"})' /\ probe' = [dev |-> d, pc |-> "blk error"]
      BY <1>2, <1>13, <2>1, <2>2, GivesTo
    <2>4. ProbeHolds(d, "blk error")'
      <3>1. {"data"} \in Leaks /\ {"data"} \cup {"registers"} = {"registers", "data"}
        BY DEF Leaks
      <3>2. QED
        BY <2>3, <3>1 DEF ProbeHolds
    <2>5. QED
      BY <1>6, <2>1, <2>3, <2>4 DEF BlkPoints
  <1>14. CASE At("blk pages") /\ Goes("blk request")
    <2>1. HoldsExactly(d, {"registers", "data", "first page", "second page"}) /\ UNCHANGED <<table, spis>>
      BY <1>2, <1>14 DEF virtio_blk_probe, ProbeHolds, Held
    <2>2. OthersKeep(d) /\ HoldsExactly(d, {"registers", "data", "first page", "second page"})' /\ probe' = [dev |-> d, pc |-> "blk request"]
      BY <1>2, <1>14, <2>1, GoesKeeps
    <2>3. ProbeHolds(d, "blk request")'
      BY <2>2 DEF ProbeHolds, Held
    <2>4. QED
      BY <1>6, <2>1, <2>2, <2>3 DEF BlkPoints
  <1>15. CASE At("blk request") /\ Goes("blk error")
    <2>1. HoldsExactly(d, {"registers", "data", "first page", "second page"}) /\ UNCHANGED <<table, spis>>
      BY <1>2, <1>15 DEF virtio_blk_probe, ProbeHolds, Held
    <2>2. OthersKeep(d) /\ HoldsExactly(d, {"registers", "data", "first page", "second page"})' /\ probe' = [dev |-> d, pc |-> "blk error"]
      BY <1>2, <1>15, <2>1, GoesKeeps
    <2>3. ProbeHolds(d, "blk error")'
      <3>1. {"data", "first page", "second page"} \in Leaks /\ {"data", "first page", "second page"} \cup {"registers"} = {"registers", "data", "first page", "second page"}
        BY DEF Leaks
      <3>2. QED
        BY <2>2, <3>1 DEF ProbeHolds
    <2>4. QED
      BY <1>6, <2>1, <2>2, <2>3 DEF BlkPoints
  <1>16. CASE At("blk request") /\ Gets("request page", "blk irq")
    <2>1. HoldsExactly(d, {"registers", "data", "first page", "second page"}) /\ UNCHANGED <<table, spis>>
      BY <1>2, <1>16 DEF virtio_blk_probe, ProbeHolds, Held
    <2>2. {"registers", "data", "first page", "second page"} \cup {"request page"} = {"registers", "data", "first page", "second page", "request page"} /\ "request page" \in Resources /\ "request page" \notin {"registers", "data", "first page", "second page"}
      BY KnownResources
    <2>3. OthersKeep(d) /\ HoldsExactly(d, {"registers", "data", "first page", "second page", "request page"})' /\ probe' = [dev |-> d, pc |-> "blk irq"]
      BY <1>2, <1>16, <2>1, <2>2, GetsTo
    <2>4. ProbeHolds(d, "blk irq")'
      BY <2>3 DEF ProbeHolds, Held, Needs
    <2>5. QED
      BY <1>6, <2>1, <2>3, <2>4 DEF BlkPoints
  <1>17. CASE At("blk irq") /\ Goes("ok")
    <2>1. HoldsExactly(d, {"registers", "data", "first page", "second page", "request page"}) /\ request_irq("block", d)
      BY <1>2, <1>17 DEF virtio_blk_probe, ProbeHolds, Held, Needs
    <2>2. OthersKeep(d) /\ HoldsExactly(d, {"registers", "data", "first page", "second page", "request page"})' /\ probe' = [dev |-> d, pc |-> "ok"]
      BY <1>2, <1>17, <2>1, GoesKeeps
    <2>3. ProbeHolds(d, "ok")'
      BY <1>3, <1>4, <2>2 DEF ProbeHolds, Needs
    <2>4. QED
      BY <1>6, <2>1, <2>2, <2>3 DEF BlkPoints
  <1>18. QED
    BY <1>7, <1>8, <1>9, <1>10, <1>11, <1>12, <1>13, <1>14, <1>15, <1>16, <1>17 DEF virtio_blk_probe

\* What a list with one class changed looks like.
LEMMA ClassChanges ==
    ASSUME DriverTypes, NEW d \in DOMAIN list, NEW class \in Classes,
           list' = [list EXCEPT ![d].class = class]
    PROVE  /\ list' \in [DOMAIN list -> [kind: Kinds, class: Classes, state: {"DISCOVERED", "READY"}]]
           /\ \A e \in DOMAIN list \ {d} : list'[e] = list[e]
           /\ list'[d].kind = list[d].kind /\ list'[d].state = list[d].state
           /\ list'[d].class = class
  <1>1. list \in [DOMAIN list -> [kind: Kinds, class: Classes, state: {"DISCOVERED", "READY"}]]
    BY DEF DriverTypes
  <1>2. [list[d] EXCEPT !.class = class] \in [kind: Kinds, class: Classes, state: {"DISCOVERED", "READY"}]
    BY <1>1
  <1>3. list' = [list EXCEPT ![d] = [list[d] EXCEPT !.class = class]]
    BY <1>1
  <1>4. QED
    BY <1>1, <1>2, <1>3

LEMMA MmioProbeOK == ASSUME DriversInv, virtio_mmio_probe PROVE DriversInv'
  <1> USE DEF At
  <1>1. probe.pc \in MmioPoints \cup {"blk error"}
    BY DEF virtio_mmio_probe, MmioPoints
  <1>2. PICK d \in DOMAIN list : /\ d = probe.dev /\ probe # NoProbe /\ DriverTypes
                                 /\ ProbeAt(d, probe.pc) /\ ProbeHolds(d, probe.pc) /\ DeviceOK(d)
    BY <1>1, ProbeRuns DEF MmioPoints, DriversInv
  <1>3. boot = "virtio" /\ list[d].state # "READY"
    BY <1>1, <1>2 DEF ProbeAt, MmioPoints, BlkPoints
  <1>4. UNCHANGED <<boot, table, spis>> /\ UNCHANGED platform
    BY DEF virtio_mmio_probe
  <1>5. ASSUME NEW pc \in {"mmio map", "mmio id", "error"}, OthersKeep(d), UNCHANGED <<list, claimed>>,
               list[d].class = "VIRTIO_MMIO" \/ (pc = "error" /\ list[d].class = "BLOCK"),
               probe' = [dev |-> d, pc |-> pc], ProbeHolds(d, pc)'
        PROVE  DriversInv'
    <2>1. ProbeAt(d, pc)' /\ pc \in ProbePoints
      BY <1>3, <1>4, <1>5 DEF ProbeAt, GicPoints, UartPoints, MmioPoints, BlkPoints, ProbePoints
    <2>2. QED
      BY <1>1, <1>2, <1>4, <1>5, <2>1, PlainProbeStep DEF MmioPoints
  <1>6. CASE At("mmio") /\ Goes("error")
    <2>1. HoldsExactly(d, {}) /\ list[d].class = "VIRTIO_MMIO" /\ UNCHANGED <<list, claimed>>
      BY <1>2, <1>6 DEF virtio_mmio_probe, ProbeHolds, Held, ProbeAt, MmioPoints
    <2>2. OthersKeep(d) /\ HoldsExactly(d, {})' /\ probe' = [dev |-> d, pc |-> "error"]
      BY <1>2, <1>6, <2>1, GoesKeeps
    <2>3. ProbeHolds(d, "error")'
      BY <2>1, <2>2 DEF ProbeHolds, HoldsOneOf, Rest
    <2>4. QED
      BY <1>5, <2>1, <2>2, <2>3
  <1>7. CASE At("mmio") /\ Goes("mmio map")
    <2>1. HoldsExactly(d, {}) /\ list[d].class = "VIRTIO_MMIO" /\ UNCHANGED <<list, claimed>>
      BY <1>2, <1>7 DEF virtio_mmio_probe, ProbeHolds, Held, ProbeAt, MmioPoints
    <2>2. OthersKeep(d) /\ HoldsExactly(d, {})' /\ probe' = [dev |-> d, pc |-> "mmio map"]
      BY <1>2, <1>7, <2>1, GoesKeeps
    <2>3. ProbeHolds(d, "mmio map")'
      BY <2>1, <2>2 DEF ProbeHolds, Held
    <2>4. QED
      BY <1>5, <2>1, <2>2, <2>3
  <1>8. CASE At("mmio map") /\ Goes("error")
    <2>1. HoldsExactly(d, {}) /\ list[d].class = "VIRTIO_MMIO" /\ UNCHANGED <<list, claimed>>
      BY <1>2, <1>8 DEF virtio_mmio_probe, ProbeHolds, Held, ProbeAt, MmioPoints
    <2>2. OthersKeep(d) /\ HoldsExactly(d, {})' /\ probe' = [dev |-> d, pc |-> "error"]
      BY <1>2, <1>8, <2>1, GoesKeeps
    <2>3. ProbeHolds(d, "error")'
      BY <2>1, <2>2 DEF ProbeHolds, HoldsOneOf, Rest
    <2>4. QED
      BY <1>5, <2>1, <2>2, <2>3
  <1>9. CASE At("mmio map") /\ Gets("registers", "mmio id")
    <2>1. HoldsExactly(d, {}) /\ list[d].class = "VIRTIO_MMIO" /\ UNCHANGED <<list, claimed>>
      BY <1>2, <1>9 DEF virtio_mmio_probe, ProbeHolds, Held, ProbeAt, MmioPoints
    <2>2. OthersKeep(d) /\ HoldsExactly(d, {"registers"})' /\ probe' = [dev |-> d, pc |-> "mmio id"]
      <3>1. {} \cup {"registers"} = {"registers"} /\ "registers" \in Resources /\ "registers" \notin {}
        BY KnownResources
      <3>2. QED
        BY <1>2, <1>9, <2>1, <3>1, GetsTo
    <2>3. ProbeHolds(d, "mmio id")'
      BY <2>1, <2>2 DEF ProbeHolds, Held
    <2>4. QED
      BY <1>5, <2>1, <2>2, <2>3
  <1>10. CASE At("blk error") /\ Gives({"registers"}, "error")
    <2>1. PICK rs \in Leaks : HoldsExactly(d, rs \cup {"registers"})
      BY <1>2, <1>10 DEF ProbeHolds
    <2>2. list[d].class = "BLOCK" /\ UNCHANGED <<list, claimed>>
      BY <1>2, <1>10 DEF virtio_mmio_probe, ProbeAt, BlkPoints, MmioPoints
    <2>3. /\ (rs \cup {"registers"}) \ {"registers"} = rs
          /\ {"registers"} \subseteq (rs \cup {"registers"})
      BY DEF Leaks
    <2>4. OthersKeep(d) /\ HoldsExactly(d, rs)' /\ probe' = [dev |-> d, pc |-> "error"]
      BY <1>2, <1>10, <2>1, <2>3, GivesTo
    <2>5. ProbeHolds(d, "error")'
      BY <2>2, <2>4 DEF ProbeHolds, HoldsOneOf, Rest
    <2>6. QED
      BY <1>5, <2>2, <2>4, <2>5
  <1>11. CASE At("mmio id") /\ Identify
    <2>1. HoldsExactly(d, {"registers"}) /\ list[d].class = "VIRTIO_MMIO"
      BY <1>2, <1>11 DEF ProbeHolds, Held, ProbeAt, MmioPoints
    <2>2. /\ {"registers"} \ {"registers"} = {} /\ {"registers"} \subseteq {"registers"}
      OBVIOUS
    <2>3. Gives({"registers"}, "error") =>
            OthersKeep(d) /\ HoldsExactly(d, {})' /\ probe' = [dev |-> d, pc |-> "error"]
      BY <1>2, <2>1, <2>2, GivesTo
    <2>4. CASE Gives({"registers"}, "error") /\ UNCHANGED <<list, claimed>>
      <3>1. ProbeHolds(d, "error")'
        BY <2>1, <2>3, <2>4 DEF ProbeHolds, HoldsOneOf, Rest
      <3>2. QED
        BY <1>5, <2>1, <2>3, <2>4, <3>1
    <2>5. CASE /\ list[d].kind \notin {"none"} \cup claimed /\ claimed' = claimed \cup {list[d].kind}
               /\ list[d].kind # "block" /\ list' = [list EXCEPT ![d].class = "NETWORK"]
               /\ Gives({"registers"}, "error")
      <3>1. /\ list' \in [DOMAIN list -> [kind: Kinds, class: Classes, state: {"DISCOVERED", "READY"}]]
            /\ \A e \in DOMAIN list \ {d} : list'[e] = list[e]
            /\ list'[d].kind = list[d].kind /\ list'[d].state = list[d].state
            /\ list'[d].class = "NETWORK"
        BY <1>2, <2>5, ClassChanges DEF Classes
      <3>2. ProbeHolds(d, "error")'
        BY <2>3, <2>5, <3>1 DEF ProbeHolds, HoldsOneOf, Rest
      <3>3. ProbeAt(d, "error")' /\ "error" \in ProbePoints
        BY <1>3, <1>4, <3>1 DEF ProbeAt, GicPoints, UartPoints, MmioPoints, BlkPoints, ProbePoints
      <3>4. QED
        BY <1>2, <1>11, <1>4, <2>1, <2>3, <2>5, <3>1, <3>2, <3>3, ProbeStepKeeps
    <2>6. CASE /\ list[d].kind \notin {"none"} \cup claimed /\ claimed' = claimed \cup {list[d].kind}
               /\ list[d].kind = "block" /\ list' = [list EXCEPT ![d].class = "BLOCK"]
               /\ Goes("blk")
      <3>1. /\ list' \in [DOMAIN list -> [kind: Kinds, class: Classes, state: {"DISCOVERED", "READY"}]]
            /\ \A e \in DOMAIN list \ {d} : list'[e] = list[e]
            /\ list'[d].kind = list[d].kind /\ list'[d].state = list[d].state
            /\ list'[d].class = "BLOCK"
        BY <1>2, <2>6, ClassChanges DEF Classes
      <3>2. OthersKeep(d) /\ HoldsExactly(d, {"registers"})' /\ probe' = [dev |-> d, pc |-> "blk"]
        BY <1>2, <2>1, <2>6, GoesKeeps
      <3>3. ProbeHolds(d, "blk")'
        BY <3>2 DEF ProbeHolds, Held
      <3>4. ProbeAt(d, "blk")' /\ "blk" \in ProbePoints
        BY <1>3, <1>4, <3>1 DEF ProbeAt, GicPoints, UartPoints, MmioPoints, BlkPoints, ProbePoints
      <3>5. QED
        BY <1>2, <1>11, <1>4, <2>1, <2>6, <3>1, <3>2, <3>3, <3>4, ProbeStepKeeps
    <2>7. QED
      BY <1>2, <1>11, <2>4, <2>5, <2>6 DEF Identify
  <1>12. QED
    BY <1>6, <1>7, <1>8, <1>9, <1>10, <1>11 DEF virtio_mmio_probe

-----------------------------------------------------------------------------
(* kernel_main readies its devices                                         *)

\* A probe starts at a device that was not probed before.
LEMMA StartOK ==
    ASSUME DriversInv, NEW d \in DOMAIN list, NEW pc \in {"gic", "uart", "mmio"}, Start(d, pc),
           UNCHANGED <<res, claimed, table, spis>>, UNCHANGED platform,
           ProbeAt(d, pc), list[d].class # "BLOCK"
    PROVE  DriversInv'
  <1>1. /\ probe = NoProbe /\ probe' = [dev |-> d, pc |-> pc] /\ UNCHANGED <<boot, list>>
        /\ UNCHANGED <<proc, online, raised, fired, disp>>
    BY DEF Start, platform
  <1>2. pc \in ProbePoints /\ pc # "ok" /\ probe.dev = NoDevice /\ NoDevice \notin DOMAIN list
        /\ probe' # NoProbe
    BY <1>1 DEF ProbePoints, GicPoints, UartPoints, MmioPoints, NoProbe, DriversInv, DriverTypes
  <1>3. DriverTypes'
    BY <1>1, <1>2 DEF DriversInv, DriverTypes
  <1>4. \A e \in DOMAIN list : DeviceOK(e) /\ Settled(e)
    BY <1>2 DEF DriversInv, DevicesOK, DeviceOK
  <1>5. HoldsExactly(d, {})
    <2>1. Settled(d) /\ list[d].state # "READY" /\ boot # "panic"
      BY <1>4 DEF ProbeAt, GicPoints, UartPoints, MmioPoints
    <2>2. QED
      BY <2>1 DEF Settled
  <1>6. ProbeOK'
    <2>1. ProbeAt(d, pc)'
      BY <1>1 DEF ProbeAt
    <2>2. ProbeHolds(d, pc)'
      BY <1>1, <1>5 DEF ProbeHolds, Held, HoldsExactly
    <2>3. QED
      BY <1>1, <2>1, <2>2 DEF ProbeOK
  <1>7. DevicesOK'
    <2>1. ASSUME NEW e \in DOMAIN list PROVE DeviceOK(e)'
      <3>1. Settled(e)'
        BY <1>1, <1>4 DEF Settled, HoldsExactly, HoldsOneOf
      <3>2. QED
        BY <1>1, <1>4, <3>1 DEF DeviceOK
    <2>2. QED
      BY <1>1, <2>1 DEF DriversInv, DevicesOK
  <1>8. \A l : Wired(l) => Wired(l)'
    BY <1>1 DEF Wired, LiveDevice, NoProbe
  <1>9. Wiring' /\ Alone'
    BY <1>1, <1>8 DEF DriversInv, Wiring, Alone
  <1>10. BringUp'
    <2>1. Counted' = Counted
      BY <1>1 DEF Counted
    <2>2. QED
      BY <1>1, <1>8, <2>1 DEF DriversInv, BringUp, CpuUp
  <1>11. Dispatching'
    BY <1>1 DEF DriversInv, Dispatching, DispatchOK, LiveDevice
  <1>12. QED
    BY <1>3, <1>6, <1>7, <1>9, <1>10, <1>11 DEF DriversInv

\* What a list with one device READY looks like.
LEMMA StateChanges ==
    ASSUME DriverTypes, NEW d \in DOMAIN list, list' = [list EXCEPT ![d].state = "READY"]
    PROVE  /\ list' \in [DOMAIN list -> [kind: Kinds, class: Classes, state: {"DISCOVERED", "READY"}]]
           /\ \A e \in DOMAIN list \ {d} : list'[e] = list[e]
           /\ list'[d].kind = list[d].kind /\ list'[d].class = list[d].class
           /\ list'[d].state = "READY"
  <1>1. list \in [DOMAIN list -> [kind: Kinds, class: Classes, state: {"DISCOVERED", "READY"}]]
    BY DEF DriverTypes
  <1>2. [list[d] EXCEPT !.state = "READY"] \in [kind: Kinds, class: Classes, state: {"DISCOVERED", "READY"}]
    BY <1>1
  <1>3. list' = [list EXCEPT ![d] = [list[d] EXCEPT !.state = "READY"]]
    BY <1>1
  <1>4. QED
    BY <1>1, <1>2, <1>3

\* A probe ends: its device is READY, or settles with what is left.
LEMMA ReadyOK ==
    ASSUME DriversInv, dmanager_ready_device,
           UNCHANGED <<res, claimed, table, spis>>, UNCHANGED platform,
           boot' = IF boot = "irqchip" THEN (IF probe.pc = "ok" THEN "console" ELSE "panic")
                   ELSE IF boot = "console" THEN "timer" ELSE boot
    PROVE  DriversInv'
  <1>1. /\ probe.pc \in {"ok", "error"} /\ probe' = NoProbe
        /\ UNCHANGED <<proc, online, raised, fired, disp>>
    BY DEF dmanager_ready_device, platform
  <1>2. PICK d \in DOMAIN list : /\ d = probe.dev /\ probe # NoProbe /\ DriverTypes
                                 /\ ProbeAt(d, probe.pc) /\ ProbeHolds(d, probe.pc) /\ DeviceOK(d)
    BY <1>1, ProbeRuns DEF DriversInv
  <1>3. /\ boot \in {"irqchip", "console", "virtio"}
        /\ boot = "irqchip" => list[d].class = "IRQCHIP"
        /\ boot = "console" => list[d].class = "CONSOLE"
        /\ list[d].state # "READY"
    BY <1>1, <1>2 DEF ProbeAt
  <1>4. /\ list' \in [DOMAIN list -> [kind: Kinds, class: Classes, state: {"DISCOVERED", "READY"}]]
        /\ \A e \in DOMAIN list \ {d} : list'[e] = list[e]
        /\ list'[d].kind = list[d].kind /\ list'[d].class = list[d].class
        /\ list'[d].state = IF probe.pc = "ok" THEN "READY" ELSE list[d].state
    <2>1. CASE probe.pc = "ok"
      BY <1>2, <2>1, StateChanges DEF dmanager_ready_device, At
    <2>2. CASE probe.pc # "ok"
      BY <1>2, <2>2 DEF dmanager_ready_device, At, DriverTypes
    <2>3. QED
      BY <2>1, <2>2
  <1>5. DOMAIN list' = DOMAIN list /\ NoDevice \notin DOMAIN list /\ probe'.dev = NoDevice
    BY <1>1, <1>2, <1>4 DEF DriverTypes, NoProbe
  <1>6. boot' \in BootPoints
    BY <1>3 DEF BootPoints
  <1>7. DriverTypes' /\ ProbeOK'
    BY <1>1, <1>2, <1>4, <1>5, <1>6 DEF DriverTypes, ProbeOK
  <1>8. DevicesOK'
    <2>1. ASSUME NEW e \in DOMAIN list, e # d PROVE DeviceOK(e)'
      <3>1. DeviceOK(e) /\ Settled(e) /\ list'[e] = list[e]
        BY <1>2, <1>4, <2>1 DEF DriversInv, DevicesOK, DeviceOK
      <3>2. \A rs : HoldsExactly(e, rs) => HoldsExactly(e, rs)'
        BY DEF HoldsExactly
      <3>3. {} \in Rest(list[e].class)
        BY DEF Rest, Leaks
      <3>4. Settled(e)'
        BY <1>3, <3>1, <3>2, <3>3 DEF Settled, HoldsOneOf
      <3>5. QED
        BY <1>3, <3>1, <3>4 DEF DeviceOK
    <2>2. DeviceOK(d)'
      <3>1. \A rs : HoldsExactly(d, rs) => HoldsExactly(d, rs)'
        BY DEF HoldsExactly
      <3>2. CASE probe.pc = "ok"
        <4>1. HoldsExactly(d, Needs(list[d].kind))
          BY <1>2, <3>2 DEF ProbeHolds
        <4>2. Settled(d)'
          BY <1>4, <3>1, <3>2, <4>1 DEF Settled
        <4>3. list[d].class # "VIRTIO_MMIO"
          BY <1>2, <3>2 DEF ProbeAt
        <4>4. QED
          BY <1>2, <1>3, <1>4, <3>2, <4>2, <4>3 DEF DeviceOK
      <3>3. CASE probe.pc = "error"
        <4>1. HoldsOneOf(d, Rest(list[d].class))
          BY <1>2, <3>3 DEF ProbeHolds
        <4>2. /\ list'[d].class = list[d].class /\ list'[d].state = list[d].state
              /\ \E rs \in Rest(list[d].class) : HoldsExactly(d, rs)'
          BY <1>4, <3>1, <3>3, <4>1 DEF HoldsOneOf
        <4>3. list[d].class = "BLOCK" \/ boot' = "panic" \/ HoldsExactly(d, {})'
          BY <1>2, <1>3, <3>1, <3>3, <4>1 DEF ProbeAt, HoldsOneOf, Rest
        <4>4. Settled(d)'
          BY <1>3, <1>4, <3>3, <4>2, <4>3 DEF Settled, HoldsOneOf, Rest, Leaks
        <4>5. QED
          BY <1>2, <1>3, <1>4, <3>3, <4>4 DEF DeviceOK
      <3>4. QED
        BY <1>1, <3>2, <3>3
    <2>3. QED
      BY <1>4, <1>5, <2>1, <2>2 DEF DriversInv, DevicesOK
  <1>9. \A e : LiveDevice(e) => LiveDevice(e)'
    BY <1>3, <1>4, <1>5 DEF LiveDevice
  <1>10. \A l : Wired(l) => Wired(l)'
    <2>1. probe = [dev |-> d, pc |-> probe.pc]
      BY <1>2 DEF DriverTypes
    <2>2. probe.pc = "ok" => LiveDevice(d)'
      BY <1>4, <1>5 DEF LiveDevice
    <2>3. QED
      BY <1>9, <2>1, <2>2 DEF Wired
  <1>11. Wiring' /\ Alone'
    BY <1>1, <1>3, <1>10 DEF DriversInv, Wiring, Alone, EarlyPoints
  <1>12. BringUp'
    <2>1. Counted' = Counted
      BY <1>1 DEF Counted
    <2>2. QED
      BY <1>1, <1>3, <1>10, <2>1 DEF DriversInv, BringUp, CpuUp
  <1>13. Dispatching'
    BY <1>1, <1>9 DEF DriversInv, Dispatching, DispatchOK
  <1>14. QED
    BY <1>7, <1>8, <1>11, <1>12, <1>13 DEF DriversInv

\* kernel_main or a CPU moves on and no device changes.
LEMMA SameDevices ==
    ASSUME DriversInv, UNCHANGED probed, boot' = boot \/ probe = NoProbe,
           boot' # boot => boot' \notin {"irqchip", "console"} /\ (boot' = "timer" => boot = "console"),
           boot = "panic" => boot' = "panic"
    PROVE  ProbeOK' /\ DevicesOK'
  <1>1. UNCHANGED <<list, probe, res, claimed>>
    BY DEF probed
  <1>2. ProbeOK'
    BY <1>1 DEF DriversInv, ProbeOK, ProbeAt, ProbeHolds, HoldsExactly, HoldsOneOf
  <1>3. ASSUME NEW e \in DOMAIN list PROVE DeviceOK(e)'
    <2>1. DeviceOK(e)
      BY DEF DriversInv, DevicesOK
    <2>2. {} \in Rest(list[e].class)
      BY DEF Rest, Leaks
    <2>3. \A rs : HoldsExactly(e, rs) => HoldsExactly(e, rs)'
      BY <1>1 DEF HoldsExactly
    <2>4. Settled(e) => Settled(e)'
      BY <1>1, <2>2, <2>3 DEF Settled, HoldsOneOf
    <2>5. QED
      BY <1>1, <2>1, <2>4 DEF DeviceOK
  <1>4. QED
    BY <1>1, <1>2, <1>3 DEF DriversInv, DevicesOK

\* The wires, while no probe runs.
LEMMA SameWires == ASSUME UNCHANGED probed PROVE \A l : Wired(l)' <=> Wired(l)
  BY DEF probed, Wired, LiveDevice

\* kernel_main finds no device of the class.
LEMMA NoneFoundOK ==
    ASSUME DriversInv, UNCHANGED probed, UNCHANGED platform, probe = NoProbe,
           <<boot, boot'>> \in {<<"irqchip", "panic">>, <<"console", "timer">>,
                                <<"timer", "panic">>, <<"virtio", "wake">>}
    PROVE  DriversInv'
  <1>1. UNCHANGED <<proc, online, raised, fired, disp>>
        /\ UNCHANGED <<list, probe, res, claimed, table, spis>>
    BY DEF platform, probed
  <1>2. DriverTypes'
    BY <1>1 DEF DriversInv, DriverTypes, BootPoints
  <1>3. ProbeOK' /\ DevicesOK'
    BY SameDevices
  <1>4. Wiring' /\ Alone'
    BY <1>1, SameWires DEF DriversInv, Wiring, Alone, EarlyPoints
  <1>5. BringUp'
    <2>1. Counted' = Counted
      BY <1>1 DEF Counted
    <2>2. QED
      BY <1>1, <2>1, SameWires DEF DriversInv, BringUp, CpuUp
  <1>6. Dispatching'
    BY <1>1 DEF DriversInv, Dispatching, DispatchOK, LiveDevice
  <1>7. QED
    BY <1>2, <1>3, <1>4, <1>5, <1>6 DEF DriversInv

LEMMA IrqControllerInitOK == ASSUME DriversInv, IrqControllerInit PROVE DriversInv'
  <1>0. boot = "irqchip" /\ UNCHANGED <<res, claimed, table, spis>> /\ UNCHANGED platform
    BY DEF IrqControllerInit
  <1>1. CASE HasAfter("IRQCHIP", 0) /\ Start(DeviceAfter("IRQCHIP", 0), "gic")
    <2>1. PICK d \in DOMAIN list : d = DeviceAfter("IRQCHIP", 0) /\ list[d].class = "IRQCHIP"
      BY <1>1, AfterIsOfClass
    <2>2. ProbeAt(d, "gic")
      BY <1>0, <2>1 DEF DriversInv, DevicesOK, DeviceOK, ProbeAt, GicPoints, UartPoints,
                        MmioPoints, BlkPoints
    <2>3. QED
      BY <1>0, <1>1, <2>1, <2>2, StartOK
  <1>2. CASE probe = NoProbe /\ boot' = "panic" /\ UNCHANGED <<list, probe, skip>>
    BY <1>0, <1>2, NoneFoundOK DEF probed
  <1>3. CASE dmanager_ready_device /\ boot' = IF At("ok") THEN "console" ELSE "panic"
    BY <1>0, <1>3, ReadyOK DEF At
  <1>4. QED
    BY <1>1, <1>2, <1>3 DEF IrqControllerInit

LEMMA ConsoleProbeOK == ASSUME DriversInv, ConsoleProbe PROVE DriversInv'
  <1>0. boot = "console" /\ UNCHANGED <<res, claimed, table, spis>> /\ UNCHANGED platform
    BY DEF ConsoleProbe
  <1>1. CASE HasAfter("CONSOLE", 0) /\ Start(DeviceAfter("CONSOLE", 0), "uart")
    <2>1. PICK d \in DOMAIN list : d = DeviceAfter("CONSOLE", 0) /\ list[d].class = "CONSOLE"
      BY <1>1, AfterIsOfClass
    <2>2. ProbeAt(d, "uart")
      BY <1>0, <2>1 DEF DriversInv, DevicesOK, DeviceOK, ProbeAt, GicPoints, UartPoints,
                        MmioPoints, BlkPoints
    <2>3. QED
      BY <1>0, <1>1, <2>1, <2>2, StartOK
  <1>2. CASE probe = NoProbe /\ boot' = "timer" /\ UNCHANGED <<list, probe, skip>>
    BY <1>0, <1>2, NoneFoundOK DEF probed
  <1>3. CASE dmanager_ready_device /\ boot' = "timer"
    BY <1>0, <1>3, ReadyOK
  <1>4. QED
    BY <1>1, <1>2, <1>3 DEF ConsoleProbe

LEMMA VirtioInitOK == ASSUME DriversInv, VirtioInit PROVE DriversInv'
  <1>0. boot = "virtio" /\ UNCHANGED <<res, claimed, table, spis>> /\ UNCHANGED platform
    BY DEF VirtioInit
  <1>1. CASE HasAfter("VIRTIO_MMIO", skip) /\ Start(DeviceAfter("VIRTIO_MMIO", skip), "mmio")
    <2>1. PICK d \in DOMAIN list : /\ d = DeviceAfter("VIRTIO_MMIO", skip)
                                   /\ list[d].class = "VIRTIO_MMIO"
      BY <1>1, AfterIsOfClass
    <2>2. ProbeAt(d, "mmio")
      BY <1>0, <2>1 DEF DriversInv, DevicesOK, DeviceOK, ProbeAt, GicPoints, UartPoints,
                        MmioPoints, BlkPoints
    <2>3. QED
      BY <1>0, <1>1, <2>1, <2>2, StartOK
  <1>2. CASE probe = NoProbe /\ boot' = "wake" /\ UNCHANGED <<list, probe, skip>>
    BY <1>0, <1>2, NoneFoundOK DEF probed
  <1>3. CASE dmanager_ready_device /\ UNCHANGED boot
    BY <1>0, <1>3, ReadyOK
  <1>4. QED
    BY <1>1, <1>2, <1>3 DEF VirtioInit

LEMMA TimerInitOK == ASSUME DriversInv, TimerInit PROVE DriversInv'
  <1>0. /\ boot = "timer" /\ probe = NoProbe
        /\ UNCHANGED <<probe, res, claimed, skip, spis, online, raised, fired, disp>>
    BY DEF TimerInit, DriversInv, DriverTypes, ProbeOK, ProbeAt, ProbePoints
  <1>1. CASE /\ HasAfter("TIMER", 0) /\ boot' = "virtio"
             /\ list' = [list EXCEPT ![DeviceAfter("TIMER", 0)].state = "READY"]
             /\ table' = [table EXCEPT !["timer"] = [handler |-> "timer", data |-> DeviceAfter("TIMER", 0)]]
             /\ proc' = timer_cpu(BootCpu)
    <2>1. PICK d \in DOMAIN list : d = DeviceAfter("TIMER", 0) /\ list[d].class = "TIMER"
      BY <1>1, AfterIsOfClass
    <2>2. /\ list' = [list EXCEPT ![d].state = "READY"]
          /\ table' = [table EXCEPT !["timer"] = [handler |-> "timer", data |-> d]]
          /\ proc' = [proc EXCEPT ![BootCpu].timer = TRUE]
      BY <1>1, <2>1 DEF timer_cpu
    <2>3. /\ probe.dev = NoDevice /\ NoDevice \notin DOMAIN list
          /\ \A e \in DOMAIN list : DeviceOK(e) /\ Settled(e)
      BY <1>0 DEF DriversInv, DriverTypes, DevicesOK, DeviceOK, NoProbe
    <2>4. list[d].kind = "timer" /\ list[d].state # "READY" /\ HoldsExactly(d, {})
      BY <1>0, <2>1, <2>3 DEF DeviceOK, Settled
    <2>5. /\ list' \in [DOMAIN list -> [kind: Kinds, class: Classes, state: {"DISCOVERED", "READY"}]]
          /\ \A e \in DOMAIN list \ {d} : list'[e] = list[e]
          /\ list'[d].kind = list[d].kind /\ list'[d].class = list[d].class
          /\ list'[d].state = "READY"
      BY <2>2, StateChanges DEF DriversInv
    <2>6. DevicesOK'
      <3>1. ASSUME NEW e \in DOMAIN list PROVE DeviceOK(e)'
        <4>1. \A rs : HoldsExactly(e, rs) => HoldsExactly(e, rs)'
          BY <1>0 DEF HoldsExactly
        <4>2. CASE e = d
          <5>1. Needs(list'[d].kind) = {}
            BY <2>4, <2>5 DEF Needs
          <5>2. Settled(d)'
            BY <2>4, <2>5, <4>1, <4>2, <5>1 DEF Settled
          <5>3. QED
            BY <1>0, <1>1, <2>1, <2>3, <2>4, <2>5, <4>2, <5>2 DEF DeviceOK
        <4>3. CASE e # d
          <5>1. Settled(e)'
            BY <1>0, <1>1, <2>3, <2>5, <4>1, <4>3 DEF Settled, HoldsOneOf
          <5>2. QED
            BY <1>0, <1>1, <2>3, <2>5, <4>3, <5>1 DEF DeviceOK
        <4>4. QED
          BY <4>2, <4>3
      <3>2. QED
        BY <2>1, <2>5, <3>1 DEF DriversInv, DevicesOK
    <2>7. /\ DOMAIN table' = IrqLines /\ table' = [l \in IrqLines |-> table'[l]]
          /\ table'["timer"] = [handler |-> "timer", data |-> d]
          /\ \A l \in IrqLines \ {"timer"} : table'[l] = table[l]
      BY <2>2 DEF DriversInv, DriverTypes, IrqLines
    <2>8. /\ proc' \in [Processors -> [pc: CpuPoints, timer: BOOLEAN, tasks: BOOLEAN, masked: BOOLEAN]]
          /\ proc'[BootCpu].timer
          /\ \A c \in Processors : /\ proc'[c].pc = proc[c].pc /\ proc'[c].tasks = proc[c].tasks
                                   /\ proc'[c].masked = proc[c].masked /\ (proc[c].timer => proc'[c].timer)
      <3>1. BootCpu \in Processors
        BY DEF Processors
      <3>2. proc \in [Processors -> [pc: CpuPoints, timer: BOOLEAN, tasks: BOOLEAN, masked: BOOLEAN]]
        BY DEF DriversInv, DriverTypes
      <3>3. QED
        BY <2>2, <3>1, <3>2
    <2>9. DriverTypes' /\ ProbeOK'
      BY <1>0, <1>1, <2>5, <2>7, <2>8 DEF DriversInv, DriverTypes, ProbeOK, BootPoints
    <2>10. /\ \A e : LiveDevice(e) => LiveDevice(e)'
           /\ \A l : table'[l] = table[l] /\ Wired(l) => Wired(l)'
      BY <1>0, <2>5, WiresStay DEF NoProbe
    <2>11. Wired("timer")'
      BY <2>1, <2>5, <2>7 DEF Wired, LiveDevice
    <2>12. \A l \in spis : Wired(l)'
      BY <2>7, <2>10 DEF DriversInv, DriverTypes, Wiring, IrqLines
    <2>13. Wiring' /\ Alone'
      BY <1>0, <1>1, <2>8, <2>11, <2>12 DEF DriversInv, Wiring, Alone, EarlyPoints
    <2>14. BringUp'
      <3>1. Counted' = Counted
        BY <2>8 DEF Counted, Processors
      <3>2. QED
        BY <1>0, <1>1, <2>8, <2>11, <3>1 DEF DriversInv, BringUp, CpuUp
    <2>15. Dispatching'
      BY <1>0, <2>8, <2>10 DEF DriversInv, Dispatching, DispatchOK
    <2>16. QED
      BY <2>6, <2>9, <2>13, <2>14, <2>15 DEF DriversInv
  <1>2. CASE boot' = "panic" /\ UNCHANGED <<list, table, proc>>
    BY <1>0, <1>2, NoneFoundOK DEF probed, platform
  <1>3. QED
    BY <1>1, <1>2 DEF TimerInit

-----------------------------------------------------------------------------
(* Bring-up of the CPUs                                                    *)

\* A step of kernel_main or of a secondary CPU: nothing is probed, and a CPU
\* loses nothing it has.
LEMMA BringUpKeeps ==
    ASSUME DriversInv, UNCHANGED <<probed, raised, fired, disp>>, boot \notin EarlyPoints,
           boot' # boot => \/ boot' = "panic"
                           \/ /\ boot' \in {"wait", "managers", "scheduler"}
                              /\ boot \in {"wake", "wait", "managers"},
           proc' \in [Processors -> [pc: CpuPoints, timer: BOOLEAN, tasks: BOOLEAN, masked: BOOLEAN]],
           \A c \in Processors :
               (proc[c].timer => proc'[c].timer) /\ (proc'[c].masked => proc[c].masked),
           BringUp'
    PROVE  DriversInv'
  <1>1. UNCHANGED <<list, probe, res, claimed, table, spis>>
    BY DEF probed
  <1>2. DriverTypes'
    BY <1>1 DEF DriversInv, DriverTypes, BootPoints
  <1>3. ProbeOK' /\ DevicesOK'
    <2>1. probe = NoProbe
      BY DEF DriversInv, DriverTypes, ProbeOK, ProbeAt, ProbePoints, EarlyPoints
    <2>2. QED
      BY <2>1, SameDevices
  <1>4. \A l : Wired(l)' <=> Wired(l)
    BY <1>1 DEF Wired, LiveDevice
  <1>5. Wiring' /\ Alone'
    <2>1. BootCpu \in Processors
      BY DEF Processors
    <2>2. QED
      BY <1>1, <1>4, <2>1 DEF DriversInv, Wiring, Alone, EarlyPoints
  <1>6. Dispatching'
    <2>1. \A e : LiveDevice(e)' <=> LiveDevice(e)
      BY <1>1 DEF LiveDevice
    <2>2. proc \in [Processors -> [pc: CpuPoints, timer: BOOLEAN, tasks: BOOLEAN, masked: BOOLEAN]]
      BY DEF DriversInv, DriverTypes
    <2>3. QED
      BY <2>1, <2>2 DEF DriversInv, Dispatching, DispatchOK
  <1>7. QED
    BY <1>2, <1>3, <1>5, <1>6 DEF DriversInv

LEMMA BootStepOK ==
    ASSUME DriversInv, BootTasks \/ WaitForCpus \/ EnterScheduler
    PROVE  DriversInv'
  <1> USE DriversAssumption
  <1>0. /\ proc \in [Processors -> [pc: CpuPoints, timer: BOOLEAN, tasks: BOOLEAN, masked: BOOLEAN]]
        /\ BootCpu \in Processors /\ Secondaries \subseteq Processors /\ BootCpu \notin Secondaries
    BY DEF DriversInv, DriverTypes, Processors
  <1>1. CASE BootTasks
    <2>0. boot = "wake" /\ UNCHANGED <<probed, online, raised, fired, disp>>
      BY <1>1 DEF BootTasks
    <2>1. CASE boot' = "panic" /\ UNCHANGED proc
      <3>1. Counted' = Counted
        BY <2>1 DEF Counted
      <3>2. BringUp'
        BY <2>0, <2>1, <3>1, SameWires DEF DriversInv, BringUp, CpuUp
      <3>3. QED
        BY <1>0, <2>0, <2>1, <3>2, BringUpKeeps DEF BootPoints, EarlyPoints
    <2>2. CASE boot' = "wait" /\ proc' = [proc EXCEPT ![BootCpu].tasks = TRUE]
      <3>1. /\ proc' \in [Processors -> [pc: CpuPoints, timer: BOOLEAN, tasks: BOOLEAN, masked: BOOLEAN]]
            /\ proc'[BootCpu].tasks
            /\ \A c \in Processors : /\ proc'[c].pc = proc[c].pc /\ proc'[c].timer = proc[c].timer
                                     /\ proc'[c].masked = proc[c].masked /\ (proc[c].tasks => proc'[c].tasks)
        BY <1>0, <2>2
      <3>2. Counted' = Counted
        BY <1>0, <3>1 DEF Counted
      <3>3. BringUp'
        BY <2>0, <2>2, <3>1, <3>2, SameWires DEF DriversInv, BringUp, CpuUp
      <3>4. QED
        BY <2>0, <2>2, <3>1, <3>3, BringUpKeeps DEF BootPoints, EarlyPoints
    <2>3. QED
      BY <1>1, <2>1, <2>2 DEF BootTasks
  <1>2. CASE WaitForCpus
    <2>0. /\ boot = "wait" /\ online = Cardinality(Processors) /\ boot' = "managers"
          /\ UNCHANGED <<probed, proc, online, raised, fired, disp>>
      BY <1>2 DEF WaitForCpus, platform
    <2>1. Counted' = Counted
      BY <2>0 DEF Counted
    <2>2. Counted = Secondaries
      <3>1. Cardinality(Processors) = Cardinality(Secondaries) + 1
        BY <1>0, FS_AddElement DEF Processors
      <3>2. Counted \subseteq Secondaries /\ Cardinality(Counted) \in Nat /\ Cardinality(Secondaries) \in Nat
        BY FS_Subset, FS_CardinalityType DEF Counted
      <3>3. Cardinality(Counted) = Cardinality(Secondaries)
        BY <2>0, <3>1, <3>2 DEF DriversInv, BringUp
      <3>4. QED
        BY <3>2, <3>3, FS_Subset
    <2>3. BringUp'
      BY <2>0, <2>1, <2>2, SameWires DEF DriversInv, BringUp, CpuUp
    <2>4. QED
      BY <1>0, <2>0, <2>3, BringUpKeeps DEF BootPoints, EarlyPoints
  <1>3. CASE EnterScheduler
    <2>0. /\ boot = "managers" /\ boot' = "scheduler" /\ proc' = [proc EXCEPT ![BootCpu].masked = FALSE]
          /\ UNCHANGED <<probed, online, raised, fired, disp>>
      BY <1>3 DEF EnterScheduler
    <2>1. /\ proc' \in [Processors -> [pc: CpuPoints, timer: BOOLEAN, tasks: BOOLEAN, masked: BOOLEAN]]
          /\ \A c \in Processors : /\ proc'[c].pc = proc[c].pc /\ proc'[c].timer = proc[c].timer
                                   /\ proc'[c].tasks = proc[c].tasks
                                   /\ (c # BootCpu => proc'[c].masked = proc[c].masked)
                                   /\ (proc'[c].masked => proc[c].masked)
      BY <1>0, <2>0
    <2>2. Counted' = Counted
      BY <1>0, <2>1 DEF Counted
    <2>3. proc[BootCpu].tasks
      BY <2>0 DEF DriversInv, BringUp
    <2>4. BringUp'
      BY <1>0, <2>0, <2>1, <2>2, <2>3, SameWires DEF DriversInv, BringUp, CpuUp
    <2>5. QED
      BY <2>0, <2>1, <2>4, BringUpKeeps DEF BootPoints, EarlyPoints
  <1>4. QED
    BY <1>1, <1>2, <1>3

LEMMA SecondaryStepOK ==
    ASSUME DriversInv, NEW c \in Secondaries, WakeSecondary(c) \/ init_secondary_cpu(c)
    PROVE  DriversInv'
  <1> USE DriversAssumption
  <1>0. /\ proc \in [Processors -> [pc: CpuPoints, timer: BOOLEAN, tasks: BOOLEAN, masked: BOOLEAN]]
        /\ BootCpu \in Processors /\ Secondaries \subseteq Processors /\ BootCpu \notin Secondaries
        /\ UNCHANGED <<probed, raised, fired, disp>> /\ boot \in BootPoints
        /\ boot \notin EarlyPoints
    BY DEF DriversInv, DriverTypes, Alone, EarlyPoints, Processors, WakeSecondary, init_secondary_cpu
  <1>1. CpuUp(c)
    BY <1>0 DEF DriversInv, BringUp
  <1>2. ASSUME NEW r \in [pc: CpuPoints, timer: BOOLEAN, tasks: BOOLEAN, masked: BOOLEAN],
               proc' = [proc EXCEPT ![c] = r], UNCHANGED boot,
               r.pc = "yield" <=> proc[c].pc = "yield", UNCHANGED online,
               proc[c].timer => r.timer, r.masked => proc[c].masked,
               r.timer \/ r.pc # "off" => Wired("timer"),
               r.pc \in {"tasks", "unmask", "count", "yield"} => r.timer,
               r.pc \in {"unmask", "count", "yield"} => r.tasks, ~r.masked => r.tasks
        PROVE  DriversInv'
    <2>1. /\ proc' \in [Processors -> [pc: CpuPoints, timer: BOOLEAN, tasks: BOOLEAN, masked: BOOLEAN]]
          /\ proc'[c] = r /\ \A o \in Processors \ {c} : proc'[o] = proc[o]
      BY <1>0, <1>2
    <2>2. Counted' = Counted
      BY <1>0, <1>2, <2>1 DEF Counted
    <2>3. BringUp'
      <3>1. ASSUME NEW o \in Processors PROVE CpuUp(o)'
        BY <1>0, <1>2, <2>1, SameWires DEF DriversInv, BringUp, CpuUp
      <3>2. QED
        BY <1>0, <1>2, <2>1, <2>2, <3>1 DEF DriversInv, BringUp
    <2>4. QED
      BY <1>0, <1>2, <2>1, <2>3, BringUpKeeps
  <1>3. CASE WakeSecondary(c)
    <2>1. /\ boot = "wake" /\ proc[c].pc = "off" /\ UNCHANGED <<boot, online>>
          /\ proc' = [proc EXCEPT ![c] = [proc[c] EXCEPT !.pc = "entry"]]
      BY <1>3 DEF WakeSecondary
    <2>2. Wired("timer")
      BY <2>1 DEF DriversInv, Wiring
    <2>3. /\ [proc[c] EXCEPT !.pc = "entry"] \in [pc: CpuPoints, timer: BOOLEAN, tasks: BOOLEAN, masked: BOOLEAN]
          /\ [proc[c] EXCEPT !.pc = "entry"].pc = "entry"
          /\ [proc[c] EXCEPT !.pc = "entry"].timer = proc[c].timer
          /\ [proc[c] EXCEPT !.pc = "entry"].tasks = proc[c].tasks
          /\ [proc[c] EXCEPT !.pc = "entry"].masked = proc[c].masked
      BY <1>0 DEF CpuPoints
    <2>4. QED
      BY <1>1, <1>2, <2>1, <2>2, <2>3 DEF CpuUp
  <1>4. CASE init_secondary_cpu(c) /\ proc[c].pc = "entry"
    <2>1. UNCHANGED <<boot, online>> /\ proc' = [proc EXCEPT ![c] = [proc[c] EXCEPT !.timer = TRUE, !.pc = "tasks"]]
      BY <1>0, <1>4 DEF init_secondary_cpu, timer_cpu
    <2>2. PICK r \in [pc: CpuPoints, timer: BOOLEAN, tasks: BOOLEAN, masked: BOOLEAN] :
            /\ proc' = [proc EXCEPT ![c] = r]
            /\ r.pc = "tasks" /\ r.timer /\ r.tasks = proc[c].tasks /\ r.masked = proc[c].masked
      <3>1. PICK r : r = [proc[c] EXCEPT !.timer = TRUE, !.pc = "tasks"]
        OBVIOUS
      <3>2. /\ r \in [pc: CpuPoints, timer: BOOLEAN, tasks: BOOLEAN, masked: BOOLEAN]
            /\ r.pc = "tasks" /\ r.timer /\ r.tasks = proc[c].tasks /\ r.masked = proc[c].masked
        BY <1>0, <3>1 DEF CpuPoints
      <3>3. QED
        BY <2>1, <3>1, <3>2
    <2>3. QED
      BY <1>1, <1>2, <1>4, <2>1, <2>2 DEF CpuUp
  <1>5. CASE init_secondary_cpu(c) /\ proc[c].pc = "tasks"
    <2>0. UNCHANGED online
      BY <1>5 DEF init_secondary_cpu
    <2>1. CASE proc' = [proc EXCEPT ![c].pc = "unmask", ![c].tasks = TRUE] /\ UNCHANGED boot
      <3>1. PICK r \in [pc: CpuPoints, timer: BOOLEAN, tasks: BOOLEAN, masked: BOOLEAN] :
              /\ proc' = [proc EXCEPT ![c] = r]
              /\ r.pc = "unmask" /\ r.timer = proc[c].timer /\ r.tasks /\ r.masked = proc[c].masked
        <4>1. proc' = [proc EXCEPT ![c] = [proc[c] EXCEPT !.pc = "unmask", !.tasks = TRUE]]
          BY <1>0, <2>1
        <4>2. PICK r : r = [proc[c] EXCEPT !.pc = "unmask", !.tasks = TRUE]
          OBVIOUS
        <4>3. /\ r \in [pc: CpuPoints, timer: BOOLEAN, tasks: BOOLEAN, masked: BOOLEAN]
              /\ r.pc = "unmask" /\ r.timer = proc[c].timer /\ r.tasks /\ r.masked = proc[c].masked
          BY <1>0, <4>2 DEF CpuPoints
        <4>4. QED
          BY <4>1, <4>2, <4>3
      <3>2. QED
        BY <1>1, <1>2, <1>5, <2>0, <2>1, <3>1 DEF CpuUp
    <2>2. CASE boot' = "panic" /\ UNCHANGED proc
      <3>1. Counted' = Counted
        BY <2>2 DEF Counted
      <3>2. BringUp'
        BY <1>0, <2>0, <2>2, <3>1, SameWires DEF DriversInv, BringUp, CpuUp
      <3>3. QED
        BY <1>0, <2>2, <3>2, BringUpKeeps
    <2>3. QED
      BY <1>5, <2>1, <2>2 DEF init_secondary_cpu
  <1>6. CASE init_secondary_cpu(c) /\ proc[c].pc = "unmask"
    <2>1. UNCHANGED <<boot, online>> /\ proc' = [proc EXCEPT ![c] = [proc[c] EXCEPT !.pc = "count", !.masked = FALSE]]
      BY <1>0, <1>6 DEF init_secondary_cpu
    <2>2. PICK r \in [pc: CpuPoints, timer: BOOLEAN, tasks: BOOLEAN, masked: BOOLEAN] :
            /\ proc' = [proc EXCEPT ![c] = r]
            /\ r.pc = "count" /\ r.timer = proc[c].timer /\ r.tasks = proc[c].tasks /\ ~r.masked
      <3>1. PICK r : r = [proc[c] EXCEPT !.pc = "count", !.masked = FALSE]
        OBVIOUS
      <3>2. /\ r \in [pc: CpuPoints, timer: BOOLEAN, tasks: BOOLEAN, masked: BOOLEAN]
            /\ r.pc = "count" /\ r.timer = proc[c].timer /\ r.tasks = proc[c].tasks /\ ~r.masked
        BY <1>0, <3>1 DEF CpuPoints
      <3>3. QED
        BY <2>1, <3>1, <3>2
    <2>3. QED
      BY <1>1, <1>2, <1>6, <2>1, <2>2 DEF CpuUp
  <1>7. CASE init_secondary_cpu(c) /\ proc[c].pc = "count"
    <2>1. UNCHANGED boot /\ online' = online + 1 /\ proc' = [proc EXCEPT ![c] = [proc[c] EXCEPT !.pc = "yield"]]
      BY <1>0, <1>7 DEF init_secondary_cpu
    <2>2. PICK r \in [pc: CpuPoints, timer: BOOLEAN, tasks: BOOLEAN, masked: BOOLEAN] :
            /\ proc' = [proc EXCEPT ![c] = r]
            /\ r.pc = "yield" /\ r.timer = proc[c].timer /\ r.tasks = proc[c].tasks /\ r.masked = proc[c].masked
      <3>1. PICK r : r = [proc[c] EXCEPT !.pc = "yield"]
        OBVIOUS
      <3>2. /\ r \in [pc: CpuPoints, timer: BOOLEAN, tasks: BOOLEAN, masked: BOOLEAN]
            /\ r.pc = "yield" /\ r.timer = proc[c].timer /\ r.tasks = proc[c].tasks /\ r.masked = proc[c].masked
        BY <1>0, <3>1 DEF CpuPoints
      <3>3. QED
        BY <2>1, <3>1, <3>2
    <2>3. /\ proc' \in [Processors -> [pc: CpuPoints, timer: BOOLEAN, tasks: BOOLEAN, masked: BOOLEAN]]
          /\ proc'[c] = r /\ \A o \in Processors \ {c} : proc'[o] = proc[o]
      BY <1>0, <2>2
    <2>4. Counted' = Counted \cup {c} /\ c \notin Counted
      BY <1>0, <1>7, <2>2, <2>3 DEF Counted
    <2>5. IsFiniteSet(Counted)
      BY FS_Subset DEF Counted
    <2>6. Cardinality(Counted') = Cardinality(Counted) + 1 /\ Cardinality(Counted) \in Nat
      BY <2>4, <2>5, FS_AddElement, FS_CardinalityType
    <2>7. BringUp'
      <3>1. ASSUME NEW o \in Processors PROVE CpuUp(o)'
        BY <1>0, <1>1, <1>7, <2>2, <2>3, SameWires DEF DriversInv, BringUp, CpuUp
      <3>2. online' = 1 + Cardinality(Counted')
        BY <2>1, <2>6 DEF DriversInv, BringUp
      <3>3. boot' \in {"managers", "scheduler"} => Counted' = Secondaries
        BY <2>1, <2>4 DEF DriversInv, BringUp, Counted
      <3>4. boot' \in {"wait", "managers", "scheduler"} => proc'[BootCpu].tasks
        BY <1>0, <2>1, <2>3 DEF DriversInv, BringUp
      <3>5. QED
        BY <3>1, <3>2, <3>3, <3>4 DEF BringUp
    <2>8. QED
      BY <1>0, <2>1, <2>2, <2>3, <2>7, BringUpKeeps
  <1>8. QED
    BY <1>3, <1>4, <1>5, <1>6, <1>7 DEF init_secondary_cpu

-----------------------------------------------------------------------------
(* Interrupts                                                              *)

\* A step that changes neither devices nor CPUs.
LEMMA IrqKeeps ==
    ASSUME DriversInv, UNCHANGED <<boot, probed, proc, online>>, raised' \subseteq spis,
           disp' = [c \in Processors |-> disp'[c]],
           \A c \in Processors : disp'[c].pc \in {"idle", "entered", "call", "eoi"},
           Dispatching'
    PROVE  DriversInv'
  <1>1. UNCHANGED <<list, probe, res, claimed, table, spis>>
    BY DEF probed
  <1>2. DriverTypes'
    BY <1>1 DEF DriversInv, DriverTypes
  <1>3. ProbeOK' /\ DevicesOK'
    BY SameDevices
  <1>4. Wiring' /\ Alone'
    BY <1>1, SameWires DEF DriversInv, Wiring, Alone
  <1>5. BringUp'
    <2>1. Counted' = Counted
      BY DEF Counted
    <2>2. QED
      BY <2>1, SameWires DEF DriversInv, BringUp, CpuUp
  <1>6. QED
    BY <1>2, <1>3, <1>4, <1>5 DEF DriversInv

\* One dispatcher moves on.
LEMMA DispatchKeeps ==
    ASSUME DriversInv, UNCHANGED <<boot, probed, proc, online>>, raised' \subseteq spis, fired' \subseteq fired,
           NEW c \in Processors, NEW r, disp' = [disp EXCEPT ![c] = r],
           r.pc \in {"idle", "entered", "call", "eoi"},
           ~proc[c].masked, r.pc \in {"idle", "entered"} => r.irq = Spurious,
           r.pc \in {"call", "eoi"} => r.handler = r.irq /\ r.irq \in IrqLines /\ LiveDevice(r.data),
           r.irq \in {"uart", "block"} => \A o \in Processors \ {c} : disp[o].irq # r.irq
    PROVE  DriversInv'
  <1>1. /\ disp' = [o \in Processors |-> disp'[o]] /\ disp'[c] = r
        /\ \A o \in Processors \ {c} : disp'[o] = disp[o]
    BY DEF DriversInv, DriverTypes
  <1>2. \A o \in Processors : disp'[o].pc \in {"idle", "entered", "call", "eoi"}
    BY <1>1 DEF DriversInv, DriverTypes
  <1>3. \A d : LiveDevice(d)' <=> LiveDevice(d)
    BY DEF probed, LiveDevice
  <1>4. Dispatching'
    <2>1. ASSUME NEW o \in Processors PROVE DispatchOK(o)'
      <3>1. CASE o = c
        BY <1>1, <1>3, <3>1 DEF DispatchOK
      <3>2. CASE o # c
        BY <1>1, <1>3, <3>2 DEF DriversInv, Dispatching, DispatchOK
      <3>3. QED
        BY <3>1, <3>2
    <2>2. ASSUME NEW o \in Processors, NEW p \in Processors, disp'[o].irq = disp'[p].irq,
                 disp'[o].irq \in {"uart", "block"}
          PROVE  o = p
      BY <1>1, <2>2 DEF DriversInv, Dispatching
    <2>3. fired' \subseteq {o \in Processors : proc'[o].timer}
      BY DEF DriversInv, Dispatching
    <2>4. QED
      BY <2>1, <2>2, <2>3 DEF Dispatching
  <1>5. QED
    BY <1>1, <1>2, <1>4, IrqKeeps

LEMMA InterruptStepOK ==
    ASSUME DriversInv, NEW c \in Processors, TakeInterrupt(c) \/ Acknowledge(c) \/ CallHandler(c) \/ SignalEoi(c)
    PROVE  DriversInv'
  <1>0. /\ DispatchOK(c) /\ raised \subseteq spis /\ spis \subseteq {"uart", "block"}
        /\ CpuUp(c)
    BY DEF DriversInv, DriverTypes, Dispatching, BringUp
  <1>1. CASE TakeInterrupt(c)
    <2>1. PICK r : r = [Idle EXCEPT !.pc = "entered"]
      OBVIOUS
    <2>2. r.pc = "entered" /\ r.irq = Spurious
      BY <2>1 DEF Idle
    <2>3. /\ disp' = [disp EXCEPT ![c] = r] /\ ~proc[c].masked
          /\ UNCHANGED <<boot, probed, proc, online>> /\ UNCHANGED raised /\ UNCHANGED fired
      BY <1>1, <2>1 DEF TakeInterrupt
    <2>4. QED
      BY <1>0, <2>2, <2>3, DispatchKeeps DEF Spurious
  <1>2. ASSUME disp[c].pc # "idle", disp' = [disp EXCEPT ![c] = Idle],
               UNCHANGED <<boot, probed, proc, online>>, UNCHANGED <<raised, fired>>
        PROVE  DriversInv'
    <2>1. PICK r : r = Idle
      OBVIOUS
    <2>2. ~proc[c].masked /\ r.pc = "idle" /\ r.irq = Spurious
      BY <1>0, <1>2, <2>1 DEF DispatchOK, Idle
    <2>3. QED
      BY <1>0, <1>2, <2>1, <2>2, DispatchKeeps DEF Spurious
  <1>3. CASE SignalEoi(c)
    BY <1>2, <1>3 DEF SignalEoi
  <1>4. CASE CallHandler(c)
    <2>1. PICK r : r = [disp[c] EXCEPT !.pc = "eoi"]
      OBVIOUS
    <2>2. /\ disp[c].pc = "call" /\ UNCHANGED <<boot, probed, proc, online>>
          /\ raised' = raised \ {disp[c].irq} /\ fired' \subseteq fired
          /\ disp' = [disp EXCEPT ![c] = r]
      BY <1>4, <2>1 DEF CallHandler
    <2>3. r.pc = "eoi" /\ r.irq = disp[c].irq /\ r.handler = disp[c].handler /\ r.data = disp[c].data
      BY <2>1
    <2>4. r.irq \in {"uart", "block"} => \A o \in Processors \ {c} : disp[o].irq # r.irq
      BY <2>3 DEF DriversInv, Dispatching
    <2>5. QED
      BY <1>0, <2>2, <2>3, <2>4, DispatchKeeps DEF DispatchOK
  <1>5. CASE Acknowledge(c)
    <2>0. disp[c].pc = "entered" /\ UNCHANGED <<boot, probed, proc, online>> /\ UNCHANGED <<raised, fired>>
      BY <1>5 DEF Acknowledge
    <2>1. CASE disp' = [disp EXCEPT ![c] = Idle]
      BY <1>2, <2>0, <2>1
    <2>2. ASSUME NEW l \in Waiting(c),
                 disp' = [disp EXCEPT ![c] = [pc |-> "call", irq |-> l,
                            handler |-> table[l].handler, data |-> table[l].data]]
          PROVE  DriversInv'
      <3>0. probe = NoProbe
        BY <1>0, <2>0 DEF DispatchOK, DriversInv, DriverTypes, Alone, ProbeOK, ProbeAt, ProbePoints,
                          EarlyPoints
      <3>1. Wired(l) /\ l \in IrqLines
        <4>1. CASE l \in raised
          BY <1>0, <4>1 DEF DriversInv, Wiring, IrqLines
        <4>2. CASE l = "timer" /\ c \in fired
          BY <1>0, <4>2 DEF DriversInv, Dispatching, CpuUp, IrqLines
        <4>3. QED
          BY <2>2, <4>1, <4>2 DEF Waiting
      <3>2. l \in {"uart", "block"} => \A o \in Processors \ {c} : disp[o].irq # l
        <4>1. ASSUME l \in {"uart", "block"}, NEW o \in Processors, disp[o].irq = l PROVE FALSE
          <5>1. l \in raised /\ ~Active(l)
            BY <2>2, <4>1 DEF Waiting
          <5>2. disp[o].pc = "idle"
            BY <4>1, <5>1 DEF Active
          <5>3. disp[o].irq = Spurious
            BY <5>2 DEF DriversInv, Dispatching, DispatchOK
          <5>4. QED
            BY <4>1, <5>3 DEF Spurious
        <4>2. QED
          BY <4>1
      <3>3. PICK r : r = [pc |-> "call", irq |-> l, handler |-> table[l].handler, data |-> table[l].data]
        OBVIOUS
      <3>4. r.pc = "call" /\ r.irq = l /\ r.handler = l /\ LiveDevice(r.data)
        BY <3>0, <3>1, <3>3 DEF Wired, NoProbe
      <3>5. ~proc[c].masked
        BY <1>0, <2>0 DEF DispatchOK
      <3>6. disp' = [disp EXCEPT ![c] = r]
        BY <2>2, <3>3
      <3>7. QED
        BY <1>0, <2>0, <3>1, <3>2, <3>4, <3>5, <3>6, DispatchKeeps
    <2>3. QED
      BY <1>5, <2>1, <2>2 DEF Acknowledge
  <1>6. QED
    BY <1>1, <1>3, <1>4, <1>5

LEMMA LineStepOK ==
    ASSUME DriversInv, (\E l \in {"uart", "block"} : Raise(l)) \/ (\E c \in Processors : Fire(c))
    PROVE  DriversInv'
  <1>1. UNCHANGED <<boot, probed, proc, online>> /\ UNCHANGED disp
    BY DEF Raise, Fire
  <1>2. raised' \subseteq spis /\ fired' \subseteq {c \in Processors : proc[c].timer}
    BY DEF DriversInv, DriverTypes, Dispatching, Raise, Fire
  <1>3. \A d : LiveDevice(d)' <=> LiveDevice(d)
    BY <1>1 DEF probed, LiveDevice
  <1>4. Dispatching'
    BY <1>1, <1>2, <1>3 DEF DriversInv, Dispatching, DispatchOK
  <1>5. QED
    BY <1>1, <1>2, <1>4, IrqKeeps DEF DriversInv, DriverTypes

LEMMA NextDriversInv == DriversInv /\ [DriversNext]_driverVars => DriversInv'
  <1> SUFFICES ASSUME DriversInv, [DriversNext]_driverVars PROVE DriversInv'
    OBVIOUS
  <1>1. CASE UNCHANGED driverVars
    <2>1. UNCHANGED <<boot, probed, proc, online, raised, fired, disp>>
      BY <1>1 DEF driverVars, probed
    <2>2. \A d : LiveDevice(d)' <=> LiveDevice(d)
      BY <2>1 DEF probed, LiveDevice
    <2>3. Dispatching'
      BY <2>1, <2>2 DEF DriversInv, Dispatching, DispatchOK
    <2>4. QED
      BY <2>1, <2>3, IrqKeeps DEF DriversInv, DriverTypes
  <1>2. CASE DriversNext
    BY <1>2, IrqControllerInitOK, ConsoleProbeOK, TimerInitOK, VirtioInitOK, GicProbeOK,
       UartProbeOK, MmioProbeOK, BlkProbeOK, BootStepOK, SecondaryStepOK, LineStepOK,
       InterruptStepOK DEF DriversNext
  <1>3. QED
    BY <1>1, <1>2

(* The invariant holds in every state of probing, bring-up and dispatch.   *)
THEOREM DriversIsInv == DriversSpec => []DriversInv
  BY InitDriversInv, NextDriversInv, PTL DEF DriversSpec

\* The set of what a device holds.
LEMMA ExactHolds ==
    ASSUME NEW d, NEW rs \in SUBSET Resources, HoldsExactly(d, rs)
    PROVE  Holds(d) = rs /\ \A r \in Resources : res[d][r] \in {0, 1}
  BY DEF HoldsExactly, Holds

\* What a device may hold is made of resources.
LEMMA OnlyResources ==
    /\ \A kind : Needs(kind) \in SUBSET Resources
    /\ \A pc : Held(pc) \in SUBSET Resources
    /\ \A class, rs : rs \in Rest(class) => rs \in SUBSET Resources
    /\ \A rs \in Leaks : rs \cup {"registers"} \in SUBSET Resources
  BY DEF Needs, Held, Rest, Leaks, Resources

(* For every device tree, with any number of devices of a kind, and        *)
(* whichever call of a probe fails: nothing is taken twice or given back   *)
(* twice, a READY device holds what its remove function gives back, and a  *)
(* failed one no mapping; memory is lost by one block device at most.      *)
THEOREM ResourcesStayBalanced == DriversSpec => []ResourcesBalanced
  <1>1. ASSUME DriversInv PROVE ResourcesBalanced
    <2>0. \A d \in DOMAIN list : DeviceOK(d)
      BY <1>1 DEF DriversInv, DevicesOK
    <2>1. ASSUME NEW d \in DOMAIN list PROVE \A r \in Resources : res[d][r] \in {0, 1}
      <3>1. CASE d = probe.dev
        <4>1. ProbeHolds(d, probe.pc)
          BY <1>1, <2>1, <3>1 DEF DriversInv, DriverTypes, ProbeOK, NoProbe
        <4>2. \E rs \in SUBSET Resources : HoldsExactly(d, rs)
          BY <4>1, OnlyResources DEF ProbeHolds, HoldsOneOf
        <4>3. QED
          BY <4>2, ExactHolds
      <3>2. CASE d # probe.dev
        <4>1. Settled(d)
          BY <2>0, <3>2 DEF DeviceOK
        <4>2. {} \in SUBSET Resources
          OBVIOUS
        <4>3. \E rs \in SUBSET Resources : HoldsExactly(d, rs)
          BY <4>1, <4>2, OnlyResources DEF Settled, HoldsOneOf
        <4>4. QED
          BY <4>3, ExactHolds
      <3>3. QED
        BY <3>1, <3>2
    <2>2. ASSUME NEW d \in DOMAIN list, list[d].state = "READY" PROVE Holds(d) = Needs(list[d].kind)
      <3>1. d # probe.dev
        BY <1>1, <2>2 DEF DriversInv, DriverTypes, ProbeOK, ProbeAt, NoProbe
      <3>2. HoldsExactly(d, Needs(list[d].kind))
        BY <2>0, <2>2, <3>1 DEF DeviceOK, Settled
      <3>3. QED
        BY <3>2, ExactHolds, OnlyResources
    <2>3. ASSUME boot # "panic", NEW d \in Lossy
          PROVE  /\ Holds(d) \cap {"distributor", "cpu interface", "registers"} = {}
                 /\ list[d].class = "BLOCK"
      <3>1. d \in DOMAIN list /\ Settled(d) /\ list[d].state # "READY" /\ Holds(d) # {}
        BY <2>0 DEF Lossy, DeviceOK
      <3>2. list[d].class = "BLOCK"
        <4>1. ~HoldsExactly(d, {})
          BY <3>1, ExactHolds
        <4>2. QED
          BY <2>3, <3>1, <4>1 DEF Settled
      <3>3. PICK rs \in Leaks : HoldsExactly(d, rs)
        BY <2>3, <3>1, <3>2 DEF Settled, HoldsOneOf, Rest
      <3>4. rs \in SUBSET Resources
        BY DEF Leaks, Resources
      <3>5. Holds(d) = rs
        BY <3>3, <3>4, ExactHolds
      <3>6. QED
        BY <3>2, <3>5 DEF Leaks
    <2>4. ASSUME boot # "panic", NEW d \in Lossy, NEW e \in Lossy PROVE d = e
      <3>1. list[d].class = "BLOCK" /\ list[e].class = "BLOCK" /\ d \in DOMAIN list /\ e \in DOMAIN list
        BY <2>3, <2>4 DEF Lossy
      <3>2. QED
        BY <1>1, <3>1 DEF DriversInv, DevicesOK
    <2>5. QED
      BY <2>1, <2>2, <2>3, <2>4 DEF ResourcesBalanced
  <1>2. QED
    BY <1>1, DriversIsInv, PTL

(* For every device tree and every number of CPUs: the dispatcher calls no *)
(* handler of a device that is not set up, runs no tick on a CPU without   *)
(* queues and no shared line on two CPUs, and kernel_main passes the       *)
(* barrier only when every CPU has its timer and tasks.                    *)
THEOREM BootStaysOrdered == DriversSpec => []NothingRunsEarly
  <1>1. ASSUME DriversInv PROVE HandlersAreLive
    <2> SUFFICES ASSUME NEW c \in Processors, disp[c].pc = "call"
                 PROVE  /\ disp[c].handler = disp[c].irq /\ disp[c].data \in DOMAIN list
                        /\ list[disp[c].data].state = "READY"
                        /\ Holds(disp[c].data) = Needs(list[disp[c].data].kind)
                        /\ disp[c].irq = "timer" => proc[c].tasks
                        /\ \A o \in Processors \ {c}: disp[o].irq = disp[c].irq => disp[c].irq = "timer"
      BY DEF HandlersAreLive
    <2>1. /\ disp[c].handler = disp[c].irq /\ disp[c].irq \in IrqLines /\ LiveDevice(disp[c].data)
          /\ ~proc[c].masked
      BY <1>1 DEF DriversInv, Dispatching, DispatchOK
    <2>2. disp[c].data \in DOMAIN list /\ list[disp[c].data].state = "READY"
      BY <2>1 DEF LiveDevice
    <2>3. Holds(disp[c].data) = Needs(list[disp[c].data].kind)
      <3>1. disp[c].data # probe.dev
        BY <1>1, <2>2 DEF DriversInv, DriverTypes, ProbeOK, ProbeAt, NoProbe
      <3>2. HoldsExactly(disp[c].data, Needs(list[disp[c].data].kind))
        BY <1>1, <2>2, <3>1 DEF DriversInv, DevicesOK, DeviceOK, Settled
      <3>3. QED
        BY <3>2, ExactHolds, OnlyResources
    <2>4. proc[c].tasks
      BY <1>1, <2>1 DEF DriversInv, BringUp, CpuUp
    <2>5. \A o \in Processors \ {c}: disp[o].irq = disp[c].irq => disp[c].irq = "timer"
      BY <1>1, <2>1 DEF DriversInv, Dispatching, IrqLines
    <2>6. QED
      BY <2>1, <2>2, <2>3, <2>4, <2>5
  <1>2. ASSUME DriversInv PROVE BootWaitsForAll
    <2>1. ASSUME boot \in {"managers", "scheduler"}, NEW c \in Processors
          PROVE  proc[c].timer /\ proc[c].tasks
      <3>1. CASE c = BootCpu
        BY <1>2, <2>1, <3>1 DEF DriversInv, Wiring, BringUp
      <3>2. CASE c \in Secondaries
        BY <1>2, <2>1, <3>2 DEF DriversInv, BringUp, CpuUp, Counted
      <3>3. QED
        BY <3>1, <3>2 DEF Processors
    <2>2. QED
      BY <1>2, <2>1 DEF DriversInv, DevicesOK, BootWaitsForAll
  <1>3. QED
    BY <1>1, <1>2, DriversIsInv, PTL DEF NothingRunsEarly

-----------------------------------------------------------------------------
(* The console                                                             *)

Message == Seq(Nat)

ConsoleType(c) ==
    c \in [backends: Seq(Backends), events: Seq([at: Nat, len: Nat]), used: Nat,
           mem: [0 .. MsgCap - 1 -> Nat], buffering: BOOLEAN,
           out: [Backends -> Seq(Message)], dead: BOOLEAN]

\* The arenas of c hold the last messages of h, each behind the ones before it.
ArenaOK(c, h) ==
    /\ c.used <= MsgCap /\ (c.events = <<>> => c.used = 0) /\ Len(c.events) <= Len(h)
    /\ \A k \in 1 .. Len(c.events) :
        /\ c.events[k].at + c.events[k].len <= c.used
        /\ Printed(c, c.events[k]) = h[Len(h) - Len(c.events) + k]

\* A backend of c has printed the messages of h from its first one to the arena.
BackendOK(c, h, b, from) ==
    /\ from + Len(c.out[b]) + Len(c.events) = Len(h)
    /\ \A i \in 1 .. Len(c.out[b]) : c.out[b][i] = h[from + i]

\* Why c may have panicked.
PanicOK(c, h) == (\E i \in DOMAIN h : Len(h[i]) > MsgCap) \/ (~c.buffering /\ c.events # <<>>)

\* c after the messages of h, for backends that have joined as st says.
OutputOK(c, h, st) ==
    /\ ConsoleType(c)
    /\ c.dead => PanicOK(c, h)
    /\ ~c.dead => ArenaOK(c, h) /\ \A i \in 1 .. Len(c.backends) :
                                     BackendOK(c, h, c.backends[i], st[c.backends[i]])

\* The loop of console_write_multiple, as far as its callers go.
LEMMA WriteMany ==
    ASSUME NEW c, NEW lens, Len(lens) \in 1 .. 3
    PROVE  \E a1, a2, a3 :
             /\ a1 = _console_write(c, Len(hist) + 1, lens[1])
             /\ a2 = _console_write(a1, Len(hist) + 2, lens[2])
             /\ a3 = _console_write(a2, Len(hist) + 3, lens[3])
             /\ Len(lens) = 1 => console_write_multiple(c, lens) = a1
             /\ Len(lens) = 2 => console_write_multiple(c, lens) = a2
             /\ Len(lens) = 3 => console_write_multiple(c, lens) = a3
  <1>1. PICK a1, a2, a3 :
             /\ a1 = _console_write(c, Len(hist) + 1, lens[1])
             /\ a2 = _console_write(a1, Len(hist) + 2, lens[2])
             /\ a3 = _console_write(a2, Len(hist) + 3, lens[3])
    OBVIOUS
  <1> DEFINE Def(f) == [k \in 0 .. Len(lens) |->
                          IF k = 0 THEN c ELSE _console_write(f[k - 1], Len(hist) + k, lens[k])]
             g == [k \in 0 .. Len(lens) |-> IF k = 0 THEN c ELSE IF k = 1 THEN a1 ELSE IF k = 2 THEN a2 ELSE a3]
             f == CHOOSE x : x = Def(x)
  <1>2. g = Def(g)
    <2>1. ASSUME NEW k \in 0 .. Len(lens)
          PROVE  g[k] = IF k = 0 THEN c ELSE _console_write(g[k - 1], Len(hist) + k, lens[k])
      <3>1. k \in {0, 1, 2, 3} /\ (k # 0 => k - 1 \in 0 .. Len(lens))
        <4>1. PICK n \in 1 .. 3 : n = Len(lens)
          OBVIOUS
        <4>2. k \in 0 .. n
          BY <4>1
        <4>3. k \in {0, 1, 2, 3} /\ (k # 0 => k - 1 \in 0 .. n)
          BY <4>2
        <4>4. QED
          BY <4>1, <4>3
      <3>2. CASE k = 0
        BY <3>2
      <3>3. CASE k = 1
        <4>1. g[1] = a1 /\ k - 1 = 0 /\ g[0] = c
          BY <3>1, <3>3
        <4>2. QED
          BY <1>1, <3>3, <4>1
      <3>4. CASE k = 2
        <4>1. g[2] = a2 /\ k - 1 = 1 /\ g[1] = a1
          BY <3>1, <3>4
        <4>2. QED
          BY <1>1, <3>4, <4>1
      <3>5. CASE k = 3
        <4>1. g[3] = a3 /\ k - 1 = 2 /\ g[2] = a2
          BY <3>1, <3>5
        <4>2. QED
          BY <1>1, <3>5, <4>1
      <3>6. QED
        BY <3>1, <3>2, <3>3, <3>4, <3>5
    <2>2. QED
      BY <2>1
  <1>3. f = Def(f)
    BY <1>2
  <1>8. console_write_multiple(c, lens) = f[Len(lens)]
    BY DEF console_write_multiple
  <1> HIDE DEF f
  <1>4. \A k \in 0 .. Len(lens) : f[k] = IF k = 0 THEN c ELSE _console_write(f[k - 1], Len(hist) + k, lens[k])
    BY <1>3
  <1>5. f[1] = a1
    <2>1. f[0] = c /\ f[1] = _console_write(f[1 - 1], Len(hist) + 1, lens[1])
      BY <1>4
    <2>2. 1 - 1 = 0
      OBVIOUS
    <2>3. QED
      BY <1>1, <2>1, <2>2
  <1>6. Len(lens) > 1 => f[2] = a2
    <2>1. Len(lens) > 1 => f[2] = _console_write(f[2 - 1], Len(hist) + 2, lens[2])
      BY <1>4
    <2>2. 2 - 1 = 1
      OBVIOUS
    <2>3. QED
      BY <1>1, <1>5, <2>1, <2>2
  <1>7. Len(lens) > 2 => f[3] = a3
    <2>1. Len(lens) > 2 => f[3] = _console_write(f[3 - 1], Len(hist) + 3, lens[3]) /\ Len(lens) > 1
      BY <1>4
    <2>2. 3 - 1 = 2
      OBVIOUS
    <2>3. QED
      BY <1>1, <1>6, <2>1, <2>2
  <1>9. /\ Len(lens) = 1 => console_write_multiple(c, lens) = a1
        /\ Len(lens) = 2 => console_write_multiple(c, lens) = a2
        /\ Len(lens) = 3 => console_write_multiple(c, lens) = a3
    <2>1. Len(lens) = 1 => console_write_multiple(c, lens) = a1
      BY <1>5, <1>8
    <2>2. Len(lens) = 2 => console_write_multiple(c, lens) = a2
      <3>1. Len(lens) = 2 => f[2] = a2
        BY <1>6
      <3>2. QED
        BY <1>8, <3>1
    <2>3. Len(lens) = 3 => console_write_multiple(c, lens) = a3
      <3>1. Len(lens) = 3 => f[3] = a3
        BY <1>7
      <3>2. QED
        BY <1>8, <3>1
    <2>4. QED
      BY <2>1, <2>2, <2>3
  <1> WITNESS a1, a2, a3
  <1>10. QED
    BY <1>1, <1>9

LEMMA BodyLen == ASSUME NEW id \in Nat, NEW len \in Nat PROVE Body(id, len) \in Message /\ Len(Body(id, len)) = len
  BY DEF Body, Message

\* The fields of a record that is changed.
LEMMA ConsoleFields ==
    ASSUME NEW c, ConsoleType(c)
    PROVE  /\ c.backends \in Seq(Backends) /\ c.events \in Seq([at: Nat, len: Nat]) /\ c.used \in Nat
           /\ c.mem \in [0 .. MsgCap - 1 -> Nat] /\ c.buffering \in BOOLEAN
           /\ c.out \in [Backends -> Seq(Message)] /\ c.dead \in BOOLEAN
  BY DEF ConsoleType

LEMMA ConsoleRecord ==
    ASSUME NEW c,
           c = [backends |-> c.backends, events |-> c.events, used |-> c.used, mem |-> c.mem,
                buffering |-> c.buffering, out |-> c.out, dead |-> c.dead],
           c.backends \in Seq(Backends), c.events \in Seq([at: Nat, len: Nat]), c.used \in Nat,
           c.mem \in [0 .. MsgCap - 1 -> Nat], c.buffering \in BOOLEAN,
           c.out \in [Backends -> Seq(Message)], c.dead \in BOOLEAN
    PROVE  ConsoleType(c)
  BY DEF ConsoleType

\* write_event of a message that fits: it goes behind the others, which stay.
LEMMA EventFits ==
    ASSUME NEW c, NEW h \in Seq(Message), NEW st \in [Backends -> Nat], OutputOK(c, h, st), ~c.dead,
           NEW id \in Nat, NEW len \in Nat, arena_can_fit(c, len)
    PROVE  /\ OutputOK(write_event(c, id, len), Append(h, Body(id, len)), st)
           /\ ~write_event(c, id, len).dead
  <1>1. PICK w : w = write_event(c, id, len)
    OBVIOUS
  <1>2. PICK g : g = Append(h, Body(id, len))
    OBVIOUS
  <1>3. /\ c.backends \in Seq(Backends) /\ c.events \in Seq([at: Nat, len: Nat]) /\ c.used \in Nat
        /\ c.mem \in [0 .. MsgCap - 1 -> Nat] /\ c.buffering \in BOOLEAN
        /\ c.out \in [Backends -> Seq(Message)] /\ c.dead \in BOOLEAN
    BY ConsoleFields DEF OutputOK
  <1>4. /\ ConsoleType(c) /\ ArenaOK(c, h)
        /\ \A i \in 1 .. Len(c.backends) : BackendOK(c, h, c.backends[i], st[c.backends[i]])
    BY DEF OutputOK
  <1>5. PICK ev : ev = [at |-> c.used, len |-> len]
    OBVIOUS
  <1>6. w = [c EXCEPT !.mem = [p \in DOMAIN c.mem |->
                                 IF p \in c.used .. c.used + len - 1 THEN id ELSE c.mem[p]],
                      !.events = Append(c.events, ev), !.used = c.used + len]
    BY <1>1, <1>5 DEF write_event
  <1>7. /\ w.backends = c.backends /\ w.out = c.out /\ w.buffering = c.buffering /\ w.dead = FALSE
        /\ w.events = Append(c.events, ev) /\ w.used = c.used + len
        /\ w.mem = [p \in DOMAIN c.mem |-> IF p \in c.used .. c.used + len - 1 THEN id ELSE c.mem[p]]
    BY <1>4, <1>6 DEF ConsoleType
  <1>8. ev \in [at: Nat, len: Nat] /\ ev.at = c.used /\ ev.len = len
    BY <1>3, <1>5
  <1>9. ConsoleType(w)
    <2>1. w.events \in Seq([at: Nat, len: Nat])
      BY <1>3, <1>7, <1>8, AppendProperties
    <2>2. w.mem \in [0 .. MsgCap - 1 -> Nat]
      BY <1>3, <1>7
    <2>3. w.used \in Nat
      BY <1>3, <1>7
    <2>4. w = [backends |-> w.backends, events |-> w.events, used |-> w.used, mem |-> w.mem,
               buffering |-> w.buffering, out |-> w.out, dead |-> w.dead]
      BY <1>4, <1>6 DEF ConsoleType
    <2>5. QED
      BY <1>3, <1>7, <2>1, <2>2, <2>3, <2>4 DEF ConsoleType
  <1>n. PICK n \in Nat : n = Len(h)
    OBVIOUS
  <1>m. PICK m \in Nat : m = Len(c.events)
    BY <1>3
  <1>u. PICK u \in Nat : u = c.used
    BY <1>3
  <1>10. /\ Len(g) = n + 1 /\ g[n + 1] = Body(id, len)
         /\ \A i \in 1 .. n : g[i] = h[i]
    BY <1>2, <1>n, BodyLen, AppendProperties
  <1>11. /\ Len(w.events) = m + 1 /\ w.events[m + 1] = ev
         /\ \A i \in 1 .. m : w.events[i] = c.events[i]
    BY <1>3, <1>7, <1>8, <1>m, AppendProperties
  <1>12. u + len <= MsgCap /\ u <= MsgCap /\ MsgCap \in Nat /\ w.used = u + len /\ m <= n
    <2>1. MsgCap - u >= len /\ u <= MsgCap /\ MsgCap \in Nat /\ w.used = u + len /\ m <= n
      BY <1>4, <1>7, <1>n, <1>m, <1>u, ConsoleAssumption DEF arena_can_fit, ArenaOK
    <2>2. QED
      BY <2>1
  <1>13. ASSUME NEW p \in 0 .. MsgCap - 1
         PROVE  w.mem[p] = IF u <= p /\ p < u + len THEN id ELSE c.mem[p]
    <2>1. DOMAIN c.mem = 0 .. MsgCap - 1
      BY <1>3
    <2>2. p \in u .. u + len - 1 <=> u <= p /\ p < u + len
      BY <1>12
    <2>3. w.mem[p] = IF p \in u .. u + len - 1 THEN id ELSE c.mem[p]
      BY <1>7, <1>u, <2>1
    <2>4. QED
      BY <2>2, <2>3
  <1>14. ArenaOK(w, g)
    <2>1. w.used <= MsgCap /\ Len(w.events) <= Len(g) /\ w.events # <<>>
      <3>1. m + 1 <= n + 1 /\ m + 1 # 0
        BY <1>12
      <3>2. QED
        BY <1>10, <1>11, <1>12, <3>1
    <2>2. ASSUME NEW k \in 1 .. m
          PROVE  /\ w.events[k].at + w.events[k].len <= u + len
                 /\ Printed(w, w.events[k]) = g[(n + 1) - (m + 1) + k]
      <3>1. PICK e \in [at: Nat, len: Nat] : e = c.events[k]
        <4>1. c.events[k] \in [at: Nat, len: Nat]
          BY <1>3, <1>m, ElementOfSeq
        <4>2. QED
          BY <4>1
      <3>2. PICK a \in Nat, l \in Nat : a = e.at /\ l = e.len
        BY <3>1
      <3>3. a + l <= u /\ Printed(c, e) = h[n - m + k]
        BY <1>4, <1>n, <1>m, <1>u, <3>1, <3>2 DEF ArenaOK
      <3>4. Printed(w, e) = Printed(c, e)
        <4>1. ASSUME NEW j \in 1 .. l PROVE w.mem[a + j - 1] = c.mem[a + j - 1]
          <5>1. a + j - 1 \in 0 .. MsgCap - 1 /\ a + j - 1 < u
            BY <1>12, <3>3
          <5>2. PICK p \in 0 .. MsgCap - 1 : p = a + j - 1 /\ p < u
            BY <5>1
          <5>3. w.mem[p] = c.mem[p]
            BY <1>13, <5>2
          <5>4. QED
            BY <5>2, <5>3
        <4>2. [j \in 1 .. l |-> w.mem[a + j - 1]] = [j \in 1 .. l |-> c.mem[a + j - 1]]
          BY <4>1
        <4>3. QED
          BY <3>2, <4>2 DEF Printed
      <3>5. n - m + k \in 1 .. n /\ (n + 1) - (m + 1) + k = n - m + k /\ a + l <= u + len
        BY <1>12, <3>3
      <3>6. w.events[k] = e
        BY <1>11, <3>1
      <3>7. g[(n + 1) - (m + 1) + k] = h[n - m + k]
        BY <1>10, <3>5
      <3>8. QED
        BY <3>2, <3>3, <3>4, <3>5, <3>6, <3>7
    <2>3. /\ ev.at + ev.len <= u + len
          /\ Printed(w, ev) = g[(n + 1) - (m + 1) + (m + 1)]
      <3>1. (n + 1) - (m + 1) + (m + 1) = n + 1
        OBVIOUS
      <3>2. Printed(w, ev) = Body(id, len)
        <4>1. ASSUME NEW j \in 1 .. len PROVE w.mem[u + j - 1] = id
          <5>1. u + j - 1 \in 0 .. MsgCap - 1 /\ u <= u + j - 1 /\ u + j - 1 < u + len
            BY <1>12
          <5>2. PICK p \in 0 .. MsgCap - 1 : p = u + j - 1 /\ u <= p /\ p < u + len
            BY <5>1
          <5>3. w.mem[p] = id
            BY <1>13, <5>2
          <5>4. QED
            BY <5>2, <5>3
        <4>2. [j \in 1 .. len |-> w.mem[u + j - 1]] = [j \in 1 .. len |-> id]
          BY <4>1
        <4>3. QED
          BY <1>8, <1>u, <4>2 DEF Printed, Body
      <3>3. ev.at + ev.len <= u + len
        BY <1>8, <1>u
      <3>4. QED
        BY <1>10, <3>1, <3>2, <3>3
    <2>4. ASSUME NEW k \in 1 .. m + 1
          PROVE  /\ w.events[k].at + w.events[k].len <= w.used
                 /\ Printed(w, w.events[k]) = g[Len(g) - Len(w.events) + k]
      <3>1. CASE k \in 1 .. m
        BY <1>10, <1>11, <1>12, <2>2, <3>1
      <3>2. CASE k = m + 1
        BY <1>10, <1>11, <1>12, <2>3, <3>2
      <3>3. k \in 1 .. m \/ k = m + 1
        OBVIOUS
      <3>4. QED
        BY <3>1, <3>2, <3>3
    <2>5. QED
      BY <1>11, <2>1, <2>4 DEF ArenaOK
  <1>15. ASSUME NEW i \in 1 .. Len(w.backends)
         PROVE  BackendOK(w, g, w.backends[i], st[w.backends[i]])
    <2>1. PICK b \in Backends : b = w.backends[i] /\ b = c.backends[i] /\ i \in 1 .. Len(c.backends)
      BY <1>3, <1>7, ElementOfSeq
    <2>2. BackendOK(c, h, b, st[b]) /\ c.out[b] \in Seq(Message)
      BY <1>3, <1>4, <2>1
    <2>3. PICK o \in Nat, s \in Nat : o = Len(c.out[b]) /\ s = st[b]
      BY <2>2
    <2>4. s + o + m = n /\ \A j \in 1 .. o : c.out[b][j] = h[s + j]
      BY <1>n, <1>m, <2>2, <2>3 DEF BackendOK
    <2>5. s + o + (m + 1) = n + 1 /\ \A j \in 1 .. o : s + j \in 1 .. n
      <3>1. s + o + m = n
        BY <2>4
      <3>2. QED
        BY <3>1
    <2>6. w.out = c.out
      BY <1>7
    <2>7. \A j \in 1 .. o : w.out[b][j] = g[s + j]
      BY <1>10, <2>4, <2>5, <2>6
    <2>8. st[b] + Len(w.out[b]) + Len(w.events) = Len(g)
      BY <1>10, <1>11, <2>3, <2>5, <2>6
    <2>9. QED
      BY <2>1, <2>3, <2>6, <2>7, <2>8 DEF BackendOK
  <1>16. OutputOK(w, g, st)
    BY <1>7, <1>9, <1>14, <1>15 DEF OutputOK
  <1>17. QED
    BY <1>1, <1>2, <1>7, <1>16


\* A reason to have panicked stays one when messages are added.
LEMMA PanicStays ==
    ASSUME NEW c, NEW h \in Seq(Message), NEW x \in Message, PanicOK(c, h)
    PROVE  PanicOK(c, Append(h, x))
  <1>1. \A i \in DOMAIN h : i \in DOMAIN Append(h, x) /\ Append(h, x)[i] = h[i]
    <2>1. PICK n \in Nat : n = Len(h) /\ DOMAIN h = 1 .. n
      BY LenProperties
    <2>2. Len(Append(h, x)) = n + 1 /\ \A i \in 1 .. n : Append(h, x)[i] = h[i]
      BY <2>1, AppendProperties
    <2>3. DOMAIN Append(h, x) = 1 .. n + 1
      BY <2>2, AppendProperties, LenProperties
    <2>4. \A i \in 1 .. n : i \in 1 .. n + 1
      OBVIOUS
    <2>5. QED
      BY <2>1, <2>2, <2>3, <2>4
  <1>2. QED
    BY <1>1 DEF PanicOK

\* write_event of a message that does not fit: the assertion fails, and not
\* for want of a flush.
LEMMA EventPanics ==
    ASSUME NEW c, NEW h \in Seq(Message), NEW st, OutputOK(c, h, st), ~c.dead,
           NEW id \in Nat, NEW len \in Nat, ~arena_can_fit(c, len), c.events = <<>> \/ ~c.buffering
    PROVE  /\ OutputOK(write_event(c, id, len), Append(h, Body(id, len)), st)
           /\ write_event(c, id, len).dead
  <1>1. PICK w : w = write_event(c, id, len)
    OBVIOUS
  <1>2. PICK g : g = Append(h, Body(id, len))
    OBVIOUS
  <1>3. ConsoleType(c) /\ ArenaOK(c, h)
    BY DEF OutputOK
  <1>4. w = [c EXCEPT !.dead = TRUE]
    BY <1>1 DEF write_event
  <1>5. ConsoleType(w) /\ w.dead = TRUE /\ w.buffering = c.buffering /\ w.events = c.events
    BY <1>3, <1>4 DEF ConsoleType
  <1>6. PanicOK(w, g)
    <2>1. CASE c.events # <<>>
      BY <1>5, <2>1 DEF PanicOK
    <2>2. CASE c.events = <<>>
      <3>1. c.used = 0 /\ Len(c.events) = 0
        BY <1>3, <2>2 DEF ArenaOK
      <3>2. len > MsgCap
        BY <3>1, ConsoleAssumption DEF arena_can_fit
      <3>3. PICK n \in Nat : n = Len(h)
        OBVIOUS
      <3>4. g \in Seq(Message) /\ Len(g) = n + 1 /\ g[n + 1] = Body(id, len)
        BY <1>2, <3>3, BodyLen, AppendProperties
      <3>5. n + 1 \in DOMAIN g
        BY <3>4, LenProperties
      <3>6. Len(g[n + 1]) > MsgCap
        BY <3>2, <3>4, BodyLen
      <3>7. QED
        BY <3>5, <3>6 DEF PanicOK
    <2>3. QED
      BY <2>1, <2>2
  <1>7. QED
    BY <1>1, <1>2, <1>5, <1>6 DEF OutputOK

\* _console_flush: what the arenas held has been printed.
LEMMA FlushKeeps ==
    ASSUME NEW c, NEW h \in Seq(Message), NEW st \in [Backends -> Nat], OutputOK(c, h, st)
    PROVE  /\ OutputOK(_console_flush(c), h, st)
           /\ _console_flush(c).dead = c.dead /\ _console_flush(c).buffering = c.buffering
           /\ ~c.dead => _console_flush(c).events = <<>>
  <1>1. CASE c.dead
    BY <1>1 DEF _console_flush
  <1>2. CASE ~c.dead
    <2>1. PICK f : f = _console_flush(c)
      OBVIOUS
    <2>2. /\ c.backends \in Seq(Backends) /\ c.events \in Seq([at: Nat, len: Nat]) /\ c.used \in Nat
          /\ c.mem \in [0 .. MsgCap - 1 -> Nat] /\ c.buffering \in BOOLEAN
          /\ c.out \in [Backends -> Seq(Message)] /\ c.dead \in BOOLEAN
      BY ConsoleFields DEF OutputOK
    <2>3. /\ ConsoleType(c) /\ ArenaOK(c, h)
          /\ \A i \in 1 .. Len(c.backends) : BackendOK(c, h, c.backends[i], st[c.backends[i]])
      BY <1>2 DEF OutputOK
    <2>4. PICK all : all = [i \in DOMAIN c.events |-> Printed(c, c.events[i])]
      OBVIOUS
    <2>5. PICK out : out = [b \in Backends |->
              IF \E i \in DOMAIN c.backends : c.backends[i] = b THEN c.out[b] \o all ELSE c.out[b]]
      OBVIOUS
    <2>6. finalize_write(c) = [c EXCEPT !.out = out]
      BY <2>4, <2>5 DEF finalize_write
    <2>7. f = [[c EXCEPT !.out = out] EXCEPT !.used = 0, !.events = <<>>]
      BY <1>2, <2>1, <2>6 DEF _console_flush, arena_reset
    <2>8. /\ f.backends = c.backends /\ f.out = out /\ f.buffering = c.buffering /\ f.dead = FALSE
          /\ f.events = <<>> /\ f.used = 0 /\ f.mem = c.mem
      BY <1>2, <2>2, <2>3, <2>7 DEF ConsoleType
    <2>n. PICK n \in Nat : n = Len(h)
      OBVIOUS
    <2>m. PICK m \in Nat : m = Len(c.events) /\ DOMAIN c.events = 1 .. m
      BY <2>2, LenProperties
    <2>9. m <= n /\ \A k \in 1 .. m : Printed(c, c.events[k]) = h[n - m + k]
      BY <2>3, <2>n, <2>m DEF ArenaOK
    <2>10. all \in Seq(Message) /\ Len(all) = m /\ \A k \in 1 .. m : all[k] = h[n - m + k]
      <3>1. all = [k \in 1 .. m |-> Printed(c, c.events[k])]
        BY <2>4, <2>m
      <3>2. ASSUME NEW k \in 1 .. m PROVE all[k] = h[n - m + k] /\ all[k] \in Message
        <4>1. all[k] = h[n - m + k] /\ n - m + k \in 1 .. n
          BY <2>9, <3>1
        <4>2. h[n - m + k] \in Message
          BY <2>n, <4>1, ElementOfSeq
        <4>3. QED
          BY <4>1, <4>2
      <3>3. all \in [1 .. m -> Message]
        BY <3>1, <3>2
      <3>4. all \in Seq(Message) /\ Len(all) = m
        BY <3>3
      <3>5. QED
        BY <3>2, <3>4
    <2>11. ConsoleType(f)
      <3>1. ASSUME NEW b \in Backends PROVE out[b] \in Seq(Message)
        <4>1. c.out[b] \in Seq(Message)
          BY <2>2
        <4>2. c.out[b] \o all \in Seq(Message)
          BY <2>10, <4>1, ConcatProperties
        <4>3. QED
          BY <2>5, <4>1, <4>2
      <3>2. out \in [Backends -> Seq(Message)]
        BY <2>5, <3>1
      <3>3. f = [backends |-> f.backends, events |-> f.events, used |-> f.used, mem |-> f.mem,
                 buffering |-> f.buffering, out |-> f.out, dead |-> f.dead]
        BY <2>3, <2>7 DEF ConsoleType
      <3>4. <<>> \in Seq([at: Nat, len: Nat])
        BY EmptySeq
      <3>5. /\ f.backends \in Seq(Backends) /\ f.events \in Seq([at: Nat, len: Nat]) /\ f.used \in Nat
            /\ f.mem \in [0 .. MsgCap - 1 -> Nat] /\ f.buffering \in BOOLEAN
            /\ f.out \in [Backends -> Seq(Message)] /\ f.dead \in BOOLEAN
        <4>1. f.used \in Nat
          BY <2>8
        <4>2. QED
          BY <2>2, <2>8, <3>2, <3>4, <4>1, Zenon
      <3>6. QED
        BY <3>3, <3>5, ConsoleRecord
    <2>12. ArenaOK(f, h)
      BY <2>8, <2>n, ConsoleAssumption DEF ArenaOK
    <2>13. ASSUME NEW i \in 1 .. Len(f.backends)
           PROVE  BackendOK(f, h, f.backends[i], st[f.backends[i]])
      <3>1. PICK b \in Backends : b = f.backends[i] /\ b = c.backends[i] /\ i \in 1 .. Len(c.backends)
        BY <2>2, <2>8, ElementOfSeq
      <3>2. BackendOK(c, h, b, st[b]) /\ c.out[b] \in Seq(Message) /\ i \in DOMAIN c.backends
        BY <2>2, <2>3, <3>1
      <3>3. PICK o \in Nat, s \in Nat : o = Len(c.out[b]) /\ s = st[b]
        BY <3>2
      <3>4. s + o + m = n /\ \A j \in 1 .. o : c.out[b][j] = h[s + j]
        BY <2>n, <2>m, <3>2, <3>3 DEF BackendOK
      <3>5. out[b] = c.out[b] \o all
        BY <2>5, <3>1, <3>2
      <3>6. Len(out[b]) = o + m /\ \A j \in 1 .. o + m : out[b][j] = IF j <= o THEN c.out[b][j] ELSE all[j - o]
        <4>1. PICK q \in Seq(Message) : q = c.out[b]
          BY <3>2
        <4>2. /\ Len(q \o all) = Len(q) + Len(all)
              /\ \A j \in 1 .. Len(q) + Len(all) : (q \o all)[j] = IF j <= Len(q) THEN q[j] ELSE all[j - Len(q)]
          BY <2>10, ConcatProperties
        <4>3. QED
          BY <2>10, <3>3, <3>5, <4>1, <4>2
      <3>7. ASSUME NEW j \in 1 .. o + m PROVE out[b][j] = h[s + j]
        <4>1. CASE j <= o
          BY <3>4, <3>6, <4>1
        <4>2. CASE j > o
          <5>1. j - o \in 1 .. m /\ n - m + (j - o) = s + j /\ ~(j <= o)
            <6>1. s + o + m = n
              BY <3>4
            <6>2. QED
              BY <4>2, <6>1
          <5>2. out[b][j] = all[j - o]
            BY <3>6, <5>1
          <5>3. all[j - o] = h[n - m + (j - o)]
            BY <2>10, <5>1
          <5>4. QED
            BY <5>1, <5>2, <5>3
        <4>3. QED
          BY <4>1, <4>2
      <3>8. st[b] + Len(f.out[b]) + Len(f.events) = Len(h)
        <4>1. s + (o + m) + 0 = n
          BY <3>4
        <4>2. QED
          BY <2>8, <2>n, <3>3, <3>6, <4>1
      <3>9. \A j \in 1 .. Len(f.out[b]) : f.out[b][j] = h[st[b] + j]
        BY <2>8, <3>3, <3>6, <3>7
      <3>10. QED
        BY <3>1, <3>8, <3>9 DEF BackendOK
    <2>14. QED
      <3>1. OutputOK(f, h, st)
        BY <2>8, <2>11, <2>12, <2>13 DEF OutputOK
      <3>2. QED
        BY <1>2, <2>1, <2>2, <2>8, <3>1
  <1>3. QED
    BY <1>1, <1>2

\* _console_write: a message is printed, waits in the arenas, or stops the console.
LEMMA WriteKeeps ==
    ASSUME NEW c, NEW h \in Seq(Message), NEW st \in [Backends -> Nat], OutputOK(c, h, st),
           NEW id \in Nat, NEW len \in Nat
    PROVE  OutputOK(_console_write(c, id, len), Append(h, Body(id, len)), st)
  <1>1. PICK g : g = Append(h, Body(id, len))
    OBVIOUS
  <1>2. g \in Seq(Message)
    BY <1>1, BodyLen, AppendProperties
  <1>3. CASE c.dead
    <2>1. _console_write(c, id, len) = c
      BY <1>3 DEF _console_write, _console_flush, write_event
    <2>2. PanicOK(c, g)
      BY <1>1, <1>3, BodyLen, PanicStays DEF OutputOK
    <2>3. QED
      BY <1>1, <1>3, <2>1, <2>2 DEF OutputOK
  <1>4. CASE ~c.dead /\ ~c.buffering
    <2>1. OutputOK(write_event(c, id, len), g, st)
      BY <1>1, <1>4, EventFits, EventPanics
    <2>2. OutputOK(_console_flush(write_event(c, id, len)), g, st)
      BY <1>2, <2>1, FlushKeeps
    <2>3. QED
      BY <1>1, <1>4, <2>2 DEF _console_write
  <1>5. CASE ~c.dead /\ c.buffering /\ arena_can_fit(c, len)
    <2>1. OutputOK(write_event(c, id, len), g, st)
      BY <1>1, <1>5, EventFits
    <2>2. QED
      BY <1>1, <1>5, <2>1 DEF _console_write
  <1>6. CASE ~c.dead /\ c.buffering /\ ~arena_can_fit(c, len)
    <2>1. PICK f : f = _console_flush(c)
      OBVIOUS
    <2>2. OutputOK(f, h, st) /\ ~f.dead /\ f.events = <<>>
      BY <1>6, <2>1, FlushKeeps
    <2>3. OutputOK(write_event(f, id, len), g, st)
      BY <1>1, <2>2, EventFits, EventPanics
    <2>4. QED
      BY <1>1, <1>6, <2>1, <2>3 DEF _console_write
  <1>7. QED
    BY <1>3, <1>4, <1>5, <1>6

\* One more message behind those of a sequence of new ones.
LEMMA OneMore ==
    ASSUME NEW h \in Seq(Message), NEW r \in Seq(Message), NEW x \in Message
    PROVE  h \o Append(r, x) = Append(h \o r, x)
  <1>1. PICK n \in Nat, m \in Nat : n = Len(h) /\ m = Len(r)
    OBVIOUS
  <1>2. /\ h \o r \in Seq(Message) /\ Len(h \o r) = n + m
        /\ \A i \in 1 .. n + m : (h \o r)[i] = IF i <= n THEN h[i] ELSE r[i - n]
    BY <1>1, ConcatProperties
  <1>3. PICK q : q = Append(r, x)
    OBVIOUS
  <1>4. q \in Seq(Message) /\ Len(q) = m + 1 /\ q[m + 1] = x /\ \A i \in 1 .. m : q[i] = r[i]
    BY <1>1, <1>3, AppendProperties
  <1>5. /\ h \o q \in Seq(Message) /\ Len(h \o q) = n + (m + 1)
        /\ \A i \in 1 .. n + (m + 1) : (h \o q)[i] = IF i <= n THEN h[i] ELSE q[i - n]
    <2>1. /\ h \o q \in Seq(Message) /\ Len(h \o q) = Len(h) + Len(q)
          /\ \A i \in 1 .. Len(h) + Len(q) : (h \o q)[i] = IF i <= Len(h) THEN h[i] ELSE q[i - Len(h)]
      BY <1>4, ConcatProperties
    <2>2. QED
      BY <1>1, <1>4, <2>1
  <1>6. PICK a \in Seq(Message), b \in Seq(Message) : a = h \o q /\ b = h \o r
    BY <1>2, <1>5
  <1>7. /\ Append(b, x) \in Seq(Message) /\ Len(Append(b, x)) = (n + m) + 1
        /\ Append(b, x)[(n + m) + 1] = x /\ \A i \in 1 .. n + m : Append(b, x)[i] = b[i]
    <2>1. Len(b) = n + m
      BY <1>2, <1>6
    <2>2. /\ Append(b, x) \in Seq(Message) /\ Len(Append(b, x)) = Len(b) + 1
          /\ Append(b, x)[Len(b) + 1] = x /\ \A i \in 1 .. Len(b) : Append(b, x)[i] = b[i]
      BY AppendProperties
    <2>3. QED
      BY <2>1, <2>2
  <1>8. ASSUME NEW i \in 1 .. n + (m + 1) PROVE a[i] = Append(b, x)[i]
    <2>1. CASE i <= n
      <3>1. i \in 1 .. n + m
        BY <2>1
      <3>2. QED
        BY <1>2, <1>5, <1>6, <1>7, <2>1, <3>1
    <2>2. CASE i > n /\ i <= n + m
      <3>1. i \in 1 .. n + m /\ i - n \in 1 .. m /\ ~(i <= n)
        BY <2>2
      <3>2. a[i] = q[i - n] /\ b[i] = r[i - n] /\ q[i - n] = r[i - n] /\ Append(b, x)[i] = b[i]
        BY <1>2, <1>4, <1>5, <1>6, <1>7, <3>1
      <3>3. QED
        BY <3>2
    <2>3. CASE i = n + m + 1
      <3>1. i - n = m + 1 /\ ~(i <= n) /\ i = (n + m) + 1
        BY <2>3
      <3>2. QED
        BY <1>4, <1>5, <1>6, <1>7, <3>1
    <2>4. i <= n \/ (i > n /\ i <= n + m) \/ i = n + m + 1
      OBVIOUS
    <2>5. QED
      BY <2>1, <2>2, <2>3, <2>4
  <1>9. Len(a) = Len(Append(b, x)) /\ Len(a) = n + (m + 1)
    BY <1>5, <1>6, <1>7
  <1>10. a = Append(b, x)
    BY <1>7, <1>8, <1>9, SeqEqual
  <1>11. QED
    BY <1>3, <1>6, <1>10

\* The messages of one critical section, one after another.
LEMMA NewMessages ==
    ASSUME NEW h \in Seq(Message), NEW x \in Message, NEW y \in Message, NEW z \in Message
    PROVE  /\ h \o <<x>> = Append(h, x)
           /\ h \o <<x, y>> = Append(Append(h, x), y)
           /\ h \o <<x, y, z>> = Append(Append(Append(h, x), y), z)
  <1>1. h \o <<x>> = Append(h, x) /\ <<x>> \in Seq(Message)
    BY AppendIsConcat
  <1>2. h \o <<x, y>> = Append(Append(h, x), y) /\ <<x, y>> \in Seq(Message)
    <2>1. <<x, y>> = Append(<<x>>, y) /\ <<x, y>> \in Seq(Message)
      OBVIOUS
    <2>2. h \o Append(<<x>>, y) = Append(h \o <<x>>, y)
      BY <1>1, OneMore
    <2>3. QED
      BY <1>1, <2>1, <2>2
  <1>3. h \o <<x, y, z>> = Append(Append(Append(h, x), y), z)
    <2>1. <<x, y, z>> = Append(<<x, y>>, z)
      OBVIOUS
    <2>2. h \o Append(<<x, y>>, z) = Append(h \o <<x, y>>, z)
      BY <1>2, OneMore
    <2>3. QED
      BY <1>2, <2>1, <2>2
  <1>4. QED
    BY <1>1, <1>2, <1>3

\* Accept, with the lengths its callers give it.
LEMMA Accepted ==
    ASSUME hist \in Seq(Message), start \in [Backends -> Nat], OutputOK(con, hist, start),
           NEW len \in Nat, NEW lens \in {<<len>>, <<1, len>>, <<1, 1, len>>}, Accept(lens)
    PROVE  hist' \in Seq(Message) /\ OutputOK(con', hist', start)
  <1>1. PICK n \in Nat : n = Len(hist)
    OBVIOUS
  <1>2. /\ con' = console_write_multiple(con, lens)
        /\ hist' = hist \o [k \in DOMAIN lens |-> Body(n + k, lens[k])]
    BY <1>1 DEF Accept
  <1>3. CASE lens = <<len>>
    <2>1. Len(lens) = 1 /\ lens[1] = len /\ Len(lens) \in 1 .. 3 /\ DOMAIN lens = 1 .. 1
      BY <1>3
    <2>2. con' = _console_write(con, n + 1, len)
      BY <1>1, <1>2, <2>1, WriteMany
    <2>3. PICK x \in Message : x = Body(n + 1, len)
      BY BodyLen
    <2>4. [k \in DOMAIN lens |-> Body(n + k, lens[k])] = <<x>>
      BY <2>1, <2>3
    <2>5. hist' = Append(hist, x)
      BY <1>2, <2>4, NewMessages
    <2>6. OutputOK(_console_write(con, n + 1, len), Append(hist, Body(n + 1, len)), start)
      BY WriteKeeps
    <2>7. hist' \in Seq(Message)
      BY <2>5, AppendProperties
    <2>8. QED
      BY <2>2, <2>3, <2>5, <2>6, <2>7
  <1>4. CASE lens = <<1, len>>
    <2>1. Len(lens) = 2 /\ lens[1] = 1 /\ lens[2] = len /\ Len(lens) \in 1 .. 3 /\ DOMAIN lens = 1 .. 2
      BY <1>4
    <2>2. PICK a : a = _console_write(con, n + 1, 1) /\ con' = _console_write(a, n + 2, len)
      BY <1>1, <1>2, <2>1, WriteMany
    <2>3. PICK x \in Message, y \in Message : x = Body(n + 1, 1) /\ y = Body(n + 2, len)
      BY BodyLen
    <2>4. [k \in DOMAIN lens |-> Body(n + k, lens[k])] = <<x, y>>
      BY <2>1, <2>3
    <2>5. hist' = Append(Append(hist, x), y)
      BY <1>2, <2>4, NewMessages
    <2>6. OutputOK(a, Append(hist, x), start) /\ Append(hist, x) \in Seq(Message)
      BY <2>2, <2>3, WriteKeeps, AppendProperties
    <2>7. OutputOK(con', hist', start)
      <3>1. PICK g \in Seq(Message) : g = Append(hist, x)
        BY <2>6
      <3>2. OutputOK(_console_write(a, n + 2, len), Append(g, Body(n + 2, len)), start)
        <4>1. OutputOK(a, g, start) /\ n + 2 \in Nat
          BY <2>6, <3>1
        <4>2. QED
          BY <4>1, WriteKeeps
      <3>3. QED
        BY <2>2, <2>3, <2>5, <3>1, <3>2
    <2>8. hist' \in Seq(Message)
      BY <2>5, <2>6, AppendProperties
    <2>9. QED
      BY <2>7, <2>8
  <1>5. CASE lens = <<1, 1, len>>
    <2>1. /\ Len(lens) = 3 /\ lens[1] = 1 /\ lens[2] = 1 /\ lens[3] = len
          /\ Len(lens) \in 1 .. 3 /\ DOMAIN lens = 1 .. 3
      BY <1>5
    <2>2. PICK a, b : /\ a = _console_write(con, n + 1, 1) /\ b = _console_write(a, n + 2, 1)
                      /\ con' = _console_write(b, n + 3, len)
      BY <1>1, <1>2, <2>1, WriteMany
    <2>3. PICK x \in Message, y \in Message, z \in Message :
              x = Body(n + 1, 1) /\ y = Body(n + 2, 1) /\ z = Body(n + 3, len)
      BY BodyLen
    <2>4. [k \in DOMAIN lens |-> Body(n + k, lens[k])] = <<x, y, z>>
      BY <2>1, <2>3
    <2>5. hist' = Append(Append(Append(hist, x), y), z)
      BY <1>2, <2>4, NewMessages
    <2>6. PICK g \in Seq(Message) : g = Append(hist, x)
      BY AppendProperties
    <2>7. PICK f \in Seq(Message) : f = Append(g, y)
      BY AppendProperties
    <2>8. OutputOK(a, g, start)
      BY <2>2, <2>3, <2>6, WriteKeeps
    <2>9. OutputOK(b, f, start)
      BY <2>2, <2>3, <2>7, <2>8, WriteKeeps
    <2>10. OutputOK(_console_write(b, n + 3, len), Append(f, Body(n + 3, len)), start)
      BY <2>9, WriteKeeps
    <2>11. hist' \in Seq(Message)
      BY <2>5, <2>6, <2>7, AppendProperties
    <2>12. QED
      BY <2>2, <2>3, <2>5, <2>6, <2>7, <2>10, <2>11
  <1>6. QED
    BY <1>3, <1>4, <1>5

-----------------------------------------------------------------------------
(* The receive ring                                                        *)

\* How many characters lie between the indices, and where the k-th of them is.
HeldAt(h, t) == IF h >= t THEN h - t ELSE h - t + RingCap
SlotAt(t, k) == IF t + k - 1 < RingCap THEN t + k - 1 ELSE t + k - 1 - RingCap

RingType ==
    /\ ring \in [buf: [0 .. RingCap - 1 -> Nat], head: 0 .. RingCap - 1, tail: 0 .. RingCap - 1]
    /\ fifo \in Seq(Nat) /\ sent \in Seq(Nat) /\ read \in Seq(Nat) /\ arrived \in Nat

RingInv ==
    /\ RingType
    /\ Len(sent) = Len(read) + HeldAt(ring.head, ring.tail)
    /\ \A i \in 1 .. Len(read) : sent[i] = read[i]
    /\ \A k \in 1 .. HeldAt(ring.head, ring.tail) :
          sent[Len(read) + k] = ring.buf[SlotAt(ring.tail, k)]

LEMMA WrapOnce ==
    ASSUME NEW R \in Nat \ {0}, NEW x \in 0 .. (R + R) - 1
    PROVE  x % R = IF x < R THEN x ELSE x - R
  <1>1. CASE x < R
    BY <1>1
  <1>2. CASE x >= R
    <2>1. PICK y \in 0 .. R - 1 : x = y + R
      BY <1>2
    <2>2. (y + R) % R = y
      OBVIOUS
    <2>3. QED
      BY <1>2, <2>1, <2>2
  <1>3. QED
    BY <1>1, <1>2

LEMMA RingIndices ==
    ASSUME NEW h \in 0 .. RingCap - 1, NEW t \in 0 .. RingCap - 1
    PROVE  /\ HeldAt(h, t) \in 0 .. RingCap - 1 /\ HeldAt(h, t) = (h - t + RingCap) % RingCap
           /\ \A k \in 1 .. HeldAt(h, t) : /\ SlotAt(t, k) \in 0 .. RingCap - 1
                                           /\ SlotAt(t, k) = (t + k - 1) % RingCap
  <1>1. RingCap \in Nat \ {0}
    BY ConsoleAssumption
  <1>2. HeldAt(h, t) \in 0 .. RingCap - 1
    BY <1>1 DEF HeldAt
  <1>3. HeldAt(h, t) = (h - t + RingCap) % RingCap
    <2>1. PICK x \in 0 .. (RingCap + RingCap) - 1 : x = h - t + RingCap
      BY <1>1
    <2>2. x % RingCap = IF x < RingCap THEN x ELSE x - RingCap
      BY <1>1, WrapOnce
    <2>3. HeldAt(h, t) = IF x < RingCap THEN x ELSE x - RingCap
      BY <1>1, <2>1 DEF HeldAt
    <2>4. QED
      BY <2>1, <2>2, <2>3
  <1>4. ASSUME NEW k \in 1 .. HeldAt(h, t)
        PROVE  SlotAt(t, k) \in 0 .. RingCap - 1 /\ SlotAt(t, k) = (t + k - 1) % RingCap
    <2>1. PICK x \in 0 .. (RingCap + RingCap) - 1 : x = t + k - 1
      BY <1>1, <1>2
    <2>2. x % RingCap = IF x < RingCap THEN x ELSE x - RingCap
      BY <1>1, WrapOnce
    <2>3. SlotAt(t, k) = IF x < RingCap THEN x ELSE x - RingCap
      BY <1>1, <1>2, <2>1 DEF SlotAt
    <2>4. SlotAt(t, k) \in 0 .. RingCap - 1
      BY <1>1, <2>3
    <2>5. QED
      BY <2>1, <2>2, <2>3, <2>4
  <1>5. QED
    BY <1>2, <1>3, <1>4

\* ringbuffer_push: the new character is behind the others and over none.
LEMMA RingPushes ==
    ASSUME NEW h \in 0 .. RingCap - 1, NEW t \in 0 .. RingCap - 1, (h + 1) % RingCap # t
    PROVE  /\ (h + 1) % RingCap \in 0 .. RingCap - 1
           /\ HeldAt((h + 1) % RingCap, t) = HeldAt(h, t) + 1
           /\ SlotAt(t, HeldAt(h, t) + 1) = h
           /\ \A k \in 1 .. HeldAt(h, t) : SlotAt(t, k) # h
  <1>1. RingCap \in Nat \ {0, 1}
    BY ConsoleAssumption
  <1>2. (h + 1) % RingCap = IF h + 1 < RingCap THEN h + 1 ELSE 0
    <2>1. h + 1 \in 0 .. (RingCap + RingCap) - 1 /\ (h + 1 < RingCap \/ h + 1 = RingCap)
      BY <1>1
    <2>2. (h + 1) % RingCap = IF h + 1 < RingCap THEN h + 1 ELSE h + 1 - RingCap
      <3>1. PICK x \in 0 .. (RingCap + RingCap) - 1 : x = h + 1
        BY <2>1
      <3>2. x % RingCap = IF x < RingCap THEN x ELSE x - RingCap
        BY <1>1, WrapOnce
      <3>3. QED
        BY <1>1, <3>1, <3>2
    <2>3. QED
      BY <1>1, <2>1, <2>2
  <1>3. PICK g : g = (h + 1) % RingCap
    OBVIOUS
  <1>4. g # t /\ g = (IF h + 1 < RingCap THEN h + 1 ELSE 0) /\ g \in 0 .. RingCap - 1
    BY <1>1, <1>2, <1>3
  <1>5. HeldAt(g, t) = HeldAt(h, t) + 1
    BY <1>1, <1>4 DEF HeldAt
  <1>6. SlotAt(t, HeldAt(h, t) + 1) = h /\ \A k \in 1 .. HeldAt(h, t) : SlotAt(t, k) # h
    BY <1>1, <1>4 DEF HeldAt, SlotAt
  <1>7. QED
    BY <1>3, <1>4, <1>5, <1>6

\* ringbuffer_pop: the first character goes, the others move up.
LEMMA RingPops ==
    ASSUME NEW h \in 0 .. RingCap - 1, NEW t \in 0 .. RingCap - 1, h # t
    PROVE  /\ (t + 1) % RingCap \in 0 .. RingCap - 1
           /\ HeldAt(h, t) = HeldAt(h, (t + 1) % RingCap) + 1
           /\ SlotAt(t, 1) = t
           /\ \A k \in 1 .. HeldAt(h, (t + 1) % RingCap) : SlotAt((t + 1) % RingCap, k) = SlotAt(t, k + 1)
  <1>1. RingCap \in Nat \ {0, 1}
    BY ConsoleAssumption
  <1>2. (t + 1) % RingCap = IF t + 1 < RingCap THEN t + 1 ELSE 0
    <2>1. t + 1 \in 0 .. (RingCap + RingCap) - 1 /\ (t + 1 < RingCap \/ t + 1 = RingCap)
      BY <1>1
    <2>2. (t + 1) % RingCap = IF t + 1 < RingCap THEN t + 1 ELSE t + 1 - RingCap
      <3>1. PICK x \in 0 .. (RingCap + RingCap) - 1 : x = t + 1
        BY <2>1
      <3>2. x % RingCap = IF x < RingCap THEN x ELSE x - RingCap
        BY <1>1, WrapOnce
      <3>3. QED
        BY <1>1, <3>1, <3>2
    <2>3. QED
      BY <1>1, <2>1, <2>2
  <1>3. PICK g : g = (t + 1) % RingCap
    OBVIOUS
  <1>4. g = (IF t + 1 < RingCap THEN t + 1 ELSE 0) /\ g \in 0 .. RingCap - 1
    BY <1>1, <1>2, <1>3
  <1>5. HeldAt(h, t) = HeldAt(h, g) + 1 /\ SlotAt(t, 1) = t
    BY <1>1, <1>4 DEF HeldAt, SlotAt
  <1>6. \A k \in 1 .. HeldAt(h, g) : SlotAt(g, k) = SlotAt(t, k + 1)
    BY <1>1, <1>4 DEF HeldAt, SlotAt
  <1>7. QED
    BY <1>3, <1>4, <1>5, <1>6

\* The receive handler.
LEMMA ReceiveKeeps ==
    ASSUME RingInv, RecieveIrq
    PROVE  RingInv'
  <1>1. PICK h \in 0 .. RingCap - 1, t \in 0 .. RingCap - 1 : h = ring.head /\ t = ring.tail
    BY DEF RingInv, RingType
  <1>2. /\ ring \in [buf: [0 .. RingCap - 1 -> Nat], head: 0 .. RingCap - 1, tail: 0 .. RingCap - 1]
        /\ fifo \in Seq(Nat) /\ sent \in Seq(Nat) /\ read \in Seq(Nat) /\ arrived \in Nat
    BY DEF RingInv, RingType
  <1>3. PICK x \in Nat : x = Head(fifo)
    BY <1>2, HeadTailProperties DEF RecieveIrq
  <1>4. fifo' \in Seq(Nat) /\ read' = read /\ arrived' = arrived
    BY <1>2, HeadTailProperties DEF RecieveIrq
  <1>5. PICK n \in Nat, m \in Nat : n = Len(sent) /\ m = Len(read)
    BY <1>2
  <1>6. PICK d \in 0 .. RingCap - 1 : d = HeldAt(h, t)
    BY RingIndices
  <1>7. /\ n = m + d /\ \A i \in 1 .. m : sent[i] = read[i]
        /\ \A k \in 1 .. d : sent[m + k] = ring.buf[SlotAt(t, k)]
    BY <1>1, <1>5, <1>6 DEF RingInv
  <1>8. CASE (h + 1) % RingCap = t
    <2>1. ring' = ring /\ sent' = sent
      BY <1>1, <1>8 DEF RecieveIrq, ringbuffer_push, ringbuffer_full
    <2>2. QED
      BY <1>2, <1>4, <2>1 DEF RingInv, RingType
  <1>9. CASE (h + 1) % RingCap # t
    <2>1. ring' = [ring EXCEPT !.buf[h] = x, !.head = (h + 1) % RingCap] /\ sent' = Append(sent, x)
      BY <1>1, <1>3, <1>9 DEF RecieveIrq, ringbuffer_push, ringbuffer_full
    <2>2. PICK g \in 0 .. RingCap - 1 : g = (h + 1) % RingCap
      BY <1>9, RingPushes
    <2>3. HeldAt(g, t) = d + 1 /\ SlotAt(t, d + 1) = h /\ \A k \in 1 .. d : SlotAt(t, k) # h
      BY <1>6, <1>9, <2>2, RingPushes
    <2>4. /\ ring'.head = g /\ ring'.tail = t /\ ring'.buf = [ring.buf EXCEPT ![h] = x]
          /\ ring' \in [buf: [0 .. RingCap - 1 -> Nat], head: 0 .. RingCap - 1, tail: 0 .. RingCap - 1]
      BY <1>1, <1>2, <2>1, <2>2
    <2>5. /\ sent' \in Seq(Nat) /\ Len(sent') = n + 1 /\ sent'[n + 1] = x
          /\ \A i \in 1 .. n : sent'[i] = sent[i]
      BY <1>2, <1>5, <2>1, AppendProperties
    <2>6. \A i \in 1 .. m : sent'[i] = read'[i]
      <3>1. \A i \in 1 .. m : i \in 1 .. n
        BY <1>7
      <3>2. QED
        BY <1>4, <1>7, <2>5, <3>1
    <2>7. ASSUME NEW k \in 1 .. d + 1 PROVE sent'[m + k] = ring'.buf[SlotAt(t, k)]
      <3>1. CASE k \in 1 .. d
        <4>1. m + k \in 1 .. n /\ SlotAt(t, k) # h /\ SlotAt(t, k) \in 0 .. RingCap - 1
          BY <1>6, <1>7, <2>3, <3>1, RingIndices
        <4>2. sent'[m + k] = sent[m + k] /\ sent[m + k] = ring.buf[SlotAt(t, k)]
          BY <1>7, <2>5, <3>1, <4>1
        <4>3. ring'.buf[SlotAt(t, k)] = ring.buf[SlotAt(t, k)]
          BY <1>2, <2>4, <4>1
        <4>4. QED
          BY <4>2, <4>3
      <3>2. CASE k = d + 1
        <4>1. m + k = n + 1 /\ SlotAt(t, k) = h
          BY <1>7, <2>3, <3>2
        <4>2. ring'.buf[h] = x
          BY <1>2, <2>4
        <4>3. QED
          BY <2>5, <4>1, <4>2
      <3>3. k \in 1 .. d \/ k = d + 1
        OBVIOUS
      <3>4. QED
        BY <3>1, <3>2, <3>3
    <2>8. Len(sent') = Len(read') + HeldAt(ring'.head, ring'.tail)
      <3>1. n + 1 = m + (d + 1)
        BY <1>7
      <3>2. QED
        BY <1>4, <1>5, <2>3, <2>4, <2>5, <3>1
    <2>9. RingType'
      BY <1>2, <1>4, <2>4, <2>5 DEF RingType
    <2>10. QED
      BY <1>4, <1>5, <2>3, <2>4, <2>6, <2>7, <2>8, <2>9 DEF RingInv
  <1>10. QED
    BY <1>8, <1>9

\* One turn of the reader.
LEMMA ReadKeeps ==
    ASSUME RingInv, ConsoleRead
    PROVE  RingInv'
  <1>1. PICK h \in 0 .. RingCap - 1, t \in 0 .. RingCap - 1 : h = ring.head /\ t = ring.tail
    BY DEF RingInv, RingType
  <1>2. /\ ring \in [buf: [0 .. RingCap - 1 -> Nat], head: 0 .. RingCap - 1, tail: 0 .. RingCap - 1]
        /\ fifo \in Seq(Nat) /\ sent \in Seq(Nat) /\ read \in Seq(Nat) /\ arrived \in Nat
    BY DEF RingInv, RingType
  <1>3. PICK x \in Nat : x = ring.buf[t]
    BY <1>2
  <1>4. /\ h # t /\ read' = Append(read, x) /\ ring' = [ring EXCEPT !.tail = (t + 1) % RingCap]
        /\ fifo' = fifo /\ sent' = sent /\ arrived' = arrived
    BY <1>1, <1>3 DEF ConsoleRead, ringbuffer_pop
  <1>5. PICK n \in Nat, m \in Nat : n = Len(sent) /\ m = Len(read)
    BY <1>2
  <1>6. PICK g \in 0 .. RingCap - 1 : g = (t + 1) % RingCap
    BY <1>4, RingPops
  <1>7. PICK d \in 0 .. RingCap - 1, e \in 0 .. RingCap - 1 : d = HeldAt(h, t) /\ e = HeldAt(h, g)
    BY RingIndices
  <1>8. d = e + 1 /\ SlotAt(t, 1) = t /\ \A k \in 1 .. e : SlotAt(g, k) = SlotAt(t, k + 1)
    BY <1>4, <1>6, <1>7, RingPops
  <1>9. /\ n = m + d /\ \A i \in 1 .. m : sent[i] = read[i]
        /\ \A k \in 1 .. d : sent[m + k] = ring.buf[SlotAt(t, k)]
    BY <1>1, <1>5, <1>7 DEF RingInv
  <1>10. /\ ring'.head = h /\ ring'.tail = g /\ ring'.buf = ring.buf
         /\ ring' \in [buf: [0 .. RingCap - 1 -> Nat], head: 0 .. RingCap - 1, tail: 0 .. RingCap - 1]
    BY <1>1, <1>2, <1>4, <1>6
  <1>11. /\ read' \in Seq(Nat) /\ Len(read') = m + 1 /\ read'[m + 1] = x
         /\ \A i \in 1 .. m : read'[i] = read[i]
    BY <1>2, <1>4, <1>5, AppendProperties
  <1>12. ASSUME NEW i \in 1 .. m + 1 PROVE sent'[i] = read'[i]
    <2>1. CASE i \in 1 .. m
      BY <1>4, <1>9, <1>11, <2>1
    <2>2. CASE i = m + 1
      <3>1. 1 \in 1 .. d
        BY <1>8
      <3>2. sent[m + 1] = ring.buf[SlotAt(t, 1)]
        BY <1>9, <3>1
      <3>3. QED
        BY <1>3, <1>4, <1>8, <1>11, <2>2, <3>2
    <2>3. i \in 1 .. m \/ i = m + 1
      OBVIOUS
    <2>4. QED
      BY <2>1, <2>2, <2>3
  <1>13. ASSUME NEW k \in 1 .. e PROVE sent'[(m + 1) + k] = ring'.buf[SlotAt(g, k)]
    <2>1. k + 1 \in 1 .. d /\ m + (k + 1) = (m + 1) + k
      BY <1>8
    <2>2. sent[m + (k + 1)] = ring.buf[SlotAt(t, k + 1)]
      BY <1>9, <2>1
    <2>3. QED
      BY <1>4, <1>8, <1>10, <2>1, <2>2
  <1>14. Len(sent') = Len(read') + HeldAt(ring'.head, ring'.tail)
    <2>1. n = (m + 1) + e
      BY <1>8, <1>9
    <2>2. QED
      BY <1>4, <1>5, <1>7, <1>10, <1>11, <2>1
  <1>15. RingType'
    BY <1>2, <1>4, <1>10, <1>11 DEF RingType
  <1>16. /\ \A i \in 1 .. Len(read') : sent'[i] = read'[i]
         /\ \A k \in 1 .. HeldAt(ring'.head, ring'.tail) :
              sent'[Len(read') + k] = ring'.buf[SlotAt(ring'.tail, k)]
    <2>1. HeldAt(ring'.head, ring'.tail) = e
      BY <1>7, <1>10
    <2>2. QED
      BY <1>10, <1>11, <1>12, <1>13, <2>1
  <1>17. QED
    BY <1>14, <1>15, <1>16 DEF RingInv

-----------------------------------------------------------------------------
(* The steps of the console                                                *)

ConsoleInv == /\ hist \in Seq(Message) /\ start \in [Backends -> Nat]
              /\ OutputOK(con, hist, start)
              /\ RingInv

LEMMA ConsoleStarts == ConsoleInit => ConsoleInv
  <1> SUFFICES ASSUME ConsoleInit PROVE ConsoleInv
    OBVIOUS
  <1>1. MsgCap \in Nat \ {0} /\ RingCap \in Nat \ {0, 1}
    BY ConsoleAssumption
  <1>2. hist = <<>> /\ hist \in Seq(Message) /\ start \in [Backends -> Nat] /\ Len(hist) = 0
    BY EmptySeq DEF ConsoleInit
  <1>3. OutputOK(con, hist, start)
    <2>1. /\ con.backends = <<>> /\ con.events = <<>> /\ con.used = 0 /\ con.dead = FALSE
          /\ con.mem = [p \in 0 .. MsgCap - 1 |-> 0] /\ con.buffering = FALSE
          /\ con.out = [b \in Backends |-> <<>>]
          /\ con = [backends |-> con.backends, events |-> con.events, used |-> con.used, mem |-> con.mem,
                    buffering |-> con.buffering, out |-> con.out, dead |-> con.dead]
      BY DEF ConsoleInit
    <2>2. /\ con.backends \in Seq(Backends) /\ con.events \in Seq([at: Nat, len: Nat]) /\ con.used \in Nat
          /\ con.mem \in [0 .. MsgCap - 1 -> Nat] /\ con.out \in [Backends -> Seq(Message)]
      <3>1. con.mem \in [0 .. MsgCap - 1 -> Nat] /\ con.used \in Nat
        BY <2>1
      <3>2. QED
        BY <2>1, <3>1, EmptySeq
    <2>3. con.buffering \in BOOLEAN /\ con.dead \in BOOLEAN
      BY <2>1
    <2>4. ConsoleType(con)
      BY <2>1, <2>2, <2>3, ConsoleRecord
    <2>5. ArenaOK(con, hist) /\ Len(con.backends) = 0
      BY <1>1, <1>2, <2>1 DEF ArenaOK
    <2>6. QED
      BY <2>1, <2>4, <2>5 DEF OutputOK
  <1>4. RingInv
    <2>1. /\ ring.head = 0 /\ ring.tail = 0 /\ sent = <<>> /\ read = <<>>
          /\ ring \in [buf: [0 .. RingCap - 1 -> Nat], head: 0 .. RingCap - 1, tail: 0 .. RingCap - 1]
      BY <1>1 DEF ConsoleInit
    <2>2. RingType
      BY <2>1, EmptySeq DEF ConsoleInit, RingType
    <2>3. HeldAt(0, 0) = 0
      BY DEF HeldAt
    <2>4. QED
      BY <2>1, <2>2, <2>3 DEF RingInv
  <1>5. QED
    BY <1>2, <1>3, <1>4 DEF ConsoleInv

\* console_register: the new backend owes what the arenas hold.
LEMMA RegisterKeeps ==
    ASSUME ConsoleInv, NEW b \in Backends, ConsoleRegister(b)
    PROVE  start' \in [Backends -> Nat] /\ OutputOK(con', hist, start')
  <1>1. /\ con.backends \in Seq(Backends) /\ con.events \in Seq([at: Nat, len: Nat]) /\ con.used \in Nat
        /\ con.mem \in [0 .. MsgCap - 1 -> Nat] /\ con.buffering \in BOOLEAN
        /\ con.out \in [Backends -> Seq(Message)] /\ con.dead \in BOOLEAN
    BY ConsoleFields DEF ConsoleInv, OutputOK
  <1>2. /\ ConsoleType(con) /\ ArenaOK(con, hist) /\ ~con.dead
        /\ \A i \in 1 .. Len(con.backends) : BackendOK(con, hist, con.backends[i], start[con.backends[i]])
    BY DEF ConsoleInv, OutputOK, ConsoleRegister
  <1>3. /\ con' = [con EXCEPT !.backends = <<b>> \o con.backends, !.out[b] = <<>>]
        /\ start' = [start EXCEPT ![b] = Len(hist) - Len(con.events)]
        /\ \A i \in 1 .. Len(con.backends) : con.backends[i] # b
    BY DEF ConsoleRegister, Contains
  <1>4. /\ con'.backends = <<b>> \o con.backends /\ con'.out = [con.out EXCEPT ![b] = <<>>]
        /\ con'.events = con.events /\ con'.used = con.used /\ con'.mem = con.mem
        /\ con'.buffering = con.buffering /\ con'.dead = con.dead
    BY <1>2, <1>3 DEF ConsoleType
  <1>5. PICK n \in Nat, m \in Nat : n = Len(hist) /\ m = Len(con.events) /\ m <= n
    BY <1>1, <1>2 DEF ConsoleInv, ArenaOK
  <1>6. /\ start' \in [Backends -> Nat] /\ start'[b] = n - m
        /\ \A x \in Backends : x # b => start'[x] = start[x]
    <2>1. n - m \in Nat /\ start \in [Backends -> Nat]
      BY <1>5 DEF ConsoleInv
    <2>2. QED
      BY <1>3, <1>5, <2>1
  <1>7. PICK r \in Nat : r = Len(con.backends)
    BY <1>1
  <1>8. /\ con'.backends \in Seq(Backends) /\ Len(con'.backends) = r + 1 /\ con'.backends[1] = b
        /\ \A i \in 1 .. r : con'.backends[i + 1] = con.backends[i]
    <2>1. <<b>> \in Seq(Backends) /\ Len(<<b>>) = 1 /\ <<b>>[1] = b
      OBVIOUS
    <2>2. PICK f \in Seq(Backends), q \in Seq(Backends) : f = <<b>> /\ q = con.backends
      BY <1>1, <2>1
    <2>3. /\ f \o q \in Seq(Backends) /\ Len(f \o q) = 1 + r
          /\ \A i \in 1 .. 1 + r : (f \o q)[i] = IF i <= 1 THEN f[i] ELSE q[i - 1]
      <3>1. /\ f \o q \in Seq(Backends) /\ Len(f \o q) = Len(f) + Len(q)
            /\ \A i \in 1 .. Len(f) + Len(q) : (f \o q)[i] = IF i <= Len(f) THEN f[i] ELSE q[i - Len(f)]
        BY ConcatProperties
      <3>2. QED
        BY <1>7, <2>1, <2>2, <3>1
    <2>4. \A i \in 1 .. r : (f \o q)[i + 1] = q[i]
      <3>1. \A i \in 1 .. r : i + 1 \in 1 .. 1 + r /\ ~(i + 1 <= 1) /\ (i + 1) - 1 = i
        OBVIOUS
      <3>2. QED
        BY <2>3, <3>1
    <2>5. (f \o q)[1] = b /\ 1 + r = r + 1
      BY <2>1, <2>2, <2>3
    <2>6. QED
      BY <1>4, <2>2, <2>3, <2>4, <2>5
  <1>9. con'.out \in [Backends -> Seq(Message)] /\ con'.out[b] = <<>>
        /\ \A x \in Backends : x # b => con'.out[x] = con.out[x]
    <2>1. <<>> \in Seq(Message)
      BY EmptySeq
    <2>2. QED
      BY <1>1, <1>4, <2>1
  <1>10. ConsoleType(con')
    <2>1. con' = [backends |-> con'.backends, events |-> con'.events, used |-> con'.used, mem |-> con'.mem,
                  buffering |-> con'.buffering, out |-> con'.out, dead |-> con'.dead]
      BY <1>2, <1>3 DEF ConsoleType
    <2>2. /\ con'.backends \in Seq(Backends) /\ con'.events \in Seq([at: Nat, len: Nat]) /\ con'.used \in Nat
          /\ con'.mem \in [0 .. MsgCap - 1 -> Nat] /\ con'.buffering \in BOOLEAN
          /\ con'.out \in [Backends -> Seq(Message)] /\ con'.dead \in BOOLEAN
      BY <1>1, <1>4, <1>8, <1>9, Zenon
    <2>3. QED
      BY <2>1, <2>2, ConsoleRecord
  <1>11. ArenaOK(con', hist)
    <2>1. \A e : Printed(con', e) = Printed(con, e)
      BY <1>4 DEF Printed
    <2>2. QED
      BY <1>2, <1>4, <2>1 DEF ArenaOK
  <1>12. ASSUME NEW i \in 1 .. r + 1
         PROVE  BackendOK(con', hist, con'.backends[i], start'[con'.backends[i]])
    <2>1. CASE i = 1
      <3>1. (n - m) + 0 + m = n
        OBVIOUS
      <3>2. start'[b] + Len(con'.out[b]) + Len(con'.events) = Len(hist) /\ Len(con'.out[b]) = 0
        BY <1>4, <1>5, <1>6, <1>9, <3>1
      <3>3. BackendOK(con', hist, b, start'[b])
        BY <3>2 DEF BackendOK
      <3>4. QED
        BY <1>8, <2>1, <3>3
    <2>2. CASE i > 1
      <3>1. PICK j \in 1 .. r : i = j + 1
        BY <2>2
      <3>2. PICK x \in Backends : x = con.backends[j] /\ x # b /\ x = con'.backends[i]
        BY <1>1, <1>3, <1>7, <1>8, <3>1, ElementOfSeq
      <3>3. BackendOK(con, hist, x, start[x])
        BY <1>2, <1>7, <3>2
      <3>4. con'.out[x] = con.out[x] /\ start'[x] = start[x] /\ con'.events = con.events
        BY <1>4, <1>6, <1>9, <3>2
      <3>5. BackendOK(con', hist, x, start'[x])
        BY <3>3, <3>4 DEF BackendOK
      <3>6. QED
        BY <3>2, <3>5
    <2>3. QED
      BY <2>1, <2>2
  <1>13. QED
    BY <1>2, <1>4, <1>6, <1>8, <1>10, <1>11, <1>12 DEF OutputOK

LEMMA RemovedBackend ==
    ASSUME NEW S, NEW s \in Seq(S), NEW k \in 1 .. Len(s)
    PROVE  /\ RemoveAt(s, k) \in Seq(S)
           /\ \A i \in 1 .. Len(RemoveAt(s, k)) : \E j \in 1 .. Len(s) : RemoveAt(s, k)[i] = s[j]
  <1>1. PICK n \in Nat : n = Len(s)
    OBVIOUS
  <1>2. \A i \in 1 .. n : s[i] \in S
    BY <1>1, ElementOfSeq
  <1>3. PICK a : a = SubSeq(s, 1, k - 1)
    OBVIOUS
  <1>4. PICK b : b = SubSeq(s, k + 1, n)
    OBVIOUS
  <1>5. a \in Seq(S) /\ Len(a) = k - 1 /\ \A i \in 1 .. k - 1 : a[i] = s[i]
    <2>1. k - 1 \in Int /\ 1 \in Int /\ \A i \in 1 .. k - 1 : s[i] \in S
      BY <1>1, <1>2
    <2>2. /\ a \in Seq(S) /\ Len(a) = IF 1 <= k - 1 THEN (k - 1) - 1 + 1 ELSE 0
          /\ \A i \in 1 .. (k - 1) - 1 + 1 : a[i] = s[1 + i - 1]
      BY <1>3, <2>1, SubSeqProperties
    <2>3. (k - 1) - 1 + 1 = k - 1 /\ (1 <= k - 1 \/ k - 1 = 0) /\ \A i \in 1 .. k - 1 : 1 + i - 1 = i
      BY <1>1
    <2>4. QED
      BY <2>2, <2>3
  <1>6. b \in Seq(S) /\ Len(b) = n - k /\ \A i \in 1 .. n - k : b[i] = s[k + i]
    <2>1. k + 1 \in Int /\ n \in Int /\ \A i \in k + 1 .. n : s[i] \in S
      BY <1>1, <1>2
    <2>2. /\ b \in Seq(S) /\ Len(b) = IF k + 1 <= n THEN n - (k + 1) + 1 ELSE 0
          /\ \A i \in 1 .. n - (k + 1) + 1 : b[i] = s[(k + 1) + i - 1]
      BY <1>4, <2>1, SubSeqProperties
    <2>3. n - (k + 1) + 1 = n - k /\ (k + 1 <= n \/ n - k = 0) /\ \A i \in 1 .. n - k : (k + 1) + i - 1 = k + i
      BY <1>1
    <2>4. QED
      BY <2>2, <2>3
  <1>7. RemoveAt(s, k) = a \o b
    BY <1>1, <1>3, <1>4 DEF RemoveAt
  <1>8. /\ a \o b \in Seq(S) /\ Len(a \o b) = (k - 1) + (n - k)
        /\ \A i \in 1 .. (k - 1) + (n - k) : (a \o b)[i] = IF i <= k - 1 THEN a[i] ELSE b[i - (k - 1)]
    <2>1. /\ a \o b \in Seq(S) /\ Len(a \o b) = Len(a) + Len(b)
          /\ \A i \in 1 .. Len(a) + Len(b) : (a \o b)[i] = IF i <= Len(a) THEN a[i] ELSE b[i - Len(a)]
      BY <1>5, <1>6, ConcatProperties
    <2>2. QED
      BY <1>5, <1>6, <2>1
  <1>9. ASSUME NEW i \in 1 .. (k - 1) + (n - k) PROVE \E j \in 1 .. n : (a \o b)[i] = s[j]
    <2>1. CASE i <= k - 1
      <3>1. i \in 1 .. k - 1 /\ i \in 1 .. n
        BY <1>1, <2>1
      <3>2. QED
        BY <1>5, <1>8, <2>1, <3>1
    <2>2. CASE i > k - 1
      <3>1. i - (k - 1) \in 1 .. n - k /\ k + (i - (k - 1)) \in 1 .. n /\ ~(i <= k - 1)
        BY <1>1, <2>2
      <3>2. (a \o b)[i] = s[k + (i - (k - 1))]
        BY <1>6, <1>8, <3>1
      <3>3. QED
        BY <3>1, <3>2
    <2>3. i <= k - 1 \/ i > k - 1
      BY <1>1
    <2>4. QED
      BY <2>1, <2>2, <2>3
  <1>10. QED
    BY <1>1, <1>7, <1>8, <1>9

\* console_unregister: the backends that stay are as they were.
LEMMA UnregisterKeeps ==
    ASSUME ConsoleInv, NEW b \in Backends, ConsoleUnregister(b)
    PROVE  OutputOK(con', hist, start)
  <1>1. /\ con.backends \in Seq(Backends) /\ con.events \in Seq([at: Nat, len: Nat]) /\ con.used \in Nat
        /\ con.mem \in [0 .. MsgCap - 1 -> Nat] /\ con.buffering \in BOOLEAN
        /\ con.out \in [Backends -> Seq(Message)] /\ con.dead \in BOOLEAN
    BY ConsoleFields DEF ConsoleInv, OutputOK
  <1>2. /\ ConsoleType(con) /\ ArenaOK(con, hist) /\ ~con.dead
        /\ \A i \in 1 .. Len(con.backends) : BackendOK(con, hist, con.backends[i], start[con.backends[i]])
    BY DEF ConsoleInv, OutputOK, ConsoleUnregister
  <1>3. PICK k \in 1 .. Len(con.backends) : con' = [con EXCEPT !.backends = RemoveAt(con.backends, k)]
    <2>1. DOMAIN con.backends = 1 .. Len(con.backends)
      BY <1>1, LenProperties
    <2>2. \E i \in DOMAIN con.backends : con.backends[i] = b
      BY <2>1 DEF ConsoleUnregister, Contains
    <2>3. (CHOOSE i \in DOMAIN con.backends : con.backends[i] = b) \in DOMAIN con.backends
      BY <2>2
    <2>4. con' = [con EXCEPT !.backends =
                      RemoveAt(con.backends, CHOOSE i \in DOMAIN con.backends : con.backends[i] = b)]
      BY DEF ConsoleUnregister
    <2>5. QED
      BY <2>1, <2>3, <2>4
  <1>4. PICK q : q = RemoveAt(con.backends, k)
    OBVIOUS
  <1>5. q \in Seq(Backends) /\ \A i \in 1 .. Len(q) : \E j \in 1 .. Len(con.backends) : q[i] = con.backends[j]
    <2>1. PICK s \in Seq(Backends) : s = con.backends
      BY <1>1
    <2>2. k \in 1 .. Len(s)
      BY <2>1
    <2>3. /\ RemoveAt(s, k) \in Seq(Backends)
          /\ \A i \in 1 .. Len(RemoveAt(s, k)) : \E j \in 1 .. Len(s) : RemoveAt(s, k)[i] = s[j]
      BY <2>2, RemovedBackend
    <2>4. q = RemoveAt(s, k)
      BY <1>4, <2>1
    <2>5. QED
      BY <2>1, <2>3, <2>4
  <1>6. /\ con'.backends = q /\ con'.out = con.out
        /\ con'.events = con.events /\ con'.used = con.used /\ con'.mem = con.mem
        /\ con'.buffering = con.buffering /\ con'.dead = con.dead
    BY <1>2, <1>3, <1>4 DEF ConsoleType
  <1>7. ConsoleType(con')
    <2>1. con' = [backends |-> con'.backends, events |-> con'.events, used |-> con'.used, mem |-> con'.mem,
                  buffering |-> con'.buffering, out |-> con'.out, dead |-> con'.dead]
      BY <1>2, <1>3 DEF ConsoleType
    <2>2. /\ con'.backends \in Seq(Backends) /\ con'.events \in Seq([at: Nat, len: Nat]) /\ con'.used \in Nat
          /\ con'.mem \in [0 .. MsgCap - 1 -> Nat] /\ con'.buffering \in BOOLEAN
          /\ con'.out \in [Backends -> Seq(Message)] /\ con'.dead \in BOOLEAN
      BY <1>1, <1>5, <1>6, Zenon
    <2>3. QED
      BY <2>1, <2>2, ConsoleRecord
  <1>8. ArenaOK(con', hist)
    <2>1. \A e : Printed(con', e) = Printed(con, e)
      BY <1>6 DEF Printed
    <2>2. QED
      BY <1>2, <1>6, <2>1 DEF ArenaOK
  <1>9. ASSUME NEW i \in 1 .. Len(q)
        PROVE  BackendOK(con', hist, q[i], start[q[i]])
    <2>1. PICK j \in 1 .. Len(con.backends) : q[i] = con.backends[j]
      BY <1>5
    <2>2. BackendOK(con, hist, q[i], start[q[i]])
      BY <1>2, <2>1
    <2>3. QED
      BY <1>6, <2>2 DEF BackendOK
  <1>10. QED
    BY <1>2, <1>6, <1>7, <1>8, <1>9 DEF OutputOK

\* Buffering is switched while the console lives.
LEMMA BufferingKeeps ==
    ASSUME ConsoleInv, NEW on \in BOOLEAN, SetBuffering(on)
    PROVE  OutputOK(con', hist, start)
  <1>1. ConsoleType(con) /\ ~con.dead /\ con' = [con EXCEPT !.buffering = on]
    BY DEF ConsoleInv, OutputOK, SetBuffering
  <1>2. /\ ConsoleType(con') /\ con'.backends = con.backends /\ con'.out = con.out
        /\ con'.events = con.events /\ con'.used = con.used /\ con'.mem = con.mem /\ con'.dead = con.dead
    BY <1>1 DEF ConsoleType
  <1>3. ArenaOK(con', hist)
    <2>1. \A e : Printed(con', e) = Printed(con, e)
      BY <1>2 DEF Printed
    <2>2. QED
      BY <1>1, <1>2, <2>1 DEF ConsoleInv, OutputOK, ArenaOK
  <1>4. ASSUME NEW i \in 1 .. Len(con.backends)
        PROVE  BackendOK(con', hist, con.backends[i], start[con.backends[i]])
    <2>1. BackendOK(con, hist, con.backends[i], start[con.backends[i]])
      BY <1>1 DEF ConsoleInv, OutputOK
    <2>2. QED
      BY <1>2, <2>1 DEF BackendOK
  <1>5. QED
    BY <1>1, <1>2, <1>3, <1>4 DEF OutputOK

\* Every step of the console.
LEMMA ConsoleSteps ==
    ASSUME ConsoleInv, [ConsoleNext]_consoleVars
    PROVE  ConsoleInv'
  <1>1. hist \in Seq(Message) /\ start \in [Backends -> Nat] /\ OutputOK(con, hist, start) /\ RingInv
    BY DEF ConsoleInv
  <1>2. ASSUME UNCHANGED <<ring, fifo, sent, read, arrived>> PROVE RingInv'
    BY <1>1, <1>2 DEF RingInv, RingType
  <1>3. ASSUME NEW b \in Backends, ConsoleRegister(b) PROVE ConsoleInv'
    <2>1. start' \in [Backends -> Nat] /\ OutputOK(con', hist, start') /\ hist' = hist
      BY <1>3, RegisterKeeps DEF ConsoleRegister
    <2>2. RingInv'
      BY <1>2, <1>3 DEF ConsoleRegister
    <2>3. QED
      BY <1>1, <2>1, <2>2 DEF ConsoleInv
  <1>4. ASSUME NEW b \in Backends, ConsoleUnregister(b) PROVE ConsoleInv'
    <2>1. OutputOK(con', hist, start) /\ hist' = hist /\ start' = start
      BY <1>4, UnregisterKeeps DEF ConsoleUnregister
    <2>2. RingInv'
      BY <1>2, <1>4 DEF ConsoleUnregister
    <2>3. QED
      BY <1>1, <2>1, <2>2 DEF ConsoleInv
  <1>5. ASSUME NEW len \in Lengths, NEW lens \in {<<len>>, <<1, len>>, <<1, 1, len>>}, Accept(lens),
               UNCHANGED <<ring, fifo, start, sent, read, arrived>>
        PROVE  ConsoleInv'
    <2>1. len \in Nat
      BY ConsoleAssumption
    <2>2. hist' \in Seq(Message) /\ OutputOK(con', hist', start)
      BY <1>1, <1>5, <2>1, Accepted
    <2>3. RingInv' /\ start' = start
      BY <1>2, <1>5
    <2>4. QED
      BY <1>1, <2>2, <2>3 DEF ConsoleInv
  <1>6. ASSUME NEW len \in Lengths, ConsoleWrite(len) PROVE ConsoleInv'
    BY <1>5, <1>6 DEF ConsoleWrite
  <1>7. ASSUME NEW c \in Cpus, NEW l \in Levels, NEW len \in Lengths, Log(c, l, len) PROVE ConsoleInv'
    BY <1>5, <1>7 DEF Log
  <1>8. ASSUME NEW c \in Cpus, NEW len \in Lengths, UserLog(c, len) PROVE ConsoleInv'
    BY <1>5, <1>8 DEF UserLog
  <1>9. ASSUME NEW c \in Cpus, LogFlush(c) PROVE ConsoleInv'
    <2>1. con' = _console_flush(con) /\ hist' = hist /\ start' = start
      BY <1>9 DEF LogFlush
    <2>2. OutputOK(_console_flush(con), hist, start)
      BY <1>1, FlushKeeps
    <2>3. RingInv'
      BY <1>2, <1>9 DEF LogFlush
    <2>4. QED
      BY <1>1, <2>1, <2>2, <2>3 DEF ConsoleInv
  <1>10. ASSUME NEW on \in BOOLEAN, SetBuffering(on) PROVE ConsoleInv'
    <2>1. OutputOK(con', hist, start) /\ hist' = hist /\ start' = start
      BY <1>10, BufferingKeeps DEF SetBuffering
    <2>2. RingInv'
      BY <1>2, <1>10 DEF SetBuffering
    <2>3. QED
      BY <1>1, <2>1, <2>2 DEF ConsoleInv
  <1>11. ASSUME UNCHANGED <<con, hist, start>>, RingInv' PROVE ConsoleInv'
    BY <1>1, <1>11 DEF ConsoleInv
  <1>12. ASSUME NEW l \in Levels, LogSetLevel(l) PROVE ConsoleInv'
    BY <1>2, <1>11, <1>12 DEF LogSetLevel
  <1>13. CASE UartReceives
    <2>1. arrived' \in Nat /\ fifo' \in Seq(Nat) /\ UNCHANGED <<con, hist, start, ring, sent, read>>
      <3>1. arrived \in Nat /\ fifo \in Seq(Nat) /\ arrived' = arrived + 1 /\ fifo' = Append(fifo, arrived + 1)
        BY <1>1, <1>13 DEF RingInv, RingType, UartReceives
      <3>2. QED
        BY <1>13, <3>1, AppendProperties DEF UartReceives
    <2>2. RingInv'
      BY <1>1, <2>1 DEF RingInv, RingType
    <2>3. QED
      BY <1>11, <2>1, <2>2
  <1>14. CASE RecieveIrq
    BY <1>1, <1>11, <1>14, ReceiveKeeps DEF RecieveIrq
  <1>15. CASE ConsoleRead
    BY <1>1, <1>11, <1>15, ReadKeeps DEF ConsoleRead
  <1>16. CASE UNCHANGED consoleVars
    BY <1>2, <1>11, <1>16 DEF consoleVars
  <1>17. QED
    BY <1>3, <1>4, <1>6, <1>7, <1>8, <1>9, <1>10, <1>12, <1>13, <1>14, <1>15, <1>16
       DEF ConsoleNext, Writing, Receiving

\* What the invariant says in the words of the properties.
LEMMA ConsoleInvSound == ConsoleInv => ConsoleSound
  <1> SUFFICES ASSUME ConsoleInv PROVE ConsoleSound
    OBVIOUS
  <1>1. hist \in Seq(Message) /\ start \in [Backends -> Nat] /\ OutputOK(con, hist, start) /\ RingInv
    BY DEF ConsoleInv
  <1>2. ConsoleType(con) /\ con.backends \in Seq(Backends) /\ con.events \in Seq([at: Nat, len: Nat])
        /\ con.out \in [Backends -> Seq(Message)]
    BY <1>1, ConsoleFields DEF OutputOK
  <1>3. EveryMessageOnce
    <2> SUFFICES ASSUME ~con.dead, NEW i \in DOMAIN con.backends
                 PROVE  LET b == con.backends[i]
                        IN  con.out[b] \o [k \in DOMAIN con.events |-> Printed(con, con.events[k])]
                              = SubSeq(hist, start[b] + 1, Len(hist))
      BY DEF EveryMessageOnce
    <2>1. PICK b \in Backends : b = con.backends[i] /\ BackendOK(con, hist, b, start[b])
      <3>1. i \in 1 .. Len(con.backends)
        BY <1>2, LenProperties
      <3>2. QED
        BY <1>1, <1>2, <3>1, ElementOfSeq DEF OutputOK
    <2>2. PICK q \in Seq(Message) : q = con.out[b]
      BY <1>2
    <2>3. PICK n \in Nat, m \in Nat, o \in Nat, s \in Nat :
              n = Len(hist) /\ m = Len(con.events) /\ DOMAIN con.events = 1 .. m /\ o = Len(q) /\ s = start[b]
      BY <1>1, <1>2, LenProperties
    <2>4. s + o + m = n /\ \A j \in 1 .. o : q[j] = hist[s + j]
      BY <2>1, <2>2, <2>3 DEF BackendOK
    <2>5. m <= n /\ \A k \in 1 .. m : Printed(con, con.events[k]) = hist[n - m + k]
      BY <1>1, <2>3 DEF OutputOK, ArenaOK
    <2>6. \A j \in 1 .. n : hist[j] \in Message
      BY <1>1, <2>3, ElementOfSeq
    <2>7. PICK all : all = [k \in 1 .. m |-> Printed(con, con.events[k])]
      OBVIOUS
    <2>8. all \in Seq(Message) /\ Len(all) = m /\ \A k \in 1 .. m : all[k] = hist[n - m + k]
      <3>1. ASSUME NEW k \in 1 .. m PROVE all[k] = hist[n - m + k] /\ all[k] \in Message
        <4>1. n - m + k \in 1 .. n
          BY <2>5
        <4>2. QED
          BY <2>5, <2>6, <2>7, <4>1
      <3>2. all \in [1 .. m -> Message]
        BY <2>7, <3>1
      <3>3. all \in Seq(Message) /\ Len(all) = m
        BY <3>2
      <3>4. QED
        BY <3>1, <3>3
    <2>9. /\ q \o all \in Seq(Message) /\ Len(q \o all) = o + m
          /\ \A j \in 1 .. o + m : (q \o all)[j] = IF j <= o THEN q[j] ELSE all[j - o]
      <3>1. /\ q \o all \in Seq(Message) /\ Len(q \o all) = Len(q) + Len(all)
            /\ \A j \in 1 .. Len(q) + Len(all) : (q \o all)[j] = IF j <= Len(q) THEN q[j] ELSE all[j - Len(q)]
        BY <2>8, ConcatProperties
      <3>2. QED
        BY <2>3, <2>8, <3>1
    <2>10. PICK u : u = SubSeq(hist, s + 1, n)
      OBVIOUS
    <2>11. u \in Seq(Message) /\ Len(u) = o + m /\ \A j \in 1 .. o + m : u[j] = hist[s + j]
      <3>1. s + 1 \in Int /\ n \in Int /\ \A j \in s + 1 .. n : hist[j] \in Message
        BY <2>6
      <3>2. /\ u \in Seq(Message) /\ Len(u) = IF s + 1 <= n THEN n - (s + 1) + 1 ELSE 0
            /\ \A j \in 1 .. n - (s + 1) + 1 : u[j] = hist[(s + 1) + j - 1]
        BY <2>10, <3>1, SubSeqProperties
      <3>3. n - (s + 1) + 1 = o + m /\ (s + 1 <= n \/ o + m = 0) /\ \A j \in 1 .. o + m : (s + 1) + j - 1 = s + j
        BY <2>4
      <3>4. QED
        BY <3>2, <3>3
    <2>12. ASSUME NEW j \in 1 .. o + m PROVE (q \o all)[j] = u[j]
      <3>1. CASE j <= o
        <4>1. j \in 1 .. o
          BY <3>1
        <4>2. (q \o all)[j] = q[j] /\ q[j] = hist[s + j] /\ u[j] = hist[s + j]
          BY <2>4, <2>9, <2>11, <3>1, <4>1
        <4>3. QED
          BY <4>2
      <3>2. CASE j > o
        <4>1. j - o \in 1 .. m /\ n - m + (j - o) = s + j /\ ~(j <= o)
          BY <2>4, <3>2
        <4>2. (q \o all)[j] = all[j - o] /\ all[j - o] = hist[n - m + (j - o)]
          BY <2>8, <2>9, <4>1
        <4>3. QED
          BY <2>11, <4>1, <4>2
      <3>3. j <= o \/ j > o
        OBVIOUS
      <3>4. QED
        BY <3>1, <3>2, <3>3
    <2>13. q \o all = u
      BY <2>9, <2>11, <2>12, SeqEqual
    <2>14. QED
      BY <2>1, <2>2, <2>3, <2>7, <2>10, <2>13
  <1>4. OnlyLongMessagePanics
    BY <1>1 DEF OutputOK, PanicOK, OnlyLongMessagePanics
  <1>5. RingIsQueue
    <2>1. PICK h \in 0 .. RingCap - 1, t \in 0 .. RingCap - 1 : h = ring.head /\ t = ring.tail
      BY <1>1 DEF RingInv, RingType
    <2>2. PICK d \in 0 .. RingCap - 1 : d = HeldAt(h, t) /\ d = (h - t + RingCap) % RingCap
      BY RingIndices
    <2>3. \A k \in 1 .. d : SlotAt(t, k) \in 0 .. RingCap - 1 /\ SlotAt(t, k) = (t + k - 1) % RingCap
      BY <2>2, RingIndices
    <2>4. sent \in Seq(Nat) /\ read \in Seq(Nat) /\ ring.buf \in [0 .. RingCap - 1 -> Nat]
      BY <1>1 DEF RingInv, RingType
    <2>5. PICK m \in Nat : m = Len(read)
      BY <2>4
    <2>6. /\ Len(sent) = m + d /\ \A i \in 1 .. m : sent[i] = read[i]
          /\ \A k \in 1 .. d : sent[m + k] = ring.buf[SlotAt(t, k)]
      BY <1>1, <2>1, <2>2, <2>5 DEF RingInv
    <2>7. PICK w : w = [k \in 1 .. d |-> ring.buf[(t + k - 1) % RingCap]]
      OBVIOUS
    <2>8. w \in Seq(Nat) /\ Len(w) = d /\ \A k \in 1 .. d : w[k] = sent[m + k]
      <3>1. ASSUME NEW k \in 1 .. d PROVE w[k] = sent[m + k] /\ w[k] \in Nat
        <4>1. w[k] = ring.buf[SlotAt(t, k)] /\ SlotAt(t, k) \in 0 .. RingCap - 1
          BY <2>3, <2>7
        <4>2. QED
          BY <2>4, <2>6, <4>1
      <3>2. w \in [1 .. d -> Nat]
        BY <2>7, <3>1
      <3>3. w \in Seq(Nat) /\ Len(w) = d
        BY <3>2
      <3>4. QED
        BY <3>1, <3>3
    <2>9. /\ read \o w \in Seq(Nat) /\ Len(read \o w) = m + d
          /\ \A i \in 1 .. m + d : (read \o w)[i] = IF i <= m THEN read[i] ELSE w[i - m]
      <3>1. /\ read \o w \in Seq(Nat) /\ Len(read \o w) = Len(read) + Len(w)
            /\ \A i \in 1 .. Len(read) + Len(w) : (read \o w)[i] = IF i <= Len(read) THEN read[i] ELSE w[i - Len(read)]
        BY <2>4, <2>8, ConcatProperties
      <3>2. QED
        BY <2>5, <2>8, <3>1
    <2>10. ASSUME NEW i \in 1 .. m + d PROVE sent[i] = (read \o w)[i]
      <3>1. CASE i <= m
        BY <2>6, <2>9, <3>1
      <3>2. CASE i > m
        <4>1. i - m \in 1 .. d /\ m + (i - m) = i /\ ~(i <= m)
          BY <3>2
        <4>2. QED
          BY <2>8, <2>9, <4>1
      <3>3. i <= m \/ i > m
        OBVIOUS
      <3>4. QED
        BY <3>1, <3>2, <3>3
    <2>11. sent = read \o w
      BY <2>4, <2>6, <2>9, <2>10, SeqEqual
    <2>12. QED
      BY <2>1, <2>2, <2>7, <2>11 DEF RingIsQueue
  <1>6. QED
    BY <1>3, <1>4, <1>5 DEF ConsoleSound

(* _console_write, _console_flush and the receive ring: every backend      *)
(* prints each message once, whole and in order; the assertions of         *)
(* write_event fail only for a message longer than the arena or unbuffered *)
(* behind pending events; the reader gets what the ring accepted in order. *)
THEOREM ConsoleStaysSound == ConsoleSpec => []ConsoleSound
  <1>1. ConsoleInit => ConsoleInv
    BY ConsoleStarts
  <1>2. ConsoleInv /\ [ConsoleNext]_consoleVars => ConsoleInv'
    BY ConsoleSteps
  <1>3. ConsoleInv => ConsoleSound
    BY ConsoleInvSound
  <1>4. QED
    BY <1>1, <1>2, <1>3, PTL DEF ConsoleSpec

-----------------------------------------------------------------------------
(* The set-up of the framebuffer                                           *)

LEMMA LeastOf ==
    ASSUME NEW I, I \subseteq Nat, I # {}
    PROVE  \E n \in I : \A k \in I : n <= k
  <1>1. \E n \in I : \A k \in I : ~ (<<k, n>> \in OpToRel(<, Nat))
    BY NatLessThanWellFounded, WFMin
  <1>2. ASSUME NEW k \in Nat, NEW n \in Nat, k < n
        PROVE  <<k, n>> \in OpToRel(<, Nat)
    BY <1>2, Zenon DEF OpToRel
  <1>3. \E n \in I : \A k \in I : ~ (k < n)
    BY <1>1, <1>2
  <1>4. QED
    BY <1>3

\* Division: how often d goes into x, and into more than x.
LEMMA HowOften ==
    ASSUME NEW d \in Nat \ {0}, NEW x \in Nat
    PROVE  x \div d \in Nat /\ (x \div d) * d \in Nat /\ (x \div d) * d <= x /\ x < (x \div d) * d + d
  <1>1. x \div d \in Nat /\ (x \div d) * d <= x /\ x < (x \div d) * d + d
    OBVIOUS
  <1>2. PICK q \in Nat : q = x \div d
    BY <1>1
  <1>3. q * d \in Nat
    OBVIOUS
  <1>4. QED
    BY <1>1, <1>2, <1>3

LEMMA WhatIsLeft ==
    ASSUME NEW d \in Nat \ {0}, NEW x \in Nat
    PROVE  \E q \in Nat, r \in Nat : q = x \div d /\ r = x % d /\ q * d \in Nat /\ x = q * d + r
  <1>1. x \div d \in Nat /\ x % d \in Nat
    OBVIOUS
  <1>2. PICK q \in Nat, r \in Nat : q = x \div d /\ r = x % d
    BY <1>1
  <1>3. x % d = x - (x \div d) * d
    OBVIOUS
  <1>4. PICK m \in Nat : m = q * d
    OBVIOUS
  <1>5. r = x - m
    BY <1>2, <1>3, <1>4
  <1>6. x = m + r
    BY <1>5
  <1>7. QED
    BY <1>2, <1>4, <1>6

LEMMA MoreOften ==
    ASSUME NEW d \in Nat \ {0}, NEW p \in Nat, NEW q \in Nat, p <= q
    PROVE  p * d \in Nat /\ q * d \in Nat /\ p * d <= q * d /\ (p < q => p * d + d <= q * d)
  <1>1. PICK k \in Nat : q = p + k
    OBVIOUS
  <1>2. q * d = p * d + k * d /\ k * d \in Nat /\ p * d \in Nat /\ q * d \in Nat
    BY <1>1
  <1>3. p * d <= q * d
    BY <1>2
  <1>4. ASSUME p < q PROVE p * d + d <= q * d
    <2>1. PICK j \in Nat : q = p + 1 + j
      BY <1>4
    <2>2. q * d = p * d + d + j * d /\ j * d \in Nat
      BY <2>1
    <2>3. QED
      BY <1>2, <2>2
  <1>5. QED
    BY <1>2, <1>3, <1>4

LEMMA OftenEnough ==
    ASSUME NEW d \in Nat \ {0}, NEW x \in Nat, NEW q \in Nat, q * d <= x
    PROVE  q <= x \div d
  <1>1. PICK r \in Nat : r = x \div d
    BY HowOften
  <1>2. x < r * d + d /\ r * d \in Nat /\ q * d \in Nat
    BY <1>1, HowOften
  <1>3. CASE r < q
    BY <1>2, <1>3, MoreOften
  <1>4. QED
    BY <1>1, <1>3

LEMMA ProductGrows ==
    ASSUME NEW a \in Nat, NEW b \in Nat, NEW c \in Nat, NEW d \in Nat, a <= c, b <= d
    PROVE  a * b \in Nat /\ c * d \in Nat /\ a * b <= c * d
  <1>1. PICK i \in Nat, j \in Nat : c = a + i /\ d = b + j
    OBVIOUS
  <1>2. c * d = a * b + a * j + i * b + i * j
    BY <1>1
  <1>3. a * b \in Nat /\ a * j \in Nat /\ i * b \in Nat /\ i * j \in Nat /\ c * d \in Nat
    OBVIOUS
  <1>4. QED
    BY <1>2, <1>3

-----------------------------------------------------------------------------
(* The limit of the screen.                                                *)
LEMMA BuildType ==
    ASSUME build \in Builds
    PROVE  /\ build.pool \in Nat /\ build.aw \in Nat \ {0} /\ build.ah \in Nat \ {0} /\ build.base \in 0 .. 15
           /\ build.pool >= 16 /\ build.pool < (MaxK \div 16) * (MaxK \div 16) * CellBytes
           /\ CtxBytes \in Nat /\ MaxK \in Nat
  BY GeometryAssumption

LEMMA GcdIsDivisor ==
    ASSUME NEW a \in Nat \ {0}, NEW b \in Nat \ {0}
    PROVE  Gcd(a, b) \in 1 .. a /\ a % Gcd(a, b) = 0 /\ b % Gcd(a, b) = 0
  <1>1. PICK D : D = {d \in 1 .. a : a % d = 0 /\ b % d = 0}
    OBVIOUS
  <1>2. 1 \in D
    BY <1>1
  <1>3. PICK I : I = {a - d : d \in D}
    OBVIOUS
  <1>4. I \subseteq Nat /\ I # {}
    BY <1>1, <1>2, <1>3
  <1>5. PICK n \in I : \A k \in I : n <= k
    BY <1>4, LeastOf
  <1>6. PICK d \in D : n = a - d
    BY <1>3
  <1>7. d \in 1 .. a /\ a % d = 0 /\ b % d = 0
    BY <1>1
  <1>8. ASSUME NEW e \in d + 1 .. a PROVE a % e # 0 \/ b % e # 0
    <2>1. SUFFICES ASSUME a % e = 0, b % e = 0 PROVE FALSE
      OBVIOUS
    <2>2. e \in D
      BY <1>1, <1>7, <2>1
    <2>3. a - e \in I
      BY <1>3, <2>2
    <2>4. a - d <= a - e
      BY <1>5, <1>6, <2>3
    <2>5. QED
      BY <1>7, <2>4
  <1>9. \E x \in 1 .. a : a % x = 0 /\ b % x = 0 /\ \A e \in x + 1 .. a : a % e # 0 \/ b % e # 0
    BY <1>7, <1>8
  <1>10. QED
    BY <1>9 DEF Gcd

\* The reduced aspect ratio has two sides.
LEMMA Reduced ==
    ASSUME NEW a \in Nat \ {0}, NEW d \in Nat \ {0}, a % d = 0
    PROVE  a \div d \in Nat \ {0}
  <1>1. PICK q \in Nat, r \in Nat : q = a \div d /\ r = a % d /\ a = q * d + r
    BY WhatIsLeft
  <1>2. q # 0
    BY <1>1
  <1>3. QED
    BY <1>1, <1>2

LEMMA CellCapacity ==
    ASSUME build \in Builds
    PROVE  /\ CapCells \in Nat /\ FixedBytes \in Nat /\ FixedBytes = CtxBytes + 41072
           /\ CapCells # 0 => FixedBytes + CapCells * CellBytes <= build.pool
           /\ CapCells * CellBytes <= build.pool
  <1>1. FixedBytes = CtxBytes + 41072 /\ FixedBytes \in Nat /\ CellBytes = 56 /\ build.pool \in Nat
    BY BuildType DEF FixedBytes, FontBits, FontBool, FontGlyphs, CellBytes
  <1>2. CASE build.pool > FixedBytes
    <2>1. PICK x \in Nat : x = build.pool - FixedBytes
      BY <1>1, <1>2
    <2>2. CapCells = x \div 56
      BY <1>1, <1>2, <2>1 DEF CapCells
    <2>3. CapCells \in Nat /\ CapCells * 56 <= x
      BY <2>2
    <2>4. QED
      BY <1>1, <2>1, <2>3
  <1>3. CASE ~(build.pool > FixedBytes)
    BY <1>1, <1>3 DEF CapCells
  <1>4. QED
    BY <1>2, <1>3

\* The search ends, and what it ends with fits.
LEMMA LimitFits ==
    ASSUME build \in Builds
    PROVE  LET limit == bump_pool_limits
           IN  /\ limit.w \in Nat /\ limit.h \in Nat
               /\ limit.w = 0 \/ (limit.w \div 9) * (limit.h \div 16) <= CapCells
               /\ CapCells = 0 => limit.w = 0
  <1>1. PICK g \in Nat \ {0} : g = Gcd(build.aw, build.ah) /\ build.aw % g = 0 /\ build.ah % g = 0
    <2>1. /\ Gcd(build.aw, build.ah) \in 1 .. build.aw /\ build.aw \in Nat
          /\ build.aw % Gcd(build.aw, build.ah) = 0 /\ build.ah % Gcd(build.aw, build.ah) = 0
      BY BuildType, GcdIsDivisor
    <2>2. Gcd(build.aw, build.ah) \in Nat \ {0}
      BY <2>1
    <2>3. QED
      BY <2>1, <2>2
  <1>2. PICK aw \in Nat \ {0}, ah \in Nat \ {0} : aw = build.aw \div g /\ ah = build.ah \div g
    BY <1>1, BuildType, Reduced
  <1>d. DEFINE fits(j) == CellsFit((aw * j) \div 9, (ah * j) \div 16)
  <1>3. PICK k : k = StepsThatFit(aw, ah) /\ bump_pool_limits = [w |-> aw * k, h |-> ah * k]
    BY <1>1, <1>2 DEF bump_pool_limits
  <1>4. CASE CapCells = 0
    <2>1. k = 0 /\ aw * k = 0 /\ ah * k = 0
      BY <1>3, <1>4 DEF StepsThatFit
    <2>2. QED
      BY <1>3, <2>1
  <1>5. CASE CapCells # 0
    <2>1. ~fits(MaxK) /\ MaxK # 0
      <3>1. PICK m \in Nat : m = MaxK \div 16 /\ m * 16 <= MaxK /\ MaxK \in Nat
        BY BuildType, HowOften
      <3>2. CapCells \in Nat /\ CapCells * 56 < m * m * 56
        BY <3>1, BuildType, CellCapacity DEF CellBytes
      <3>3. CapCells < m * m
        BY <3>2
      <3>4. aw * MaxK >= MaxK /\ ah * MaxK >= MaxK /\ aw * MaxK \in Nat /\ ah * MaxK \in Nat
        <4>1. ASSUME NEW n \in Nat \ {0} PROVE n * MaxK \in Nat /\ n * MaxK >= MaxK
          <5>1. 1 * MaxK <= n * MaxK /\ n * MaxK \in Nat
            BY <3>1, ProductGrows
          <5>2. QED
            BY <3>1, <5>1
        <4>2. QED
          BY <4>1
      <3>5. m <= (aw * MaxK) \div 9 /\ m <= (ah * MaxK) \div 16
        <4>1. m * 9 <= aw * MaxK /\ m * 16 <= ah * MaxK
          BY <3>1, <3>4
        <4>2. QED
          BY <3>4, <4>1, OftenEnough
      <3>6. PICK c \in Nat, r \in Nat : c = (aw * MaxK) \div 9 /\ r = (ah * MaxK) \div 16
        BY <3>4, HowOften
      <3>7. m * m <= c * r /\ m * m \in Nat /\ c * r \in Nat
        BY <3>5, <3>6, ProductGrows
      <3>8. ~CellsFit(c, r)
        BY <3>2, <3>3, <3>7 DEF CellsFit
      <3>9. MaxK # 0
        BY <3>1, <3>2, <3>3
      <3>10. QED
        BY <3>6, <3>8, <3>9
    <2>2. PICK J : J = {j \in 0 .. MaxK : ~fits(j + 1)}
      OBVIOUS
    <2>h. MaxK \in Nat
      BY BuildType
    <2>3. MaxK - 1 \in J
      <3>1. MaxK - 1 \in 0 .. MaxK /\ (MaxK - 1) + 1 = MaxK
        BY <2>1, <2>h
      <3>2. QED
        BY <2>1, <2>2, <3>1
    <2>4. PICK n \in J : \A i \in J : n <= i
      <3>1. J \subseteq Nat
        BY <2>2, <2>h
      <3>2. QED
        BY <2>3, <3>1, LeastOf
    <2>5. n \in 0 .. MaxK /\ ~fits(n + 1)
      BY <2>2
    <2>6. ASSUME NEW i \in 1 .. n PROVE fits(i)
      <3>1. i - 1 \in 0 .. MaxK /\ i - 1 \notin J /\ (i - 1) + 1 = i
        BY <2>4, <2>5, <2>h
      <3>2. QED
        BY <2>2, <3>1
    <2>7. \E j \in 0 .. MaxK: ~fits(j + 1) /\ \A i \in 1 .. j: fits(i)
      BY <2>5, <2>6
    <2>8. k \in 0 .. MaxK /\ \A i \in 1 .. k : fits(i)
      <3>1. k = CHOOSE j \in 0 .. MaxK: ~fits(j + 1) /\ \A i \in 1 .. j: fits(i)
        BY <1>3, <1>5 DEF StepsThatFit
      <3>h. HIDE DEF fits
      <3>2. QED
        BY <2>7, <3>1
    <2>9. k \in Nat /\ aw * k \in Nat /\ ah * k \in Nat
      BY <2>8, <2>h
    <2>10. CASE k = 0
      <3>1. aw * k = 0
        BY <2>10
      <3>2. QED
        BY <1>3, <1>5, <2>9, <3>1
    <2>11. CASE k # 0
      <3>1. k \in 1 .. k
        BY <2>9, <2>11
      <3>2. fits(k)
        BY <2>8, <3>1
      <3>3. ((aw * k) \div 9) * ((ah * k) \div 16) <= CapCells
        BY <3>2 DEF CellsFit
      <3>4. QED
        BY <1>3, <1>5, <2>9, <3>3
    <2>12. QED
      BY <2>10, <2>11
  <1>6. QED
    BY <1>4, <1>5

-----------------------------------------------------------------------------
(* The place of the cells.                                                 *)

\* The cells fit inside the area and the area fits into the framebuffer.
Placed(g) ==
    /\ {g.cols, g.rows, g.gw, g.gh} \subseteq Nat \ {0}
    /\ {g.ox, g.oy, g.x, g.y, g.w, g.h, g.width, g.height} \subseteq Nat
    /\ g.rotation \in {0, 90, 180, 270}
    /\ g.ox + g.cols * g.gw <= g.w /\ g.oy + g.rows * g.gh <= g.h
    /\ IF g.rotation \in {90, 270} THEN g.x + g.h <= g.width /\ g.y + g.w <= g.height
       ELSE g.x + g.w <= g.width /\ g.y + g.h <= g.height

\* What is cut off is cut off on both sides.
LEMMA Middle ==
    ASSUME NEW n \in Nat, NEW m \in Nat
    PROVE  LET cut == IF n > m THEN m ELSE n
           IN  /\ cut \in Nat /\ cut <= m /\ cut <= n
               /\ n \div 2 - cut \div 2 \in Nat /\ (n \div 2 - cut \div 2) + cut <= n
  OBVIOUS

LEMMA CallType ==
    ASSUME NEW a \in Calls
    PROVE  /\ a.width \in Nat /\ a.height \in Nat /\ a.margin \in Nat /\ a.scale \in Nat
           /\ a.rotation \in {0, 90, 180, 270}
  <1>1. SizeMax \in Nat /\ SizeMax \div 16 \in Nat
    BY GeometryAssumption, HowOften
  <1>2. QED
    BY <1>1, GeometryAssumption

LEMMA CentredFits ==
    ASSUME NEW a \in Calls, NEW limit, limit.w \in Nat, limit.h \in Nat
    PROVE  LET s == Centred(a, limit)
           IN  /\ s.w \in Nat /\ s.h \in Nat /\ s.x \in Nat /\ s.y \in Nat /\ s.scale \in Nat \ {0}
               /\ s.w <= limit.w /\ s.h <= limit.h
               /\ IF a.rotation \in {90, 270} THEN s.x + s.h <= a.width /\ s.y + s.w <= a.height
                  ELSE s.x + s.w <= a.width /\ s.y + s.h <= a.height
  <1>1. PICK w \in Nat, h \in Nat :
           w = (IF Turned(a) THEN a.height ELSE a.width) /\ h = (IF Turned(a) THEN a.width ELSE a.height)
    BY CallType
  <1>2. PICK lw \in Nat, lh \in Nat :
           lw = (IF w > limit.w THEN limit.w ELSE w) /\ lh = (IF h > limit.h THEN limit.h ELSE h)
    OBVIOUS
  <1>3. PICK dx \in Nat, dy \in Nat : dx = w \div 2 - lw \div 2 /\ dy = h \div 2 - lh \div 2
    BY <1>2, Middle
  <1>4. lw <= limit.w /\ lh <= limit.h /\ dx + lw <= w /\ dy + lh <= h
    BY <1>2, <1>3, Middle
  <1>5. PICK scale \in Nat \ {0} : scale = ScaleOf(w, h, a.scale)
    BY CallType DEF ScaleOf
  <1>6. Centred(a, limit) = [w |-> lw, h |-> lh, scale |-> scale,
         x |-> IF Turned(a) THEN dy ELSE dx, y |-> IF Turned(a) THEN dx ELSE dy]
    BY <1>1, <1>2, <1>3, <1>5 DEF Centred
  <1>7. Turned(a) <=> a.rotation \in {90, 270}
    BY DEF Turned
  <1>8. QED
    BY <1>1, <1>4, <1>6, <1>7

\* One direction of the grid: n pixels, a margin on both sides, glyphs of size g.
LEMMA CellsInside ==
    ASSUME NEW n \in Nat, NEW m \in Nat, 2 * m < n, NEW u \in Nat \ {0}, NEW s \in Nat \ {0}
    PROVE  LET g == u * s
               cells == (n - 2 * m) \div g
               first == m + (((n - 2 * m) % g) \div 2)
           IN  /\ g \in Nat \ {0} /\ cells \in Nat /\ first \in Nat
               /\ first + cells * g <= n /\ cells * g \in Nat
               /\ cells <= n \div u
  <1>1. PICK g \in Nat \ {0} : g = u * s /\ u <= g
    <2>1. u * 1 <= u * s /\ u * s \in Nat
      BY ProductGrows
    <2>2. u * s \in Nat \ {0} /\ u <= u * s
      BY <2>1
    <2>3. QED
      BY <2>2
  <1>2. PICK i \in Nat : i = n - 2 * m
    OBVIOUS
  <1>3. PICK q \in Nat, r \in Nat : q = i \div g /\ r = i % g /\ i = q * g + r /\ q * g \in Nat
    BY WhatIsLeft
  <1>4. r \div 2 \in Nat /\ r \div 2 <= r
    OBVIOUS
  <1>5. m + (r \div 2) + q * g <= n
    BY <1>2, <1>3, <1>4
  <1>6. q * u <= q * g /\ q * u \in Nat
    BY <1>1, ProductGrows
  <1>7. q * u <= n
    BY <1>2, <1>3, <1>6
  <1>8. q <= n \div u
    BY <1>7, OftenEnough
  <1>9. QED
    BY <1>1, <1>2, <1>3, <1>4, <1>5, <1>8

LEMMA GridPlaced ==
    ASSUME build \in Builds, NEW a \in Calls, ~TooSmall(a, Grid(a, Limited(a)))
    PROVE  LET g == Grid(a, Limited(a))
           IN  Placed(g) /\ g.cols * g.rows \in Nat /\ g.cols * g.rows <= CapCells /\ CapCells # 0
  <1>1. PICK limit : limit = bump_pool_limits
    OBVIOUS
  <1>2. /\ limit.w \in Nat /\ limit.h \in Nat
        /\ limit.w = 0 \/ (limit.w \div 9) * (limit.h \div 16) <= CapCells
        /\ CapCells = 0 => limit.w = 0
    BY <1>1, LimitFits
  <1>3. PICK s : s = Limited(a)
    OBVIOUS
  <1>4. /\ s.w \in Nat /\ s.h \in Nat /\ s.x \in Nat /\ s.y \in Nat /\ s.scale \in Nat \ {0}
        /\ s.w <= limit.w /\ s.h <= limit.h
        /\ IF a.rotation \in {90, 270} THEN s.x + s.h <= a.width /\ s.y + s.w <= a.height
           ELSE s.x + s.w <= a.width /\ s.y + s.h <= a.height
    BY <1>1, <1>2, <1>3, CentredFits DEF Limited
  <1>5. PICK g : g = Grid(a, s)
    OBVIOUS
  <1>6. /\ g.gw = 9 * s.scale /\ g.gh = 16 * s.scale /\ g.w = s.w /\ g.h = s.h /\ g.x = s.x /\ g.y = s.y
        /\ g.rotation = a.rotation /\ g.width = a.width /\ g.height = a.height
        /\ g.cols = (s.w - 2 * a.margin) \div (9 * s.scale) /\ g.rows = (s.h - 2 * a.margin) \div (16 * s.scale)
        /\ g.ox = a.margin + (((s.w - 2 * a.margin) % (9 * s.scale)) \div 2)
        /\ g.oy = a.margin + (((s.h - 2 * a.margin) % (16 * s.scale)) \div 2)
    BY <1>5 DEF Grid
  <1>7. a.margin * 2 < s.w /\ a.margin * 2 < s.h /\ g.cols # 0 /\ g.rows # 0
    BY <1>3, <1>4, <1>5, <1>6, CallType DEF TooSmall
  <1>n. PICK w \in Nat, h \in Nat, m \in Nat, scale \in Nat \ {0} :
           w = s.w /\ h = s.h /\ m = a.margin /\ scale = s.scale /\ 2 * m < w /\ 2 * m < h
    <2>1. a.margin \in Nat /\ 2 * a.margin = a.margin * 2
      BY CallType
    <2>2. QED
      BY <1>4, <1>7, <2>1
  <1>8. /\ g.gw \in Nat \ {0} /\ g.cols \in Nat /\ g.ox \in Nat
        /\ g.ox + g.cols * g.gw <= s.w /\ g.cols * g.gw \in Nat /\ g.cols <= s.w \div 9
    <2>u. PICK u \in Nat \ {0} : u = 9
      OBVIOUS
    <2>1. /\ u * scale \in Nat \ {0} /\ (w - 2 * m) \div (u * scale) \in Nat
          /\ m + (((w - 2 * m) % (u * scale)) \div 2) \in Nat
          /\ m + (((w - 2 * m) % (u * scale)) \div 2) + ((w - 2 * m) \div (u * scale)) * (u * scale) <= w
          /\ ((w - 2 * m) \div (u * scale)) * (u * scale) \in Nat
          /\ (w - 2 * m) \div (u * scale) <= w \div u
      BY <1>n, CellsInside
    <2>2. QED
      BY <1>6, <1>n, <2>1, <2>u
  <1>9. /\ g.gh \in Nat \ {0} /\ g.rows \in Nat /\ g.oy \in Nat
        /\ g.oy + g.rows * g.gh <= s.h /\ g.rows * g.gh \in Nat /\ g.rows <= s.h \div 16
    <2>u. PICK u \in Nat \ {0} : u = 16
      OBVIOUS
    <2>1. /\ u * scale \in Nat \ {0} /\ (h - 2 * m) \div (u * scale) \in Nat
          /\ m + (((h - 2 * m) % (u * scale)) \div 2) \in Nat
          /\ m + (((h - 2 * m) % (u * scale)) \div 2) + ((h - 2 * m) \div (u * scale)) * (u * scale) <= h
          /\ ((h - 2 * m) \div (u * scale)) * (u * scale) \in Nat
          /\ (h - 2 * m) \div (u * scale) <= h \div u
      BY <1>n, CellsInside
    <2>2. QED
      BY <1>6, <1>n, <2>1, <2>u
  <1>10. Placed(g)
    BY <1>4, <1>6, <1>7, <1>8, <1>9, CallType DEF Placed
  <1>11. limit.w # 0
    BY <1>2, <1>4, <1>7, CallType
  <1>12. PICK c \in Nat, r \in Nat : c = limit.w \div 9 /\ r = limit.h \div 16
    BY <1>2, HowOften
  <1>13. g.cols <= c /\ g.rows <= r
    <2>1. s.w \div 9 <= limit.w \div 9 /\ s.h \div 16 <= limit.h \div 16
      BY <1>2, <1>4
    <2>2. s.w \div 9 \in Nat /\ s.h \div 16 \in Nat
      BY <1>4, HowOften
    <2>3. QED
      BY <1>8, <1>9, <1>12, <2>1, <2>2
  <1>14. g.cols * g.rows \in Nat /\ c * r \in Nat /\ g.cols * g.rows <= c * r
    BY <1>8, <1>9, <1>13, ProductGrows
  <1>15. c * r <= CapCells /\ CapCells \in Nat /\ CapCells # 0
    BY <1>2, <1>11, <1>12, CellCapacity
  <1>16. QED
    BY <1>3, <1>5, <1>10, <1>14, <1>15

\* A cell of the grid covers pixels of the area.
LEMMA CellInArea ==
    ASSUME NEW o \in Nat, NEW c \in Nat \ {0}, NEW g \in Nat \ {0}, NEW n \in Nat, o + c * g <= n,
           NEW i \in {0, c - 1}, NEW p \in {0, g - 1}
    PROVE  o + i * g \in Nat /\ p \in Nat /\ o + i * g + p < n
  <1>1. i \in Nat /\ i < c /\ p \in Nat /\ p < g
    OBVIOUS
  <1>2. i * g \in Nat /\ c * g \in Nat /\ i * g + g <= c * g
    BY <1>1, MoreOften
  <1>3. QED
    BY <1>1, <1>2

LEMMA PixelsInside ==
    ASSUME NEW g, Placed(g),
           NEW cx \in {0, g.cols - 1}, NEW cy \in {0, g.rows - 1}, NEW gx \in {0, g.gw - 1}, NEW gy \in {0, g.gh - 1}
    PROVE  LET p == Pixel(g, cx, cy, gx, gy)
           IN  0 <= p.x /\ p.x < g.width /\ 0 <= p.y /\ p.y < g.height
  <1>1. /\ g.cols \in Nat \ {0} /\ g.rows \in Nat \ {0} /\ g.gw \in Nat \ {0} /\ g.gh \in Nat \ {0}
        /\ g.ox \in Nat /\ g.oy \in Nat /\ g.x \in Nat /\ g.y \in Nat /\ g.w \in Nat /\ g.h \in Nat
        /\ g.width \in Nat /\ g.height \in Nat /\ g.rotation \in {0, 90, 180, 270}
        /\ g.ox + g.cols * g.gw <= g.w /\ g.oy + g.rows * g.gh <= g.h
    BY DEF Placed
  <1>p. PICK fx \in Nat, fy \in Nat : fx = g.x /\ fy = g.y
    BY <1>1
  <1>q. PICK w \in Nat, h \in Nat : w = g.w /\ h = g.h
    BY <1>1
  <1>r. PICK W \in Nat, H \in Nat : W = g.width /\ H = g.height
    BY <1>1
  <1>n. fx = g.x /\ fy = g.y /\ w = g.w /\ h = g.h /\ W = g.width /\ H = g.height
    BY <1>p, <1>q, <1>r
  <1>2. PICK x \in Nat : x = g.ox + cx * g.gw /\ x + gx < w /\ gx \in Nat
    <2>1. PICK o \in Nat, c \in Nat \ {0}, z \in Nat \ {0} : o = g.ox /\ c = g.cols /\ z = g.gw
      BY <1>1
    <2>2. o + c * z <= w /\ cx \in {0, c - 1} /\ gx \in {0, z - 1}
      BY <1>1, <1>n, <2>1
    <2>3. o + cx * z \in Nat /\ gx \in Nat /\ o + cx * z + gx < w
      BY <2>2, CellInArea
    <2>4. QED
      BY <2>1, <2>3
  <1>3. PICK y \in Nat : y = g.oy + cy * g.gh /\ y + gy < h /\ gy \in Nat
    <2>1. PICK o \in Nat, c \in Nat \ {0}, z \in Nat \ {0} : o = g.oy /\ c = g.rows /\ z = g.gh
      BY <1>1
    <2>2. o + c * z <= h /\ cy \in {0, c - 1} /\ gy \in {0, z - 1}
      BY <1>1, <1>n, <2>1
    <2>3. o + cy * z \in Nat /\ gy \in Nat /\ o + cy * z + gy < h
      BY <2>2, CellInArea
    <2>4. QED
      BY <2>1, <2>3
  <1>5. CASE g.rotation = 0
    <2>1. Dest(g, x, y) = [x |-> fx + x, y |-> fy + y] /\ Stride(g) = [inner |-> <<1, 0>>, outer |-> <<0, 1>>]
      BY <1>5, <1>n DEF Dest, Stride
    <2>2. Pixel(g, cx, cy, gx, gy) = [x |-> fx + x + gx * 1 + gy * 0, y |-> fy + y + gx * 0 + gy * 1]
      BY <1>2, <1>3, <2>1 DEF Pixel
    <2>3. fx + x + gx * 1 + gy * 0 = fx + x + gx /\ fy + y + gx * 0 + gy * 1 = fy + y + gy
      BY <1>2, <1>3
    <2>4. fx + w <= W /\ fy + h <= H
      BY <1>5, <1>n DEF Placed
    <2>5. 0 <= fx + x + gx /\ fx + x + gx < W /\ 0 <= fy + y + gy /\ fy + y + gy < H
      BY <1>2, <1>3, <2>4
    <2>6. QED
      BY <1>n, <2>2, <2>3, <2>5
  <1>6. CASE g.rotation = 90
    <2>1. Dest(g, x, y) = [x |-> fx + h - 1 - y, y |-> fy + x] /\ Stride(g) = [inner |-> <<0, 1>>, outer |-> <<-1, 0>>]
      BY <1>6, <1>n DEF Dest, Stride
    <2>2. Pixel(g, cx, cy, gx, gy) = [x |-> fx + h - 1 - y + gx * 0 + gy * (-1), y |-> fy + x + gx * 1 + gy * 0]
      BY <1>2, <1>3, <2>1 DEF Pixel
    <2>3. fx + h - 1 - y + gx * 0 + gy * (-1) = fx + h - 1 - y - gy /\ fy + x + gx * 1 + gy * 0 = fy + x + gx
      BY <1>2, <1>3
    <2>4. fx + h <= W /\ fy + w <= H
      BY <1>6, <1>n DEF Placed
    <2>5. 0 <= fx + h - 1 - y - gy /\ fx + h - 1 - y - gy < W /\ 0 <= fy + x + gx /\ fy + x + gx < H
      BY <1>2, <1>3, <2>4
    <2>6. QED
      BY <1>n, <2>2, <2>3, <2>5
  <1>7. CASE g.rotation = 180
    <2>1. Dest(g, x, y) = [x |-> fx + w - 1 - x, y |-> fy + h - 1 - y] /\ Stride(g) = [inner |-> <<-1, 0>>, outer |-> <<0, -1>>]
      BY <1>7, <1>n DEF Dest, Stride
    <2>2. Pixel(g, cx, cy, gx, gy) = [x |-> fx + w - 1 - x + gx * (-1) + gy * 0, y |-> fy + h - 1 - y + gx * 0 + gy * (-1)]
      BY <1>2, <1>3, <2>1 DEF Pixel
    <2>3. fx + w - 1 - x + gx * (-1) + gy * 0 = fx + w - 1 - x - gx /\ fy + h - 1 - y + gx * 0 + gy * (-1) = fy + h - 1 - y - gy
      BY <1>2, <1>3
    <2>4. fx + w <= W /\ fy + h <= H
      BY <1>7, <1>n DEF Placed
    <2>5. 0 <= fx + w - 1 - x - gx /\ fx + w - 1 - x - gx < W /\ 0 <= fy + h - 1 - y - gy /\ fy + h - 1 - y - gy < H
      BY <1>2, <1>3, <2>4
    <2>6. QED
      BY <1>n, <2>2, <2>3, <2>5
  <1>8. CASE g.rotation = 270
    <2>1. Dest(g, x, y) = [x |-> fx + y, y |-> fy + w - 1 - x] /\ Stride(g) = [inner |-> <<0, -1>>, outer |-> <<1, 0>>]
      BY <1>8, <1>n DEF Dest, Stride
    <2>2. Pixel(g, cx, cy, gx, gy) = [x |-> fx + y + gx * 0 + gy * 1, y |-> fy + w - 1 - x + gx * (-1) + gy * 0]
      BY <1>2, <1>3, <2>1 DEF Pixel
    <2>3. fx + y + gx * 0 + gy * 1 = fx + y + gy /\ fy + w - 1 - x + gx * (-1) + gy * 0 = fy + w - 1 - x - gx
      BY <1>2, <1>3
    <2>4. fx + h <= W /\ fy + w <= H
      BY <1>8, <1>n DEF Placed
    <2>5. 0 <= fx + y + gy /\ fx + y + gy < W /\ 0 <= fy + w - 1 - x - gx /\ fy + w - 1 - x - gx < H
      BY <1>2, <1>3, <2>4
    <2>6. QED
      BY <1>n, <2>2, <2>3, <2>5
  <1>9. QED
    BY <1>1, <1>5, <1>6, <1>7, <1>8

-----------------------------------------------------------------------------
(* The pool.                                                               *)
PoolType == [ptr: Nat, added: BOOLEAN, instance: BOOLEAN, null: BOOLEAN]
Pad == (16 - build.base) % 16

LEMMA PadType == ASSUME build \in Builds PROVE Pad \in 0 .. 15
  <1>1. build.base \in 0 .. 15
    BY BuildType
  <1>2. QED
    BY <1>1 DEF Pad

\* A block takes at most 15 bytes more than it was asked for.
LEMMA Rounded == ASSUME NEW s \in Nat PROVE ((s + 15) \div 16) * 16 \in Nat /\ ((s + 15) \div 16) * 16 <= s + 15
  OBVIOUS

LEMMA BlockTaken ==
    ASSUME build \in Builds, NEW p \in PoolType, ~p.null, NEW s \in Nat,
           NEW from \in Nat, from = IF p.added THEN p.ptr ELSE p.ptr + Pad
    PROVE  LET q == bump_alloc(p, s)
           IN  /\ q \in PoolType /\ q.added /\ q.instance = p.instance
               /\ q.null => q.ptr = from
               /\ ~q.null => q.ptr <= build.pool /\ q.ptr <= from + s + 15
               /\ from + s + 15 <= build.pool => ~q.null
  <1>1. PICK size \in Nat : size = ((s + 15) \div 16) * 16 /\ size <= s + 15
    BY Rounded
  <1>2. PICK held : held = [p EXCEPT !.added = TRUE, !.ptr = from]
    OBVIOUS
  <1>3. held \in PoolType /\ held.added /\ held.instance = p.instance /\ ~held.null /\ held.ptr = from
    BY <1>2 DEF PoolType
  <1>4. bump_alloc(p, s) = IF p.null \/ from + size > build.pool THEN [held EXCEPT !.null = TRUE]
                           ELSE [held EXCEPT !.ptr = from + size]
    BY <1>1, <1>2 DEF bump_alloc, Pad
  <1>5. build.pool \in Nat
    BY BuildType
  <1>6. CASE from + size > build.pool
    <2>1. bump_alloc(p, s) = [held EXCEPT !.null = TRUE]
      BY <1>4, <1>6
    <2>2. ~(from + s + 15 <= build.pool)
      BY <1>1, <1>5, <1>6
    <2>3. QED
      BY <1>3, <2>1, <2>2 DEF PoolType
  <1>7. CASE ~(from + size > build.pool)
    <2>1. bump_alloc(p, s) = [held EXCEPT !.ptr = from + size]
      BY <1>4, <1>7
    <2>2. from + size <= build.pool /\ from + size <= from + s + 15 /\ from + size \in Nat
      BY <1>1, <1>5, <1>7
    <2>3. QED
      BY <1>3, <2>1, <2>2 DEF PoolType
  <1>8. QED
    BY <1>6, <1>7

LEMMA StaysNull == ASSUME NEW p \in PoolType, p.null, NEW s PROVE bump_alloc(p, s).null
  BY DEF bump_alloc, PoolType

\* One block after the other.
LEMMA NextBlock ==
    ASSUME build \in Builds, NEW p \in PoolType, ~p.null, p.added, NEW s \in Nat
    PROVE  LET q == bump_alloc(p, s)
           IN  /\ q \in PoolType /\ q.added /\ q.instance = p.instance
               /\ ~q.null => q.ptr <= build.pool /\ q.ptr <= p.ptr + s + 15
               /\ p.ptr + s + 15 <= build.pool => ~q.null
  <1>1. p.ptr \in Nat
    BY DEF PoolType
  <1>2. PICK from \in Nat : from = p.ptr
    BY <1>1
  <1>3. from = IF p.added THEN p.ptr ELSE p.ptr + Pad
    BY <1>2
  <1>4. /\ bump_alloc(p, s) \in PoolType /\ bump_alloc(p, s).added /\ bump_alloc(p, s).instance = p.instance
        /\ ~bump_alloc(p, s).null => bump_alloc(p, s).ptr <= build.pool /\ bump_alloc(p, s).ptr <= from + s + 15
        /\ from + s + 15 <= build.pool => ~bump_alloc(p, s).null
    BY <1>3, BlockTaken
  <1>5. QED
    BY <1>2, <1>4

\* A pool without an instance is at its start.
AtStart ==
    /\ build \in Builds /\ pool \in PoolType /\ ~pool.null
    /\ pool.ptr = IF pool.added THEN Pad ELSE 0

LEMMA ContextTaken ==
    ASSUME AtStart
    PROVE  /\ ContextPool \in PoolType /\ ContextPool.added /\ ContextPool.instance = pool.instance
           /\ ContextPool.null => ContextPool.ptr = Pad
           /\ ~ContextPool.null => ContextPool.ptr <= build.pool /\ ContextPool.ptr <= Pad + CtxBytes + 15
           /\ Pad + CtxBytes + 15 <= build.pool => ~ContextPool.null
  <1>1. PICK from \in Nat : from = Pad
    BY PadType DEF AtStart
  <1>2. from = IF pool.added THEN pool.ptr ELSE pool.ptr + Pad
    BY <1>1 DEF AtStart
  <1>3. /\ ContextPool \in PoolType /\ ContextPool.added /\ ContextPool.instance = pool.instance
        /\ ContextPool.null => ContextPool.ptr = from
        /\ ~ContextPool.null => ContextPool.ptr <= build.pool /\ ContextPool.ptr <= from + CtxBytes + 15
        /\ from + CtxBytes + 15 <= build.pool => ~ContextPool.null
    BY <1>2, BuildType, BlockTaken DEF AtStart, ContextPool
  <1>4. QED
    BY <1>1, <1>3

LEMMA FontsTaken ==
    ASSUME AtStart
    PROVE  /\ build.pool >= FixedBytes => ~FontPool.null
           /\ ~FontPool.null =>
                 /\ FontPool \in PoolType /\ FontPool.added /\ FontPool.instance = pool.instance
                 /\ FontPool.ptr <= build.pool /\ FontPool.ptr <= Pad + CtxBytes + 41005
  <1>t. /\ build \in Builds /\ build.pool \in Nat /\ Pad \in 0 .. 15 /\ CtxBytes \in Nat
        /\ FixedBytes = CtxBytes + 41072 /\ FontBits = 4096 /\ FontBool = 36864
    BY BuildType, PadType, CellCapacity DEF AtStart, FontBits, FontBool, FontGlyphs
  <1>1. PICK p : p = ContextPool
    OBVIOUS
  <1>2. /\ p \in PoolType /\ p.added /\ p.instance = pool.instance
        /\ ~p.null => p.ptr <= Pad + CtxBytes + 15
        /\ Pad + CtxBytes + 15 <= build.pool => ~p.null
    BY <1>1, ContextTaken
  <1>3. PICK q : q = bump_alloc(p, FontBits)
    OBVIOUS
  <1>4. FontPool = bump_alloc(q, FontBool)
    BY <1>1, <1>3 DEF FontPool
  <1>5. CASE p.null
    <2>1. q.null /\ q \in PoolType
      BY <1>2, <1>3, <1>5 DEF bump_alloc, PoolType
    <2>2. FontPool.null
      BY <1>4, <2>1, StaysNull
    <2>3. ~(build.pool >= FixedBytes)
      BY <1>2, <1>5, <1>t
    <2>4. QED
      BY <2>2, <2>3
  <1>6. CASE ~p.null
    <2>1. /\ q \in PoolType /\ q.added /\ q.instance = p.instance
          /\ ~q.null => q.ptr <= p.ptr + 4096 + 15
          /\ p.ptr + 4096 + 15 <= build.pool => ~q.null
      BY <1>2, <1>3, <1>6, <1>t, NextBlock
    <2>2. p.ptr \in Nat /\ p.ptr <= Pad + CtxBytes + 15
      BY <1>2, <1>6 DEF PoolType
    <2>3. CASE q.null
      <3>1. FontPool.null
        BY <1>4, <2>1, <2>3, StaysNull
      <3>2. ~(build.pool >= FixedBytes)
        BY <1>t, <2>1, <2>2, <2>3
      <3>3. QED
        BY <3>1, <3>2
    <2>4. CASE ~q.null
      <3>1. /\ FontPool \in PoolType /\ FontPool.added /\ FontPool.instance = q.instance
            /\ ~FontPool.null => FontPool.ptr <= build.pool /\ FontPool.ptr <= q.ptr + 36864 + 15
            /\ q.ptr + 36864 + 15 <= build.pool => ~FontPool.null
        BY <1>4, <1>t, <2>1, <2>4, NextBlock
      <3>2. q.ptr \in Nat /\ q.ptr <= Pad + CtxBytes + 4126
        <4>1. q.ptr \in Nat
          BY <2>1 DEF PoolType
        <4>2. QED
          BY <1>t, <2>1, <2>2, <2>4, <4>1
      <3>3. build.pool >= FixedBytes => ~FontPool.null
        BY <1>t, <3>1, <3>2
      <3>4. ~FontPool.null => FontPool.ptr <= Pad + CtxBytes + 41005
        <4>1. FontPool.ptr \in Nat
          BY <3>1 DEF PoolType
        <4>2. QED
          BY <1>t, <3>1, <3>2, <4>1
      <3>5. QED
        BY <1>2, <2>1, <3>1, <3>3, <3>4
    <2>5. QED
      BY <2>3, <2>4
  <1>7. QED
    BY <1>5, <1>6

LEMMA CellsTaken ==
    ASSUME AtStart, ~FontPool.null, NEW g, g.cols * g.rows \in Nat, g.cols * g.rows <= CapCells, CapCells # 0
    PROVE  CellPool(g) \in PoolType /\ ~CellPool(g).null /\ CellPool(g).added /\ CellPool(g).ptr <= build.pool
  <1>1. PICK n \in Nat : n = g.cols * g.rows
    OBVIOUS
  <1>2. /\ build \in Builds /\ build.pool \in Nat /\ Pad \in 0 .. 15 /\ CtxBytes \in Nat
        /\ CtxBytes + 41072 + CapCells * 56 <= build.pool /\ CapCells \in Nat
    BY BuildType, PadType, CellCapacity DEF AtStart, CellBytes
  <1>3. Pad + CtxBytes + 41050 + 16 * n + 32 * n + 8 * n <= build.pool
    BY <1>1, <1>2
  <1>4. PICK p : p = FontPool
    OBVIOUS
  <1>5. p \in PoolType /\ p.added /\ ~p.null /\ p.ptr <= Pad + CtxBytes + 41005 /\ p.ptr \in Nat
    BY <1>4, FontsTaken DEF PoolType
  <1>6. PICK a \in Nat, b \in Nat, c \in Nat : a = 16 * n /\ b = 32 * n /\ c = 8 * n
    OBVIOUS
  <1>7. Pad + CtxBytes + 41050 + a + b + c <= build.pool
    BY <1>3, <1>6
  <1>8. PICK q : q = bump_alloc(p, a)
    OBVIOUS
  <1>9. /\ q \in PoolType /\ q.added
        /\ ~q.null => q.ptr <= p.ptr + a + 15
        /\ p.ptr + a + 15 <= build.pool => ~q.null
    BY <1>2, <1>5, <1>8, NextBlock
  <1>10. ~q.null /\ q.ptr <= p.ptr + a + 15 /\ q.ptr \in Nat
    <2>1. p.ptr + a + 15 <= build.pool
      BY <1>2, <1>5, <1>7
    <2>2. QED
      BY <1>9, <2>1 DEF PoolType
  <1>11. PICK r : r = bump_alloc(q, b)
    OBVIOUS
  <1>12. /\ r \in PoolType /\ r.added
         /\ ~r.null => r.ptr <= q.ptr + b + 15
         /\ q.ptr + b + 15 <= build.pool => ~r.null
    BY <1>2, <1>9, <1>10, <1>11, NextBlock
  <1>13. ~r.null /\ r.ptr <= q.ptr + b + 15 /\ r.ptr \in Nat
    <2>1. q.ptr + b + 15 <= build.pool
      BY <1>2, <1>5, <1>7, <1>10
    <2>2. QED
      BY <1>12, <2>1 DEF PoolType
  <1>14. PICK s : s = bump_alloc(r, c)
    OBVIOUS
  <1>15. /\ s \in PoolType /\ s.added
         /\ ~s.null => s.ptr <= build.pool
         /\ r.ptr + c + 15 <= build.pool => ~s.null
    BY <1>2, <1>12, <1>13, <1>14, NextBlock
  <1>16. r.ptr + c + 15 <= build.pool
    BY <1>2, <1>5, <1>7, <1>10, <1>13
  <1>17. CellPool(g) = s
    BY <1>1, <1>4, <1>6, <1>8, <1>11, <1>14 DEF CellPool
  <1>18. QED
    BY <1>15, <1>16, <1>17

-----------------------------------------------------------------------------
(* The steps.                                                              *)
GeometryInv ==
    /\ build \in Builds /\ pool \in PoolType /\ ~pool.null /\ pool.ptr <= build.pool
    /\ ~pool.instance => AtStart
    /\ area # NoArea => Placed(area)
    /\ outcome = "memory" => build.pool < FixedBytes

LEMMA GeometryStart == GeometryInit => GeometryInv
  <1>1. SUFFICES ASSUME GeometryInit PROVE GeometryInv
    OBVIOUS
  <1>2. build \in Builds /\ build.pool \in Nat /\ area = NoArea /\ outcome = "none"
    BY <1>1, BuildType DEF GeometryInit
  <1>3. pool \in PoolType /\ ~pool.null /\ pool.ptr = 0 /\ ~pool.added
    BY <1>1 DEF GeometryInit, PoolType
  <1>4. AtStart
    BY <1>2, <1>3 DEF AtStart
  <1>5. QED
    BY <1>2, <1>3, <1>4 DEF GeometryInv

LEMMA SetUpStep == ASSUME GeometryInv, ~pool.instance, NEW a \in Calls, FbInit(a) PROVE GeometryInv'
  <1>1. PICK g : g = Grid(a, Limited(a))
    OBVIOUS
  <1>2. Attempt(a, g) /\ build' = build /\ build \in Builds /\ AtStart
    BY <1>1 DEF FbInit, Attempt, GeometryInv
  <1>3. outcome' = Ended(a, g)
    BY <1>2 DEF Attempt
  <1>4. Pad' = Pad /\ FixedBytes' = FixedBytes
    BY <1>2 DEF Pad, FixedBytes
  <1>5. CASE outcome' = "refused"
    <2>1. pool' = pool /\ area' = area
      BY <1>2, <1>5 DEF Attempt
    <2>2. QED
      BY <1>2, <1>4, <1>5, <2>1 DEF GeometryInv, AtStart, Placed
  <1>6. CASE outcome' = "done"
    <2>1. ~TooSmall(a, g) /\ ~FontPool.null /\ ~CellPool(g).null
      BY <1>3, <1>6 DEF Ended
    <2>2. Placed(g) /\ g.cols * g.rows \in Nat /\ g.cols * g.rows <= CapCells /\ CapCells # 0
      BY <1>1, <1>2, <2>1, GridPlaced
    <2>3. CellPool(g) \in PoolType /\ ~CellPool(g).null /\ CellPool(g).ptr <= build.pool
      BY <1>2, <2>1, <2>2, CellsTaken
    <2>4. area' = g /\ pool' = [CellPool(g) EXCEPT !.instance = TRUE]
      BY <1>2, <1>6 DEF Attempt
    <2>5. pool' \in PoolType /\ ~pool'.null /\ pool'.ptr <= build.pool /\ pool'.instance
      BY <2>3, <2>4 DEF PoolType
    <2>6. Placed(area')
      BY <2>2, <2>4
    <2>7. QED
      BY <1>2, <1>6, <2>5, <2>6 DEF GeometryInv, Placed
  <1>7. CASE outcome' \in {"memory", "small"}
    <2>1. area' = area
      BY <1>2, <1>7 DEF Attempt
    <2>2. pool' = IF ContextPool.null THEN [ContextPool EXCEPT !.null = FALSE] ELSE [pool EXCEPT !.ptr = 0, !.added = FALSE]
      BY <1>2, <1>7 DEF Attempt
    <2>3. Pad \in 0 .. 15 /\ build.pool \in Nat /\ build.pool >= 16
      BY <1>2, BuildType, PadType
    <2>4. pool' \in PoolType /\ ~pool'.null /\ pool'.ptr = IF pool'.added THEN Pad ELSE 0
      <3>1. CASE ContextPool.null
        <4>1. ContextPool \in PoolType /\ ContextPool.added /\ ContextPool.ptr = Pad
          BY <1>2, <3>1, ContextTaken
        <4>2. QED
          BY <2>2, <3>1, <4>1 DEF PoolType
      <3>2. CASE ~ContextPool.null
        BY <1>2, <2>2, <3>2 DEF AtStart, PoolType
      <3>3. QED
        BY <3>1, <3>2
    <2>5. pool'.ptr <= build.pool
      BY <2>3, <2>4
    <2>6. AtStart'
      BY <1>2, <1>4, <2>4 DEF AtStart
    <2>7. ASSUME outcome' = "memory" PROVE build.pool < FixedBytes
      <3>1. FixedBytes \in Nat
        BY <1>2, CellCapacity
      <3>2. SUFFICES ASSUME build.pool >= FixedBytes PROVE FALSE
        BY <2>3, <3>1
      <3>3. ~FontPool.null
        BY <1>2, <3>2, FontsTaken
      <3>4. ~TooSmall(a, g) /\ CellPool(g).null
        BY <1>3, <2>7, <3>3 DEF Ended
      <3>5. g.cols * g.rows \in Nat /\ g.cols * g.rows <= CapCells /\ CapCells # 0
        BY <1>1, <1>2, <3>4, GridPlaced
      <3>6. QED
        BY <1>2, <3>3, <3>4, <3>5, CellsTaken
    <2>8. Placed(area)' <=> Placed(area)
      BY <2>1 DEF Placed
    <2>9. QED
      BY <1>2, <1>4, <2>1, <2>4, <2>5, <2>6, <2>7, <2>8 DEF GeometryInv
  <1>8. outcome' \in {"refused", "memory", "small", "done"}
    BY <1>3 DEF Ended
  <1>9. QED
    BY <1>5, <1>6, <1>7, <1>8

LEMMA SecondCallRefused == ASSUME GeometryInv, pool.instance, NEW a, FbInit(a) PROVE GeometryInv'
  <1>1. PICK g : Attempt(a, g)
    BY DEF FbInit
  <1>2. outcome' = "refused"
    BY <1>1 DEF Attempt, Ended, Refused
  <1>3. pool' = pool /\ area' = area /\ build' = build
    BY <1>1, <1>2 DEF Attempt
  <1>4. QED
    BY <1>2, <1>3 DEF GeometryInv, AtStart, Pad, Placed

LEMMA GeometryStep == GeometryInv /\ [GeometryNext]_geometryVars => GeometryInv'
  <1>1. SUFFICES ASSUME GeometryInv, [GeometryNext]_geometryVars PROVE GeometryInv'
    OBVIOUS
  <1>2. CASE \E a \in IF pool.instance THEN {CHOOSE a \in Calls: TRUE} ELSE Calls: FbInit(a)
    <2>1. CASE pool.instance
      BY <1>1, <1>2, <2>1, SecondCallRefused
    <2>2. CASE ~pool.instance
      BY <1>1, <1>2, <2>2, SetUpStep
    <2>3. QED
      BY <2>1, <2>2
  <1>3. CASE FbDeinit
    <2>1. build' = build /\ area' = NoArea /\ outcome' = "none"
      BY <1>3 DEF FbDeinit
    <2>2. pool' \in PoolType /\ ~pool'.null /\ pool'.ptr = 0 /\ ~pool'.added
      BY <1>3 DEF FbDeinit, PoolType
    <2>3. build.pool \in Nat /\ build \in Builds
      BY <1>1, BuildType DEF GeometryInv
    <2>4. AtStart'
      BY <2>1, <2>2, <2>3 DEF AtStart
    <2>5. QED
      BY <2>1, <2>2, <2>3, <2>4 DEF GeometryInv
  <1>4. CASE UNCHANGED geometryVars
    BY <1>1, <1>4 DEF geometryVars, GeometryInv, AtStart, Pad, Placed
  <1>5. QED
    BY <1>1, <1>2, <1>3, <1>4 DEF GeometryNext

(* flanterm_fb_init sets up a terminal whose pixels all lie in the         *)
(* framebuffer, and runs out of memory only when the pool is too small for *)
(* the fonts (bump_pool_limits, bump_alloc): for every size of the pool,   *)
(* aspect ratio and place of it, and every size, rotation, scale and       *)
(* margin of the screen.                                                   *)
THEOREM PlacementStaysSound == GeometrySpec => []PlacementSound
  <1>1. GeometryInv => PlacementSound
    <2>1. SUFFICES ASSUME GeometryInv PROVE PlacementSound
      OBVIOUS
    <2>2. ASSUME area # NoArea, NEW cx \in {0, area.cols - 1}, NEW cy \in {0, area.rows - 1},
                 NEW gx \in {0, area.gw - 1}, NEW gy \in {0, area.gh - 1}
          PROVE  LET p == Pixel(area, cx, cy, gx, gy)
                 IN  0 <= p.x /\ p.x < area.width /\ 0 <= p.y /\ p.y < area.height
      BY <2>1, <2>2, PixelsInside DEF GeometryInv
    <2>3. QED
      BY <2>1, <2>2 DEF GeometryInv, PlacementSound
  <1>2. QED
    BY <1>1, GeometryStart, GeometryStep, PTL DEF GeometrySpec
=============================================================================
