------------------------- MODULE AddressSpaceProofs -------------------------
(***************************************************************************)
(* Proofs about user address spaces and the programs in them.              *)
(*                                                                         *)
(* For any number of CPUs, spaces, frames and pages, no frame of pmm is    *)
(* lost or used twice, and region, bitmap and page table of a space agree. *)
(* The bookkeeping of frames is inductive once a space that is not created *)
(* is known to be empty.  That paging_map meets no page that is mapped to  *)
(* a frame of pmm needs the loops: the pages that a loop has still to      *)
(* visit belong to allocations of its space and are not mapped, and nobody *)
(* else works on that space, which is locked by the CPU of the loop or, as *)
(* the target of a copy, known to no other CPU.                            *)
(*                                                                         *)
(* For every program file, the memory of a process is what the headers of  *)
(* its program say, and the copies of the kernel are checked as they       *)
(* promise (UserMemory): while the loader runs, exactly the pages it has   *)
(* visited are mapped, and each holds the bytes of its one segment.        *)
(***************************************************************************)
EXTENDS AddressSpace, UserMemory, SequenceTheorems, WellFoundedInduction, TLAPS

(* What a CPU in a loop may rely on.                                       *)
Loop(c) ==
    /\ job[c].space \in Spaces
    /\ job[c].todo \subseteq Covered(job[c].space)
    /\ \A m \in job[c].todo : map[job[c].space][m[2]] \notin Frames
    /\ depth[c] > 0

JobOK(c) ==
    /\ pc[c] # "idle" => Loop(c)
    /\ pc[c] = "alloc" => lock[job[c].space] = c /\ status[job[c].space] = "live"
    /\ pc[c] = "copy" =>
        /\ job[c].from \in Spaces
        /\ lock[job[c].from] = c
        /\ status[job[c].space] = "building"

JobControl == \A c \in Cpus : JobOK(c)

(* A space under construction is the target of one copy.                   *)
OneBuilder ==
    \A c, e \in Cpus :
        pc[c] = "copy" /\ pc[e] = "copy" /\ job[c].space = job[e].space => c = e

(* A space that is not created yet is empty.                               *)
Pristine ==
    \A s \in Spaces : status[s] = "none" =>
        /\ table[s] = {}
        /\ \A p \in Pages : map[s][p] = Null
        /\ \A i \in Slots : allocs[s][i] = NoAlloc

(* FramesConserved, frame by frame.                                        *)
Kept ==
    \A f \in Frames :
        \/ f \in free
        \/ \E s \in Spaces : f \in table[s]
        \/ \E s \in Spaces, p \in Pages : map[s][p] = f

MappedOnce ==
    \A s, r \in Spaces, p, q \in Pages :
        map[s][p] \in Frames /\ map[s][p] = map[r][q] => s = r /\ p = q

MappedOnly ==
    \A s, r \in Spaces, p \in Pages :
        map[s][p] \in Frames => map[s][p] \notin free /\ map[s][p] \notin table[r]

TablesApart ==
    \A s \in Spaces, f \in Frames : f \in table[s] =>
        /\ f \notin free
        /\ \A r \in Spaces : f \in table[r] => r = s

Conserved == Kept /\ MappedOnce /\ MappedOnly /\ TablesApart

(* The inductive invariant.                                                *)
IInv ==
    /\ TypeOK
    /\ JobControl
    /\ OneBuilder
    /\ Pristine
    /\ RegionMatchesTable
    /\ NoRemap
    /\ fault = "none" => Conserved

-----------------------------------------------------------------------------
(* FramesConserved is what Conserved says of each frame.                   *)
LEMMA ConservedMeans ==
    ASSUME TypeOK, fault = "none" => Conserved
    PROVE  FramesConserved
<1>1. SUFFICES ASSUME fault = "none", Conserved
               PROVE  FramesConserved
    BY DEF FramesConserved
<1>2. DOMAIN table = Spaces
    BY DEF TypeOK
<1>3. \A f : f \in UNION Range(table) <=> \E s \in Spaces : f \in table[s]
    BY <1>2 DEF Range
<1>4. \A s \in Spaces, p \in Pages : map[s][p] \in Frames => <<s, p>> \in Mapped
    BY DEF Mapped
<1>5. \A m \in Mapped : m[1] \in Spaces /\ m[2] \in Pages /\ map[m[1]][m[2]] \in Frames /\ m = <<m[1], m[2]>>
    BY DEF Mapped
<1>6. Frames \subseteq free \union (UNION Range(table)) \union {map[m[1]][m[2]] : m \in Mapped}
  <2> DEFINE places == {map[m[1]][m[2]] : m \in Mapped}
  <2>0. \A f : (\E m \in Mapped : map[m[1]][m[2]] = f) => f \in places
        OBVIOUS
  <2>1. ASSUME NEW f \in Frames, f \notin free, f \notin UNION Range(table)
        PROVE  f \in places
    <3>1. PICK s \in Spaces, p \in Pages : map[s][p] = f
          BY <1>1, <1>3, <2>1 DEF Conserved, Kept
    <3>2. QED
          BY <1>4, <2>0, <3>1
  <2> HIDE DEF places
  <2>2. Frames \subseteq free \union (UNION Range(table)) \union places
        BY <2>1
  <2>3. QED
        BY <2>2, Zenon DEF places
<1>7. \A m, k \in Mapped : map[m[1]][m[2]] = map[k[1]][k[2]] => m = k
  <2>1. SUFFICES ASSUME NEW m \in Mapped, NEW k \in Mapped, map[m[1]][m[2]] = map[k[1]][k[2]]
                 PROVE  m = k
        OBVIOUS
  <2>2. m[1] = k[1] /\ m[2] = k[2]
        BY <1>1, <1>5, <2>1 DEF Conserved, MappedOnce
  <2>3. m = <<m[1], m[2]>> /\ k = <<k[1], k[2]>>
        BY <1>5
  <2>4. QED
        BY <2>2, <2>3
<1>8. \A m \in Mapped : map[m[1]][m[2]] \notin free \union (UNION Range(table))
    BY <1>1, <1>3, <1>5 DEF Conserved, MappedOnly
<1>9. \A s \in Spaces : Frames \intersect table[s] \intersect free = {}
    BY <1>1 DEF Conserved, TablesApart
<1>10. \A s, r \in Spaces : s # r => Frames \intersect table[s] \intersect table[r] = {}
    BY <1>1 DEF Conserved, TablesApart
<1>11. \A s \in Spaces : Frames \intersect GivenBackTwice(s) = {}
  <2>1. SUFFICES ASSUME NEW s \in Spaces, NEW f \in Frames, f \in GivenBackTwice(s) PROVE FALSE
        OBVIOUS
  <2>2. DOMAIN map[s] = Pages
        BY DEF TypeOK
  <2>3. f \in table[s] \/ \E p \in Pages : map[s][p] = f
        BY <2>1, <2>2 DEF GivenBackTwice, FramesOf, Range
  <2>4. f \notin free
        BY <1>1, <2>3 DEF Conserved, MappedOnly, TablesApart
  <2>5. f \notin table[s] \intersect Range(map[s])
        BY <1>1, <2>2 DEF Conserved, MappedOnly, Range
  <2>6. \A p, q \in Pages : map[s][p] = f /\ map[s][q] = f => p = q
        BY <1>1 DEF Conserved, MappedOnce
  <2>7. QED
        BY <2>1, <2>4, <2>5, <2>6 DEF GivenBackTwice
<1>12. QED
    BY <1>6, <1>7, <1>8, <1>9, <1>10, <1>11 DEF FramesConserved

-----------------------------------------------------------------------------
(* The operators.                                                          *)

(* An allocation of no pages covers none.                                  *)
LEMMA NothingCovered ==
    ASSUME NEW s \in Spaces, \A i \in Slots : allocs[s][i] = NoAlloc
    PROVE  Covered(s) = {}
BY DEF Covered, NoAlloc, Run, Pages

(* What is covered depends on the allocations only.                        *)
LEMMA SameCovered ==
    ASSUME NEW s \in Spaces, allocs'[s] = allocs[s]
    PROVE  Covered(s)' = Covered(s)
BY DEF Covered

(* pmm_alloc returns a free frame.                                         *)
LEMMA AllocIsFree ==
    ASSUME NEW frames, frames # {}
    PROVE  PmmAlloc(frames) \in frames
BY DEF PmmAlloc

\* How paging_map ends: the page was mapped already, no frame for a table,
\* or the page is mapped and the frames T became part of the table.
MapEnds(s, p, f, remaining) ==
    \/ /\ fault' = "remap" /\ map[s][p] # Null
       /\ map' = map /\ table' = table /\ free' = remaining
    \/ /\ fault' = "table"
       /\ map' = map /\ table' = table /\ free' = remaining
    \/ /\ fault' = "none" /\ map[s][p] = Null
       /\ map' = [map EXCEPT ![s][p] = f]
       /\ \E T \in SUBSET remaining :
             /\ table' = [table EXCEPT ![s] = @ \union T]
             /\ free' = remaining \ T

(* paging_map panics, or maps the page and takes frames for the table only *)
(* from those that remain.                                                 *)
LEMMA MapEffect ==
    ASSUME NEW s \in Spaces, NEW p \in Pages, NEW f, NEW remaining,
           table \in [Spaces -> SUBSET (Frames \union Foreign)],
           fault = "none", PagingMap(s, p, f, remaining)
    PROVE  MapEnds(s, p, f, remaining)
<1>1. CASE map[s][p] # Null
    BY <1>1 DEF PagingMap, MapEnds
<1>2. CASE map[s][p] = Null /\ Cardinality(table[s]) > 1
  <2>1. /\ map' = [map EXCEPT ![s][p] = f]
        /\ free' = remaining /\ table' = table /\ fault' = fault
        BY <1>2 DEF PagingMap
  <2>2. table' = [table EXCEPT ![s] = @ \union {}] /\ free' = remaining \ {}
        BY <2>1
  <2>3. {} \in SUBSET remaining
        OBVIOUS
  <2>4. QED
        BY <1>2, <2>1, <2>2, <2>3 DEF MapEnds
<1>3. CASE map[s][p] = Null /\ ~(Cardinality(table[s]) > 1) /\ remaining = {}
    BY <1>3 DEF PagingMap, MapEnds
<1>4. CASE map[s][p] = Null /\ ~(Cardinality(table[s]) > 1) /\ remaining # {}
  <2> DEFINE T == {PmmAlloc(remaining)}
  <2>1. /\ map' = [map EXCEPT ![s][p] = f]
        /\ table' = [table EXCEPT ![s] = @ \union T]
        /\ free' = remaining \ T /\ fault' = fault
        BY <1>4 DEF PagingMap
  <2>2. T \in SUBSET remaining
        BY <1>4, AllocIsFree
  <2>3. QED
        BY <1>4, <2>1, <2>2 DEF MapEnds
<1>5. QED
    BY <1>1, <1>2, <1>3, <1>4

(* The types that paging_map preserves.                                    *)
LEMMA MapTypes ==
    ASSUME TypeOK, NEW s \in Spaces, NEW p \in Pages, NEW f \in Frames \union Foreign,
           NEW remaining \in SUBSET (Frames \union Foreign),
           fault = "none", PagingMap(s, p, f, remaining)
    PROVE  /\ table' \in [Spaces -> SUBSET (Frames \union Foreign)]
           /\ map' \in [Spaces -> [Pages -> Frames \union Foreign \union {Null}]]
           /\ free' \subseteq Frames \union Foreign
           /\ fault' \in {"none", "remap", "table", "copy", "lookup", "double"}
<1>1. /\ table \in [Spaces -> SUBSET (Frames \union Foreign)]
      /\ map \in [Spaces -> [Pages -> Frames \union Foreign \union {Null}]]
    BY DEF TypeOK
<1>2. CASE (fault' = "remap" \/ fault' = "table") /\ map' = map /\ table' = table /\ free' = remaining
    BY <1>1, <1>2
<1>3. CASE /\ fault' = "none" /\ map' = [map EXCEPT ![s][p] = f]
           /\ \E T \in SUBSET remaining :
                /\ table' = [table EXCEPT ![s] = @ \union T]
                /\ free' = remaining \ T
  <2>1. PICK T \in SUBSET remaining :
            /\ table' = [table EXCEPT ![s] = @ \union T]
            /\ free' = remaining \ T
        BY <1>3
  <2>2. map' \in [Spaces -> [Pages -> Frames \union Foreign \union {Null}]]
        BY <1>1, <1>3
  <2>3. table' \in [Spaces -> SUBSET (Frames \union Foreign)]
        BY <1>1, <2>1
  <2>4. QED
        BY <1>3, <2>1, <2>2, <2>3
<1>4. \/ /\ fault' = "remap" /\ map[s][p] # Null
         /\ map' = map /\ table' = table /\ free' = remaining
      \/ /\ fault' = "table"
         /\ map' = map /\ table' = table /\ free' = remaining
      \/ /\ fault' = "none" /\ map[s][p] = Null
         /\ map' = [map EXCEPT ![s][p] = f]
         /\ \E T \in SUBSET remaining :
               /\ table' = [table EXCEPT ![s] = @ \union T]
               /\ free' = remaining \ T
  <2>1. table \in [Spaces -> SUBSET (Frames \union Foreign)]
        BY <1>1
  <2>2. s \in Spaces /\ p \in Pages /\ fault = "none" /\ PagingMap(s, p, f, remaining)
        OBVIOUS
  <2>3. MapEnds(s, p, f, remaining)
        BY ONLY <2>1, <2>2, MapEffect
  <2>4. QED
        BY ONLY <2>3 DEF MapEnds
<1>5. QED
    BY <1>2, <1>3, <1>4, Zenon

-----------------------------------------------------------------------------
(* Frames are conserved.                                                   *)

(* A mapping takes one free frame, or maps a foreign one, and some free    *)
(* frames become part of the table.                                        *)
LEMMA MapConserves ==
    ASSUME TypeOK, Conserved, NEW s \in Spaces, NEW p \in Pages,
           NEW f \in Frames \union Foreign, NEW remaining, NEW T \in SUBSET remaining,
           \/ f \in free /\ remaining = free \ {f}
           \/ f \in Foreign /\ remaining = free,
           map[s][p] = Null,
           map' = [map EXCEPT ![s][p] = f],
           table' = [table EXCEPT ![s] = @ \union T],
           free' = remaining \ T
    PROVE  Conserved'
<1>1. /\ table \in [Spaces -> SUBSET (Frames \union Foreign)]
      /\ map \in [Spaces -> [Pages -> Frames \union Foreign \union {Null}]]
    BY DEF TypeOK
<1>2. Null \notin Frames /\ Frames \intersect Foreign = {}
    BY AddressSpaceAssumption
<1>3. \A r \in Spaces, q \in Pages : map'[r][q] = IF r = s /\ q = p THEN f ELSE map[r][q]
    BY <1>1
<1>4. \A r \in Spaces : table'[r] = IF r = s THEN table[s] \union T ELSE table[r]
    BY <1>1
<1>5. \A g \in Frames : g \in free' <=> g \in free /\ g # f /\ g \notin T
    BY <1>2
<1>6. f \in Frames => f \in free /\ f \notin T
    BY <1>2
<1>7. \A g \in T : g \in free
    OBVIOUS
<1>8. \A r \in Spaces, q \in Pages : map[r][q] \in Frames => map[r][q] # f /\ map[r][q] \notin T
    BY <1>6, <1>7 DEF Conserved, MappedOnly
<1>9. \A r \in Spaces : f \in Frames => f \notin table[r]
    BY <1>6 DEF Conserved, TablesApart
<1>10. \A r \in Spaces, g \in T : g \in Frames => g \notin table[r]
    BY <1>7 DEF Conserved, TablesApart
<1>11. Kept'
  <2>1. SUFFICES ASSUME NEW g \in Frames, g \notin free'
                 PROVE  \/ \E r \in Spaces : g \in table'[r]
                        \/ \E r \in Spaces, q \in Pages : map'[r][q] = g
        BY DEF Kept
  <2>2. CASE g = f
        BY <1>3, <2>2
  <2>3. CASE g \in T
        BY <1>4, <2>3
  <2>4. CASE g # f /\ g \notin T /\ \E r \in Spaces : g \in table[r]
        BY <1>4, <2>4
  <2>5. CASE g # f /\ g \notin T /\ \E r \in Spaces, q \in Pages : map[r][q] = g
    <3>1. PICK r \in Spaces, q \in Pages : map[r][q] = g
          BY <2>5
    <3>2. ~(r = s /\ q = p)
          BY <1>2, <3>1
    <3>3. QED
          BY <1>3, <3>1, <3>2
  <2>6. g = f \/ g \in T \/ g \notin free
        BY <1>5, <2>1
  <2>7. QED
        BY <2>2, <2>3, <2>4, <2>5, <2>6 DEF Conserved, Kept
<1>12. MappedOnce'
  <2>1. SUFFICES ASSUME NEW r \in Spaces, NEW t \in Spaces, NEW q \in Pages, NEW k \in Pages,
                        map'[r][q] \in Frames, map'[r][q] = map'[t][k]
                 PROVE  r = t /\ q = k
        BY DEF MappedOnce
  <2>2. CASE r = s /\ q = p
        BY <1>3, <1>8, <2>1, <2>2
  <2>3. CASE ~(r = s /\ q = p) /\ t = s /\ k = p
        BY <1>3, <1>8, <2>1, <2>3
  <2>4. CASE ~(r = s /\ q = p) /\ ~(t = s /\ k = p)
        BY <1>3, <2>1, <2>4 DEF Conserved, MappedOnce
  <2>5. QED
        BY <2>2, <2>3, <2>4
<1>13. MappedOnly'
  <2>1. SUFFICES ASSUME NEW r \in Spaces, NEW t \in Spaces, NEW q \in Pages, map'[r][q] \in Frames
                 PROVE  map'[r][q] \notin free' /\ map'[r][q] \notin table'[t]
        BY DEF MappedOnly
  <2>2. CASE r = s /\ q = p
        BY <1>3, <1>4, <1>5, <1>6, <1>9, <2>1, <2>2
  <2>3. CASE ~(r = s /\ q = p)
        BY <1>3, <1>4, <1>5, <1>8, <2>1, <2>3 DEF Conserved, MappedOnly
  <2>4. QED
        BY <2>2, <2>3
<1>14. TablesApart'
  <2>1. SUFFICES ASSUME NEW r \in Spaces, NEW g \in Frames, g \in table'[r]
                 PROVE  g \notin free' /\ \A t \in Spaces : g \in table'[t] => t = r
        BY DEF TablesApart
  <2>2. CASE g \in T
        BY <1>4, <1>5, <1>10, <2>1, <2>2
  <2>3. CASE g \notin T
        BY <1>4, <1>5, <2>1, <2>3 DEF Conserved, TablesApart
  <2>4. QED
        BY <2>2, <2>3
<1>15. QED
    BY <1>11, <1>12, <1>13, <1>14 DEF Conserved

(* A space that is created gets its root from the free frames.             *)
LEMMA CreateConserves ==
    ASSUME TypeOK, Conserved, NEW s \in Spaces, NEW f \in free, table[s] = {},
           table' = [table EXCEPT ![s] = {f}], free' = free \ {f}, map' = map
    PROVE  Conserved'
<1>1. table \in [Spaces -> SUBSET (Frames \union Foreign)]
    BY DEF TypeOK
<1>2. \A r \in Spaces : table'[r] = IF r = s THEN {f} ELSE table[r]
    BY <1>1
<1>3. Kept'
    BY <1>2 DEF Conserved, Kept
<1>4. MappedOnce'
    BY DEF Conserved, MappedOnce
<1>5. MappedOnly'
    BY <1>2 DEF Conserved, MappedOnly
<1>6. TablesApart'
    BY <1>2 DEF Conserved, TablesApart
<1>7. QED
    BY <1>3, <1>4, <1>5, <1>6 DEF Conserved

(* Teardown frees every frame of the space.                                *)
LEMMA DestroyConserves ==
    ASSUME TypeOK, Conserved, NEW c \in Cpus, NEW s \in Spaces, Destroy(c, s)
    PROVE  Conserved'
<1>1. /\ table \in [Spaces -> SUBSET (Frames \union Foreign)]
      /\ map \in [Spaces -> [Pages -> Frames \union Foreign \union {Null}]]
    BY DEF TypeOK
<1>2. Null \notin Frames
    BY AddressSpaceAssumption
<1>3. \A r \in Spaces : table'[r] = IF r = s THEN {} ELSE table[r]
    BY <1>1 DEF Destroy
<1>4. \A r \in Spaces, q \in Pages : map'[r][q] = IF r = s THEN Null ELSE map[r][q]
    BY <1>1 DEF Destroy
<1>5. \A g \in Frames : g \in free' <=> g \in free \/ g \in table[s] \/ \E q \in Pages : map[s][q] = g
  <2>1. free' = free \union FramesOf(s)
        BY DEF Destroy
  <2>2. DOMAIN map[s] = Pages
        BY <1>1
  <2>3. QED
        BY <1>2, <2>1, <2>2 DEF FramesOf, Range
<1>6. Kept'
    BY <1>3, <1>4, <1>5 DEF Conserved, Kept
<1>7. MappedOnce'
    BY <1>2, <1>4 DEF Conserved, MappedOnce
<1>8. MappedOnly'
    BY <1>2, <1>3, <1>4, <1>5 DEF Conserved, MappedOnly, MappedOnce
<1>9. TablesApart'
    BY <1>3, <1>5 DEF Conserved, TablesApart, MappedOnly
<1>10. QED
    BY <1>6, <1>7, <1>8, <1>9 DEF Conserved

(* paging_map conserves the frames, unless it panics.                      *)
LEMMA PagingConserves ==
    ASSUME TypeOK, Conserved, NEW s \in Spaces, NEW p \in Pages,
           NEW f \in Frames \union Foreign, NEW remaining,
           \/ f \in free /\ remaining = free \ {f}
           \/ f \in Foreign /\ remaining = free,
           fault = "none", PagingMap(s, p, f, remaining), fault' = "none"
    PROVE  Conserved'
<1>1. table \in [Spaces -> SUBSET (Frames \union Foreign)]
    BY DEF TypeOK
<1>2. /\ map[s][p] = Null
      /\ map' = [map EXCEPT ![s][p] = f]
      /\ \E T \in SUBSET remaining :
            /\ table' = [table EXCEPT ![s] = @ \union T]
            /\ free' = remaining \ T
  <2>1. s \in Spaces /\ p \in Pages /\ fault = "none" /\ PagingMap(s, p, f, remaining) /\ fault' = "none"
        OBVIOUS
  <2>2. MapEnds(s, p, f, remaining)
        BY ONLY <1>1, <2>1, MapEffect
  <2>3. QED
        BY ONLY <2>1, <2>2 DEF MapEnds
<1>3. PICK T \in SUBSET remaining :
            /\ table' = [table EXCEPT ![s] = @ \union T]
            /\ free' = remaining \ T
    BY <1>2
<1>4. TypeOK /\ Conserved /\ s \in Spaces /\ p \in Pages /\ f \in Frames \union Foreign
    OBVIOUS
<1>5. \/ f \in free /\ remaining = free \ {f}
      \/ f \in Foreign /\ remaining = free
    OBVIOUS
<1>6. QED
    BY ONLY <1>2, <1>3, <1>4, <1>5, MapConserves

-----------------------------------------------------------------------------
(* Types.                                                                  *)

(* The parts of TypeOK, for citing them one by one.                        *)
LEMMA Types ==
    ASSUME TypeOK
    PROVE  /\ status \in [Spaces -> {"none", "building", "live", "gone"}]
           /\ table \in [Spaces -> SUBSET (Frames \union Foreign)]
           /\ map \in [Spaces -> [Pages -> Frames \union Foreign \union {Null}]]
           /\ allocs \in [Spaces -> [Slots -> [va : Pages, n : Nat]]]
           /\ marked \in [Spaces -> SUBSET Pages]
           /\ lock \in [Spaces -> Cpus \union {Null}]
           /\ free \in SUBSET (Frames \union Foreign)
           /\ pc \in [Cpus -> {"idle", "alloc", "copy"}]
           /\ job \in [Cpus -> [space : Spaces \union {Null}, from : Spaces \union {Null},
                                todo : SUBSET (Slots \X Pages), mapped : Nat]]
           /\ depth \in [Cpus -> Nat]
BY DEF TypeOK

(* The end of a loop.                                                      *)
LEMMA FinishTypes ==
    ASSUME TypeOK, NEW c \in Cpus, NEW s \in Spaces, depth[c] > 0, Finish(c, s)
    PROVE  /\ pc' \in [Cpus -> {"idle", "alloc", "copy"}]
           /\ job' \in [Cpus -> [space : Spaces \union {Null}, from : Spaces \union {Null},
                                 todo : SUBSET (Slots \X Pages), mapped : Nat]]
           /\ lock' \in [Spaces -> Cpus \union {Null}]
           /\ depth' \in [Cpus -> Nat]
<1>1. depth[c] - 1 \in Nat
    BY Types
<1>2. NoJob \in [space : Spaces \union {Null}, from : Spaces \union {Null},
                 todo : SUBSET (Slots \X Pages), mapped : Nat]
    BY DEF NoJob
<1>3. pc' \in [Cpus -> {"idle", "alloc", "copy"}]
    BY Types DEF Finish
<1>4. job' \in [Cpus -> [space : Spaces \union {Null}, from : Spaces \union {Null},
                         todo : SUBSET (Slots \X Pages), mapped : Nat]]
    BY <1>2, Types DEF Finish
<1>5. lock' \in [Spaces -> Cpus \union {Null}]
    BY Types DEF Finish
<1>6. depth' \in [Cpus -> Nat]
    BY <1>1, Types DEF Finish
<1>7. QED
    BY <1>3, <1>4, <1>5, <1>6

(* The loop goes on with the rest of its pages.                            *)
LEMMA AdvanceTypes ==
    ASSUME TypeOK, NEW c \in Cpus, NEW m,
           \/ job' = [job EXCEPT ![c].todo = job[c].todo \ {m}]
           \/ job' = [job EXCEPT ![c].todo = job[c].todo \ {m}, ![c].mapped = @ + 1]
    PROVE  job' \in [Cpus -> [space : Spaces \union {Null}, from : Spaces \union {Null},
                              todo : SUBSET (Slots \X Pages), mapped : Nat]]
<1>1. /\ job[c].todo \ {m} \in SUBSET (Slots \X Pages)
      /\ job[c].mapped + 1 \in Nat
    BY Types
<1> DEFINE J == [space : Spaces \union {Null}, from : Spaces \union {Null},
                 todo : SUBSET (Slots \X Pages), mapped : Nat]
           visited == [job[c] EXCEPT !.todo = job[c].todo \ {m}]
           copied == [job[c] EXCEPT !.todo = job[c].todo \ {m}, !.mapped = @ + 1]
<1>2. job \in [Cpus -> J] /\ job[c] \in J
    BY Types
<1>3. visited \in J /\ copied \in J
    BY <1>1, <1>2
<1>4. job' = [job EXCEPT ![c] = visited] \/ job' = [job EXCEPT ![c] = copied]
    BY <1>2
<1> HIDE DEF J, visited, copied
<1>5. job' \in [Cpus -> J]
    BY <1>2, <1>3, <1>4
<1>6. QED
    BY <1>5 DEF J

(* A new allocation.                                                       *)
LEMMA RecordTypes ==
    ASSUME TypeOK, NEW s \in Spaces, NEW i \in Slots, NEW va \in Pages, NEW n \in Nat,
           Run(va, n) \subseteq Pages, Record(s, i, va, n)
    PROVE  /\ allocs' \in [Spaces -> [Slots -> [va : Pages, n : Nat]]]
           /\ marked' \in [Spaces -> SUBSET Pages]
<1>1. [va |-> va, n |-> n] \in [va : Pages, n : Nat]
    OBVIOUS
<1>2. allocs' \in [Spaces -> [Slots -> [va : Pages, n : Nat]]]
    BY <1>1, Types DEF Record
<1>3. marked' \in [Spaces -> SUBSET Pages]
    BY Types DEF Record
<1>4. QED
    BY <1>2, <1>3

-----------------------------------------------------------------------------
(* Region and page table.                                                  *)
Agrees(s) ==
    /\ \A p \in Pages : map[s][p] \in Frames => \E m \in Covered(s) : m[2] = p
    /\ \A m \in Covered(s) : m[2] \in marked[s]
    /\ \A m, k \in Covered(s) : m[2] = k[2] => m = k

LEMMA AgreesMeans == RegionMatchesTable <=> \A s \in Spaces : Agrees(s)
BY DEF RegionMatchesTable, Agrees

(* A space that nobody touches.                                            *)
LEMMA AgreesFrame ==
    ASSUME NEW s \in Spaces, Agrees(s),
           map'[s] = map[s], allocs'[s] = allocs[s], marked'[s] = marked[s]
    PROVE  Agrees(s)'
<1>1. Covered(s)' = Covered(s)
    BY SameCovered
<1>2. QED
    BY <1>1 DEF Agrees

(* A mapping inside of an allocation, or of a foreign frame.               *)
LEMMA AgreesMapping ==
    ASSUME TypeOK, NEW s \in Spaces, Agrees(s), NEW p \in Pages, NEW f,
           (\E m \in Covered(s) : m[2] = p) \/ f \notin Frames,
           map' = map \/ map' = [map EXCEPT ![s][p] = f],
           allocs'[s] = allocs[s], marked'[s] = marked[s]
    PROVE  Agrees(s)'
<1>1. Covered(s)' = Covered(s)
    BY SameCovered
<1>2. \A q \in Pages : map'[s][q] \in Frames => map[s][q] \in Frames \/ (q = p /\ map'[s][q] = f)
    BY Types
<1>3. \A q \in Pages : map'[s][q] \in Frames => \E m \in Covered(s) : m[2] = q
    BY <1>2 DEF Agrees
<1>4. QED
    BY <1>1, <1>3 DEF Agrees

(* A new allocation covers its run of pages in addition.                   *)
LEMMA RecordCovers ==
    ASSUME TypeOK, NEW s \in Spaces, NEW i \in FreeSlots(s), NEW va \in Pages, NEW n \in Nat,
           Run(va, n) \subseteq Pages, Record(s, i, va, n)
    PROVE  /\ Covered(s)' = Covered(s) \union ({i} \X Run(va, n))
           /\ \A r \in Spaces \ {s} : allocs'[r] = allocs[r] /\ marked'[r] = marked[r]
           /\ marked'[s] = marked[s] \union Run(va, n)
<1>1. i \in Slots /\ allocs[s][i] = NoAlloc
    BY DEF FreeSlots
<1>2. \A r \in Spaces \ {s} : allocs'[r] = allocs[r] /\ marked'[r] = marked[r]
    BY Types DEF Record
<1>3. marked'[s] = marked[s] \union Run(va, n)
    BY Types DEF Record
<1>4. \A j \in Slots : allocs'[s][j] = IF j = i THEN [va |-> va, n |-> n] ELSE allocs[s][j]
    BY <1>1, Types DEF Record
<1>5. allocs'[s][i].va = va /\ allocs'[s][i].n = n
    BY <1>1, <1>4
<1>6. \A p \in Pages : p \notin Run(allocs[s][i].va, allocs[s][i].n)
    BY <1>1 DEF NoAlloc, Run, Pages
<1>7. ASSUME NEW m PROVE m \in Covered(s)' <=> m \in Covered(s) \union ({i} \X Run(va, n))
  <2>1. CASE m \in Slots \X Pages /\ m[1] = i
    <3>1. m \in Covered(s)' <=> m[2] \in Run(va, n)
          BY <1>5, <2>1 DEF Covered
    <3>2. m \notin Covered(s)
          BY <1>6, <2>1 DEF Covered
    <3>3. m \in {i} \X Run(va, n) <=> m[2] \in Run(va, n)
          BY <2>1
    <3>4. QED
          BY <3>1, <3>2, <3>3
  <2>2. CASE m \in Slots \X Pages /\ m[1] # i
    <3>1. m \in Covered(s)' <=> m \in Covered(s)
          BY <1>4, <2>2 DEF Covered
    <3>2. m \notin {i} \X Run(va, n)
          BY <2>2
    <3>3. QED
          BY <3>1, <3>2
  <2>3. CASE m \notin Slots \X Pages
    <3>1. m \notin Covered(s)' /\ m \notin Covered(s)
          BY <2>3 DEF Covered
    <3>2. m \notin {i} \X Run(va, n)
          BY <1>1, <2>3
    <3>3. QED
          BY <3>1, <3>2
  <2>4. QED
        BY <2>1, <2>2, <2>3
<1>8. QED
    BY <1>2, <1>3, <1>7

(* The pages of a new allocation are not marked before.  They may be       *)
(* mapped in the same step.                                                *)
LEMMA AgreesRecord ==
    ASSUME TypeOK, NEW s \in Spaces, Agrees(s), NEW i \in FreeSlots(s), NEW va \in Pages, NEW n \in Nat,
           Run(va, n) \subseteq Pages \ marked[s], Record(s, i, va, n),
           \A p \in Pages : map'[s][p] = map[s][p] \/ p \in Run(va, n)
    PROVE  Agrees(s)'
<1> DEFINE new == {i} \X Run(va, n)
<1>1. /\ Covered(s)' = Covered(s) \union new
      /\ marked'[s] = marked[s] \union Run(va, n)
    BY RecordCovers
<1>2. \A m \in new : m[1] = i /\ m[2] \in Run(va, n) /\ m = <<m[1], m[2]>>
    OBVIOUS
<1>3. \A p \in Run(va, n) : <<i, p>> \in new
    OBVIOUS
<1> HIDE DEF new
<1>4. ASSUME NEW p \in Pages, map'[s][p] \in Frames
      PROVE  \E m \in Covered(s)' : m[2] = p
  <2>1. CASE p \in Run(va, n)
    <3>1. <<i, p>> \in Covered(s)' /\ <<i, p>>[2] = p
          BY <1>1, <1>3, <2>1
    <3>2. QED
          BY <3>1, Zenon
  <2>2. CASE p \notin Run(va, n)
    <3>1. PICK m \in Covered(s) : m[2] = p
          BY <1>4, <2>2 DEF Agrees
    <3>2. QED
          BY <1>1, <3>1
  <2>3. QED
        BY <2>1, <2>2
<1>5. \A m \in Covered(s)' : m[2] \in marked'[s]
    BY <1>1, <1>2 DEF Agrees
<1>6. \A m, k \in Covered(s)' : m[2] = k[2] => m = k
  <2>1. SUFFICES ASSUME NEW m \in Covered(s)', NEW k \in Covered(s)', m[2] = k[2]
                 PROVE  m = k
        OBVIOUS
  <2>2. CASE m \in Covered(s) /\ k \in Covered(s)
        BY <2>1, <2>2 DEF Agrees
  <2>3. CASE m \in new /\ k \in new
        BY <1>2, <2>1, <2>3
  <2>4. ~(m \in Covered(s) /\ k \in new) /\ ~(m \in new /\ k \in Covered(s))
        BY <1>2, <2>1 DEF Agrees
  <2>5. QED
        BY <1>1, <2>1, <2>2, <2>3, <2>4
<1>7. QED
    BY <1>4, <1>5, <1>6 DEF Agrees

(* A page that is not marked is not mapped to a frame of pmm.              *)
LEMMA UnmarkedUnmapped ==
    ASSUME NEW s \in Spaces, Agrees(s), NEW p \in Pages, p \notin marked[s]
    PROVE  map[s][p] \notin Frames
BY DEF Agrees

-----------------------------------------------------------------------------
(* The CPUs keep out of each other's way.                                  *)

(* Nobody else loops over a space that is free, that is not created, or    *)
(* that CPU c has locked or builds.                                        *)
LEMMA OthersElsewhere ==
    ASSUME TypeOK, JobControl, OneBuilder, NEW c \in Cpus, NEW s \in Spaces,
           \/ status[s] = "none"
           \/ status[s] = "live" /\ lock[s] \in {c, Null}
           \/ status[s] = "building" /\ pc[c] = "copy" /\ job[c].space = s,
           NEW e \in Cpus \ {c}, pc[e] # "idle"
    PROVE  job[e].space \in Spaces \ {s}
<1>1. e # Null
    BY AddressSpaceAssumption
<1>2. JobOK(e) /\ pc[e] \in {"alloc", "copy"}
    BY Types DEF JobControl
<1>3. job[e].space \in Spaces
    BY <1>2 DEF JobOK, Loop
<1>4. ASSUME job[e].space = s PROVE FALSE
  <2>1. CASE pc[e] = "alloc"
    <3>1. lock[s] = e /\ status[s] = "live"
          BY <1>2, <1>4, <2>1 DEF JobOK
    <3>2. QED
          BY <1>1, <3>1
  <2>2. CASE pc[e] = "copy"
    <3>1. status[s] = "building"
          BY <1>2, <1>4, <2>2 DEF JobOK
    <3>2. QED
          BY <1>4, <2>2, <3>1 DEF OneBuilder
  <2>3. QED
        BY <1>2, <2>1, <2>2
<1>5. QED
    BY <1>3, <1>4

(* What CPU c does with space s leaves the loops of the others alone.      *)
LEMMA OthersUndisturbed ==
    ASSUME TypeOK, JobControl, OneBuilder, NEW c \in Cpus, NEW s \in Spaces,
           \/ status[s] = "none"
           \/ status[s] = "live" /\ lock[s] \in {c, Null}
           \/ status[s] = "building" /\ pc[c] = "copy" /\ job[c].space = s,
           \A e \in Cpus \ {c} : pc'[e] = pc[e] /\ job'[e] = job[e] /\ depth'[e] = depth[e],
           \A r \in Spaces \ {s} :
                map'[r] = map[r] /\ allocs'[r] = allocs[r] /\ status'[r] = status[r],
           \A r \in Spaces : lock[r] \in {c, Null} \/ lock'[r] = lock[r],
           NEW e \in Cpus \ {c}
    PROVE  JobOK(e)'
<1>1. JobOK(e) /\ e # Null /\ e # c
    BY AddressSpaceAssumption DEF JobControl
<1>2. pc'[e] = pc[e] /\ job'[e] = job[e] /\ depth'[e] = depth[e]
    OBVIOUS
<1>3. CASE pc[e] = "idle"
    BY <1>2, <1>3 DEF JobOK
<1>4. CASE pc[e] # "idle"
  <2> DEFINE r == job[e].space
  <2>1. r \in Spaces \ {s}
        BY <1>4, OthersElsewhere
  <2>2. map'[r] = map[r] /\ allocs'[r] = allocs[r] /\ status'[r] = status[r]
        BY <2>1
  <2>3. Covered(r)' = Covered(r)
    <3>1. PICK q \in Spaces : q = r
          BY <2>1
    <3>2. Covered(q)' = Covered(q)
          BY <2>2, <3>1, SameCovered
    <3>3. job'[e].space = q /\ job[e].space = q
          BY <1>2, <3>1
    <3>4. QED
          BY <3>2, <3>3 DEF Covered
  <2>4. Loop(e)
        BY <1>1, <1>4 DEF JobOK
  <2>5. Loop(e)'
    <3>1. job'[e].space = r /\ job'[e].todo = job[e].todo
          BY <1>2
    <3>2. \A k \in job[e].todo : k \in Covered(r) /\ map'[r][k[2]] \notin Frames
          BY <2>2, <2>4 DEF Loop
    <3>3. \A k \in job'[e].todo : k \in Covered(job[e].space)'
          BY <2>3, <3>1, <3>2
    <3>4. QED
          BY <1>2, <2>1, <2>4, <3>1, <3>2, <3>3 DEF Loop
  <2>6. pc[e] = "alloc" => lock'[r] = e /\ status'[r] = "live"
        BY <1>1, <2>1, <2>2 DEF JobOK
  <2>7. pc[e] = "copy" => /\ job[e].from \in Spaces /\ lock'[job[e].from] = e
                          /\ status'[r] = "building"
        BY <1>1, <2>2 DEF JobOK
  <2>8. QED
        BY <1>2, <2>5, <2>6, <2>7 DEF JobOK
<1>5. QED
    BY <1>3, <1>4

-----------------------------------------------------------------------------
(* One round of a loop that maps a page of its space to a new frame.       *)
LEMMA LoopMaps ==
    ASSUME IInv, fault = "none", NEW c \in Cpus, NEW s \in Spaces, pc[c] # "idle", s = job[c].space,
           NEW m \in job[c].todo, free # {},
           PagingMap(s, m[2], PmmAlloc(free), free \ {PmmAlloc(free)}),
           UNCHANGED <<status, allocs, marked>>
    PROVE  /\ table' \in [Spaces -> SUBSET (Frames \union Foreign)]
           /\ map' \in [Spaces -> [Pages -> Frames \union Foreign \union {Null}]]
           /\ free' \subseteq Frames \union Foreign
           /\ fault' \in {"none", "remap", "table", "copy", "lookup", "double"}
           /\ \A r \in Spaces \ {s} : map'[r] = map[r]
           /\ \A k \in job[c].todo \ {m} : map'[s][k[2]] \notin Frames
           /\ Pristine' /\ RegionMatchesTable' /\ NoRemap'
           /\ fault' = "none" => Conserved'
<1> DEFINE f == PmmAlloc(free)
           p == m[2]
<1>1. TypeOK /\ Loop(c) /\ RegionMatchesTable /\ Conserved /\ Pristine
    BY DEF IInv, JobControl, JobOK
<1>2. m \in Covered(s) /\ m \in Slots \X Pages /\ p \in Pages
    BY <1>1 DEF Loop, Covered
<1>3. f \in free /\ f \in Frames \union Foreign /\ free \ {f} \in SUBSET (Frames \union Foreign)
    BY <1>1, Types, AllocIsFree
<1>4. map[s][p] \notin Frames /\ \A k \in job[c].todo : map[s][k[2]] \notin Frames /\ k \in Covered(s)
    BY <1>1 DEF Loop
<1>5. status[s] # "none"
  <2>1. JobOK(c) /\ pc[c] \in {"alloc", "copy"}
        BY <1>1, Types DEF IInv, JobControl
  <2>2. QED
        BY <2>1 DEF JobOK
<1>6. PagingMap(s, p, f, free \ {f}) /\ fault = "none" /\ s \in Spaces
    OBVIOUS
<1>7. Agrees(s)
    BY <1>1, AgreesMeans
<1> HIDE DEF f, p
<1>8. /\ table' \in [Spaces -> SUBSET (Frames \union Foreign)]
      /\ map' \in [Spaces -> [Pages -> Frames \union Foreign \union {Null}]]
      /\ free' \subseteq Frames \union Foreign
      /\ fault' \in {"none", "remap", "table", "copy", "lookup", "double"}
    BY ONLY <1>1, <1>2, <1>3, <1>6, MapTypes
<1>9. \/ /\ fault' = "remap" /\ map[s][p] # Null
         /\ map' = map /\ table' = table
      \/ /\ fault' = "table"
         /\ map' = map /\ table' = table
      \/ /\ fault' = "none" /\ map[s][p] = Null
         /\ map' = [map EXCEPT ![s][p] = f]
         /\ \E T \in SUBSET (free \ {f}) :
               table' = [table EXCEPT ![s] = @ \union T]
  <2>1. table \in [Spaces -> SUBSET (Frames \union Foreign)]
        BY <1>1, Types
  <2>2. PICK remaining : remaining = free \ {f}
        OBVIOUS
  <2>3. PagingMap(s, p, f, remaining) /\ fault = "none" /\ s \in Spaces
        BY <1>6, <2>2
  <2>4. \/ /\ fault' = "remap" /\ map[s][p] # Null
           /\ map' = map /\ table' = table /\ free' = remaining
        \/ /\ fault' = "table"
           /\ map' = map /\ table' = table /\ free' = remaining
        \/ /\ fault' = "none" /\ map[s][p] = Null
           /\ map' = [map EXCEPT ![s][p] = f]
           /\ \E T \in SUBSET remaining :
                 /\ table' = [table EXCEPT ![s] = @ \union T]
                 /\ free' = remaining \ T
    <3>1. MapEnds(s, p, f, remaining)
        BY ONLY <1>2, <2>1, <2>3, MapEffect
    <3>2. QED
        BY ONLY <3>1 DEF MapEnds
  <2>5. QED
        BY ONLY <2>2, <2>4
<1>10. map' = map \/ map' = [map EXCEPT ![s][p] = f]
    BY <1>9
<1>11. \A r \in Spaces \ {s} : map'[r] = map[r] /\ table'[r] = table[r]
    BY <1>1, <1>9, Types
<1>12. \A k \in job[c].todo \ {m} : map'[s][k[2]] \notin Frames
  <2>1. SUFFICES ASSUME NEW k \in job[c].todo \ {m}
                 PROVE  map'[s][k[2]] \notin Frames
        OBVIOUS
  <2>2. k \in Covered(s) /\ k[2] \in Pages
        BY <1>4 DEF Covered
  <2>3. k[2] # p
        BY <1>2, <1>7, <2>1, <2>2 DEF Agrees, p
  <2>4. map'[s][k[2]] = map[s][k[2]]
        BY <1>1, <1>10, <2>2, <2>3, Types
  <2>5. QED
        BY <1>4, <2>4
<1>13. Pristine'
  <2>1. SUFFICES ASSUME NEW r \in Spaces, status'[r] = "none"
                 PROVE  /\ table'[r] = {}
                        /\ \A q \in Pages : map'[r][q] = Null
                        /\ \A i \in Slots : allocs'[r][i] = NoAlloc
        BY DEF Pristine
  <2>2. status[r] = "none" /\ r # s
        BY <1>5, <2>1
  <2>3. QED
        BY <1>1, <1>11, <2>2 DEF Pristine
<1>14. RegionMatchesTable'
  <2>1. Agrees(s)'
    <3>1. \E k \in Covered(s) : k[2] = p
          BY <1>2 DEF p
    <3>2. allocs'[s] = allocs[s] /\ marked'[s] = marked[s]
          OBVIOUS
    <3>3. QED
          BY ONLY <1>1, <1>2, <1>6, <1>7, <1>10, <3>1, <3>2, AgreesMapping
  <2>2. \A r \in Spaces \ {s} : Agrees(r)'
    <3>1. SUFFICES ASSUME NEW r \in Spaces \ {s} PROVE Agrees(r)'
          OBVIOUS
    <3>2. map'[r] = map[r] /\ allocs'[r] = allocs[r] /\ marked'[r] = marked[r]
          BY <1>11
    <3>3. Agrees(r)
          BY <1>1, AgreesMeans
    <3>4. QED
          BY <3>2, <3>3, AgreesFrame
  <2>3. (\A r \in Spaces : Agrees(r))'
        BY <2>1, <2>2
  <2>4. QED
        BY <2>3 DEF RegionMatchesTable, Agrees
<1>15. NoRemap'
  <2>1. SUFFICES ASSUME fault' = "remap"
                 PROVE  \E r \in Spaces, q \in Pages : map'[r][q] \in Foreign
        BY DEF NoRemap
  <2>2. map[s][p] # Null /\ map' = map
        BY <1>9, <2>1
  <2>3. map[s][p] \in Frames \union Foreign \union {Null}
        BY <1>1, <1>2, Types
  <2>4. QED
        BY <1>2, <1>4, <2>2, <2>3
<1>16. fault' = "none" => Conserved'
  <2>1. SUFFICES ASSUME fault' = "none" PROVE Conserved'
        OBVIOUS
  <2>2. f \in free /\ free \ {f} = free \ {f}
        BY <1>3
  <2>3. QED
        BY ONLY <1>1, <1>2, <1>3, <1>6, <2>1, <2>2, PagingConserves
<1>17. QED
    BY <1>8, <1>11, <1>12, <1>13, <1>14, <1>15, <1>16

-----------------------------------------------------------------------------
(* The actions, one by one.                                                *)

(* No copy begins.                                                         *)
LEMMA NoNewBuilder ==
    ASSUME OneBuilder,
           \A e \in Cpus : pc'[e] = "copy" => pc[e] = "copy" /\ job'[e].space = job[e].space
    PROVE  OneBuilder'
BY DEF OneBuilder

(* CPU c ends its loop.                                                    *)
LEMMA Finished ==
    ASSUME TypeOK, NEW c \in Cpus, NEW s \in Spaces, Finish(c, s)
    PROVE  /\ pc'[c] = "idle"
           /\ \A e \in Cpus \ {c} : pc'[e] = pc[e] /\ job'[e] = job[e] /\ depth'[e] = depth[e]
           /\ \A r \in Spaces \ {s} : lock'[r] = lock[r]
BY Types DEF Finish

LEMMA AllocPageKeeps ==
    ASSUME IInv, NEW c \in Cpus, AllocPage(c)
    PROVE  IInv'
<1>1. TypeOK /\ JobControl /\ OneBuilder /\ JobOK(c)
    BY DEF IInv, JobControl
<1>2. PICK s \in Spaces : s = job[c].space
    BY <1>1 DEF AllocPage, JobOK, Loop
<1>3. /\ pc[c] = "alloc" /\ fault = "none" /\ free # {}
      /\ UNCHANGED <<status, allocs, marked>>
    BY DEF AllocPage
<1>4. PICK m \in job[c].todo :
        /\ PagingMap(s, m[2], PmmAlloc(free), free \ {PmmAlloc(free)})
        /\ IF job[c].todo = {m} THEN Finish(c, s)
           ELSE /\ job' = [job EXCEPT ![c].todo = job[c].todo \ {m}]
                /\ UNCHANGED <<pc, lock, depth>>
    BY <1>2 DEF AllocPage
<1>5. Loop(c) /\ lock[s] = c /\ status[s] = "live"
    BY <1>1, <1>2, <1>3 DEF JobOK
<1>6. /\ table' \in [Spaces -> SUBSET (Frames \union Foreign)]
      /\ map' \in [Spaces -> [Pages -> Frames \union Foreign \union {Null}]]
      /\ free' \subseteq Frames \union Foreign
      /\ fault' \in {"none", "remap", "table", "copy", "lookup", "double"}
      /\ \A r \in Spaces \ {s} : map'[r] = map[r]
      /\ \A k \in job[c].todo \ {m} : map'[s][k[2]] \notin Frames
      /\ Pristine' /\ RegionMatchesTable' /\ NoRemap'
      /\ fault' = "none" => Conserved'
  <2>1. IInv /\ c \in Cpus /\ s \in Spaces /\ pc[c] # "idle"
        BY <1>3
  <2>2. QED
        BY ONLY <1>2, <1>3, <1>4, <2>1, LoopMaps
<1>7. /\ pc' \in [Cpus -> {"idle", "alloc", "copy"}]
      /\ job' \in [Cpus -> [space : Spaces \union {Null}, from : Spaces \union {Null},
                            todo : SUBSET (Slots \X Pages), mapped : Nat]]
      /\ lock' \in [Spaces -> Cpus \union {Null}]
      /\ depth' \in [Cpus -> Nat]
  <2>1. CASE Finish(c, s)
        BY <1>1, <1>5, <2>1, FinishTypes DEF Loop
  <2>2. CASE /\ job' = [job EXCEPT ![c].todo = job[c].todo \ {m}]
             /\ UNCHANGED <<pc, lock, depth>>
        BY <1>1, <2>2, AdvanceTypes, Types
  <2>3. QED
        BY <1>4, <2>1, <2>2
<1>8. TypeOK'
    BY <1>1, <1>3, <1>6, <1>7 DEF TypeOK
<1>9. /\ \A e \in Cpus \ {c} : pc'[e] = pc[e] /\ job'[e] = job[e] /\ depth'[e] = depth[e]
      /\ \A r \in Spaces \ {s} : lock'[r] = lock[r]
  <2>1. CASE Finish(c, s)
        BY <1>1, <2>1, Finished
  <2>2. CASE /\ job' = [job EXCEPT ![c].todo = job[c].todo \ {m}]
             /\ UNCHANGED <<pc, lock, depth>>
        BY <1>1, <2>2, Types
  <2>3. QED
        BY <1>4, <2>1, <2>2
<1>10. JobOK(c)'
  <2>1. CASE Finish(c, s)
        BY <1>1, <2>1, Finished DEF JobOK
  <2>2. CASE /\ job' = [job EXCEPT ![c].todo = job[c].todo \ {m}]
             /\ UNCHANGED <<pc, lock, depth>>
    <3>1. job'[c].space = s /\ job'[c].todo = job[c].todo \ {m}
          BY <1>1, <1>2, <2>2, Types
    <3>2. Covered(job[c].space)' = Covered(job[c].space)
      <4>1. Covered(s)' = Covered(s)
            BY <1>3, SameCovered
      <4>2. QED
            BY <1>2, <3>1, <4>1 DEF Covered
    <3>3. Loop(c)'
      <4>1. job'[c].todo \subseteq Covered(job[c].space)'
            BY <1>5, <3>1, <3>2 DEF Loop
      <4>2. \A k \in job'[c].todo : map'[job'[c].space][k[2]] \notin Frames
            BY <1>6, <3>1
      <4>3. depth'[c] > 0
            BY <1>5, <2>2 DEF Loop
      <4>4. QED
            BY <3>1, <4>1, <4>2, <4>3 DEF Loop
    <3>4. pc'[c] = "alloc" /\ lock'[s] = c /\ status'[s] = "live"
          BY <1>3, <1>5, <2>2
    <3>5. QED
          BY <3>1, <3>3, <3>4 DEF JobOK
  <2>3. QED
        BY <1>4, <2>1, <2>2
<1>11. JobControl'
  <2>1. \A r \in Spaces : lock[r] \in {c, Null} \/ lock'[r] = lock[r]
        BY <1>5, <1>9
  <2>2. \A r \in Spaces \ {s} :
                map'[r] = map[r] /\ allocs'[r] = allocs[r] /\ status'[r] = status[r]
        BY <1>3, <1>6
  <2>3. \A e \in Cpus \ {c} : JobOK(e)'
        BY <1>1, <1>5, <1>9, <2>1, <2>2, OthersUndisturbed
  <2>4. QED
        BY <1>10, <2>3 DEF JobControl
<1>12. OneBuilder'
  <2>1. pc'[c] # "copy"
        BY <1>1, <1>3, <1>4, Finished
  <2>2. \A e \in Cpus : pc'[e] = "copy" => pc[e] = "copy" /\ job'[e].space = job[e].space
        BY <1>9, <2>1
  <2>3. QED
        BY <1>1, <2>2, NoNewBuilder
<1>13. QED
    BY <1>6, <1>8, <1>11, <1>12 DEF IInv

LEMMA CopyPageKeeps ==
    ASSUME IInv, NEW c \in Cpus, CopyPage(c)
    PROVE  IInv'
<1>1. TypeOK /\ JobControl /\ OneBuilder /\ JobOK(c) /\ Pristine /\ RegionMatchesTable /\ NoRemap
    BY DEF IInv, JobControl
<1>2. PICK d \in Spaces : d = job[c].space
    BY <1>1 DEF CopyPage, JobOK, Loop
<1>3. /\ pc[c] = "copy" /\ fault = "none" /\ Conserved
      /\ UNCHANGED <<status, allocs, marked, lock, pc, depth>>
    BY DEF CopyPage, IInv
<1>4. PICK m \in job[c].todo :
        IF Cardinality(table[job[c].from]) <= 1 \/ map[job[c].from][m[2]] = Null
        THEN /\ fault' = IF Cardinality(table[job[c].from]) <= 1 THEN "lookup" ELSE fault
             /\ job' = [job EXCEPT ![c].todo = job[c].todo \ {m}]
             /\ UNCHANGED <<table, map, free>>
        ELSE /\ free # {}
             /\ PagingMap(d, m[2], PmmAlloc(free), free \ {PmmAlloc(free)})
             /\ job' = [job EXCEPT ![c].todo = job[c].todo \ {m}, ![c].mapped = @ + 1]
    BY <1>2 DEF CopyPage
<1>5. /\ Loop(c) /\ status[d] = "building"
      /\ job[c].from \in Spaces /\ lock[job[c].from] = c
    BY <1>1, <1>2, <1>3 DEF JobOK
<1>6. /\ table' \in [Spaces -> SUBSET (Frames \union Foreign)]
      /\ map' \in [Spaces -> [Pages -> Frames \union Foreign \union {Null}]]
      /\ free' \subseteq Frames \union Foreign
      /\ fault' \in {"none", "remap", "table", "copy", "lookup", "double"}
      /\ \A r \in Spaces \ {d} : map'[r] = map[r]
      /\ \A k \in job[c].todo \ {m} : map'[d][k[2]] \notin Frames
      /\ Pristine' /\ RegionMatchesTable' /\ NoRemap'
      /\ fault' = "none" => Conserved'
  <2>1. CASE UNCHANGED <<table, map, free>> /\ fault' \in {"none", "lookup"}
    <3>1. \A k \in job[c].todo \ {m} : map'[d][k[2]] \notin Frames
          BY <1>2, <1>5, <2>1 DEF Loop
    <3>2. Pristine' /\ NoRemap'
          BY <1>1, <1>3, <2>1 DEF Pristine, NoRemap
    <3>3. RegionMatchesTable'
          BY <1>1, <1>3, <2>1 DEF RegionMatchesTable, Covered
    <3>4. Conserved'
          BY <1>3, <2>1 DEF Conserved, Kept, MappedOnce, MappedOnly, TablesApart
    <3>5. QED
          BY <1>1, <2>1, <3>1, <3>2, <3>3, <3>4 DEF TypeOK
  <2>2. CASE free # {} /\ PagingMap(d, m[2], PmmAlloc(free), free \ {PmmAlloc(free)})
    <3>1. IInv /\ c \in Cpus /\ d \in Spaces /\ pc[c] # "idle"
          BY <1>3
    <3>2. QED
          BY ONLY <1>2, <1>3, <1>4, <2>2, <3>1, LoopMaps
  <2>3. QED
        BY <1>3, <1>4, <2>1, <2>2
<1>7. \/ job' = [job EXCEPT ![c].todo = job[c].todo \ {m}]
      \/ job' = [job EXCEPT ![c].todo = job[c].todo \ {m}, ![c].mapped = @ + 1]
    BY <1>4
<1>8. TypeOK'
  <2>1. job' \in [Cpus -> [space : Spaces \union {Null}, from : Spaces \union {Null},
                           todo : SUBSET (Slots \X Pages), mapped : Nat]]
        BY <1>1, <1>7, AdvanceTypes
  <2>2. QED
        BY <1>1, <1>3, <1>6, <2>1 DEF TypeOK
<1>9. /\ \A e \in Cpus \ {c} : job'[e] = job[e]
      /\ job'[c].space = d /\ job'[c].from = job[c].from /\ job'[c].todo = job[c].todo \ {m}
    BY <1>1, <1>2, <1>7, Types
<1>10. JobOK(c)'
  <2>1. Covered(job[c].space)' = Covered(job[c].space)
    <3>1. Covered(d)' = Covered(d)
          BY <1>3, SameCovered
    <3>2. QED
          BY <1>2, <1>9, <3>1 DEF Covered
  <2>2. job'[c].todo \subseteq Covered(job[c].space)'
        BY <1>5, <1>9, <2>1 DEF Loop
  <2>3. \A k \in job'[c].todo : map'[job'[c].space][k[2]] \notin Frames
        BY <1>6, <1>9
  <2>4. Loop(c)'
        BY <1>3, <1>5, <1>9, <2>2, <2>3 DEF Loop
  <2>5. QED
        BY <1>3, <1>5, <1>9, <2>4 DEF JobOK
<1>11. JobControl'
  <2>1. \A r \in Spaces : lock[r] \in {c, Null} \/ lock'[r] = lock[r]
        BY <1>3
  <2>2. \A r \in Spaces \ {d} :
                map'[r] = map[r] /\ allocs'[r] = allocs[r] /\ status'[r] = status[r]
        BY <1>3, <1>6
  <2>3. \A e \in Cpus \ {c} : pc'[e] = pc[e] /\ job'[e] = job[e] /\ depth'[e] = depth[e]
        BY <1>3, <1>9
  <2>4. status[d] = "building" /\ pc[c] = "copy" /\ job[c].space = d
        BY <1>2, <1>3, <1>5
  <2>5. \A e \in Cpus \ {c} : JobOK(e)'
        BY <1>1, <2>1, <2>2, <2>3, <2>4, OthersUndisturbed
  <2>6. QED
        BY <1>10, <2>5 DEF JobControl
<1>12. OneBuilder'
  <2>1. \A e \in Cpus : pc'[e] = "copy" => pc[e] = "copy" /\ job'[e].space = job[e].space
        BY <1>2, <1>3, <1>9
  <2>2. QED
        BY <1>1, <2>1, NoNewBuilder
<1>13. QED
    BY <1>6, <1>8, <1>11, <1>12 DEF IInv

LEMMA AllocOutOfFramesKeeps ==
    ASSUME IInv, NEW c \in Cpus, AllocOutOfFrames(c)
    PROVE  IInv'
<1>1. TypeOK /\ JobControl /\ OneBuilder /\ JobOK(c) /\ Pristine /\ RegionMatchesTable /\ NoRemap
    BY DEF IInv, JobControl
<1>2. PICK s \in Spaces : s = job[c].space
    BY <1>1 DEF AllocOutOfFrames, JobOK, Loop
<1>3. /\ pc[c] = "alloc" /\ fault = "none" /\ Conserved /\ Finish(c, s)
      /\ UNCHANGED <<status, table, map, allocs, marked, free, fault>>
    BY <1>2 DEF AllocOutOfFrames, IInv, spaceVars
<1>4. Loop(c) /\ lock[s] = c /\ status[s] = "live"
    BY <1>1, <1>2, <1>3 DEF JobOK
<1>5. /\ pc'[c] = "idle"
      /\ \A e \in Cpus \ {c} : pc'[e] = pc[e] /\ job'[e] = job[e] /\ depth'[e] = depth[e]
      /\ \A r \in Spaces \ {s} : lock'[r] = lock[r]
    BY <1>1, <1>3, Finished
<1>6. TypeOK'
    BY <1>1, <1>3, <1>4, FinishTypes DEF TypeOK, Loop
<1>7. JobControl'
  <2>1. \A r \in Spaces : lock[r] \in {c, Null} \/ lock'[r] = lock[r]
        BY <1>4, <1>5
  <2>2. \A r \in Spaces \ {s} :
                map'[r] = map[r] /\ allocs'[r] = allocs[r] /\ status'[r] = status[r]
        BY <1>3
  <2>3. \A e \in Cpus \ {c} : JobOK(e)'
        BY <1>1, <1>4, <1>5, <2>1, <2>2, OthersUndisturbed
  <2>4. JobOK(c)'
        BY <1>5 DEF JobOK
  <2>5. QED
        BY <2>3, <2>4 DEF JobControl
<1>8. OneBuilder'
  <2>1. \A e \in Cpus : pc'[e] = "copy" => pc[e] = "copy" /\ job'[e].space = job[e].space
        BY <1>5
  <2>2. QED
        BY <1>1, <2>1, NoNewBuilder
<1>9. Pristine' /\ NoRemap'
    BY <1>1, <1>3 DEF Pristine, NoRemap
<1>10. RegionMatchesTable'
    BY <1>1, <1>3 DEF RegionMatchesTable, Covered
<1>11. Conserved'
    BY <1>3 DEF Conserved, Kept, MappedOnce, MappedOnly, TablesApart
<1>12. QED
    BY <1>6, <1>7, <1>8, <1>9, <1>10, <1>11 DEF IInv

(* The end of a copy, for better or worse: its target is given away.       *)
LEMMA CopyEnds ==
    ASSUME IInv, NEW c \in Cpus, pc[c] = "copy", Finish(c, job[c].from),
           status' = [status EXCEPT ![job[c].space] = "live"],
           UNCHANGED <<table, map, allocs, marked>>
    PROVE  /\ status' \in [Spaces -> {"none", "building", "live", "gone"}]
           /\ pc' \in [Cpus -> {"idle", "alloc", "copy"}]
           /\ job' \in [Cpus -> [space : Spaces \union {Null}, from : Spaces \union {Null},
                                 todo : SUBSET (Slots \X Pages), mapped : Nat]]
           /\ lock' \in [Spaces -> Cpus \union {Null}]
           /\ depth' \in [Cpus -> Nat]
           /\ JobControl' /\ OneBuilder' /\ Pristine' /\ RegionMatchesTable'
<1>1. TypeOK /\ JobControl /\ OneBuilder /\ JobOK(c) /\ Pristine /\ RegionMatchesTable
    BY DEF IInv, JobControl
<1>2. Loop(c) /\ status[job[c].space] = "building" /\ job[c].from \in Spaces /\ lock[job[c].from] = c
    BY <1>1 DEF JobOK
<1>3. PICK s \in Spaces : s = job[c].from
    BY <1>2
<1>4. PICK d \in Spaces : d = job[c].space
    BY <1>2 DEF Loop
<1>5. Finish(c, s) /\ status' = [status EXCEPT ![d] = "live"] /\ depth[c] > 0
    BY <1>2, <1>3, <1>4 DEF Loop
<1>6. /\ pc'[c] = "idle"
      /\ \A e \in Cpus \ {c} : pc'[e] = pc[e] /\ job'[e] = job[e] /\ depth'[e] = depth[e]
      /\ \A r \in Spaces \ {s} : lock'[r] = lock[r]
    BY <1>1, <1>5, Finished
<1>7. /\ pc' \in [Cpus -> {"idle", "alloc", "copy"}]
      /\ job' \in [Cpus -> [space : Spaces \union {Null}, from : Spaces \union {Null},
                            todo : SUBSET (Slots \X Pages), mapped : Nat]]
      /\ lock' \in [Spaces -> Cpus \union {Null}]
      /\ depth' \in [Cpus -> Nat]
    BY <1>1, <1>5, FinishTypes
<1>8. /\ status' \in [Spaces -> {"none", "building", "live", "gone"}]
      /\ status'[d] = "live" /\ \A r \in Spaces \ {d} : status'[r] = status[r]
    BY <1>1, <1>5, Types
<1>9. JobControl'
  <2>1. \A r \in Spaces : lock[r] \in {c, Null} \/ lock'[r] = lock[r]
        BY <1>2, <1>3, <1>6
  <2>2. \A r \in Spaces \ {d} :
                map'[r] = map[r] /\ allocs'[r] = allocs[r] /\ status'[r] = status[r]
        BY <1>8
  <2>3. status[d] = "building" /\ pc[c] = "copy" /\ job[c].space = d
        BY <1>2, <1>4
  <2>4. \A e \in Cpus \ {c} : JobOK(e)'
        BY <1>1, <1>6, <2>1, <2>2, <2>3, OthersUndisturbed
  <2>5. JobOK(c)'
        BY <1>6 DEF JobOK
  <2>6. QED
        BY <2>4, <2>5 DEF JobControl
<1>10. OneBuilder'
  <2>1. \A e \in Cpus : pc'[e] = "copy" => pc[e] = "copy" /\ job'[e].space = job[e].space
        BY <1>6
  <2>2. QED
        BY <1>1, <2>1, NoNewBuilder
<1>11. Pristine'
  <2>1. \A r \in Spaces : status'[r] = "none" => status[r] = "none"
        BY <1>8
  <2>2. QED
        BY <1>1, <2>1 DEF Pristine
<1>12. RegionMatchesTable'
    BY <1>1 DEF RegionMatchesTable, Covered
<1>13. QED
    BY <1>7, <1>8, <1>9, <1>10, <1>11, <1>12

LEMMA CopyDoneKeeps ==
    ASSUME IInv, NEW c \in Cpus, CopyDone(c)
    PROVE  IInv'
<1>1. TypeOK /\ NoRemap
    BY DEF IInv
<1>2. /\ pc[c] = "copy" /\ fault = "none" /\ Conserved /\ Finish(c, job[c].from)
      /\ status' = [status EXCEPT ![job[c].space] = "live"]
      /\ UNCHANGED <<table, map, allocs, marked>>
      /\ UNCHANGED <<free, fault>>
    BY DEF CopyDone, IInv
<1>3. /\ status' \in [Spaces -> {"none", "building", "live", "gone"}]
      /\ pc' \in [Cpus -> {"idle", "alloc", "copy"}]
      /\ job' \in [Cpus -> [space : Spaces \union {Null}, from : Spaces \union {Null},
                            todo : SUBSET (Slots \X Pages), mapped : Nat]]
      /\ lock' \in [Spaces -> Cpus \union {Null}]
      /\ depth' \in [Cpus -> Nat]
      /\ JobControl' /\ OneBuilder' /\ Pristine' /\ RegionMatchesTable'
    BY <1>2, CopyEnds
<1>4. TypeOK'
    BY <1>1, <1>2, <1>3 DEF TypeOK
<1>5. NoRemap'
    BY <1>1, <1>2 DEF NoRemap
<1>6. Conserved'
    BY <1>2 DEF Conserved, Kept, MappedOnce, MappedOnly, TablesApart
<1>7. QED
    BY <1>3, <1>4, <1>5, <1>6 DEF IInv

LEMMA CopyOutOfFramesKeeps ==
    ASSUME IInv, NEW c \in Cpus, CopyOutOfFrames(c)
    PROVE  IInv'
<1>1. TypeOK /\ JobOK(c)
    BY DEF IInv, JobControl
<1>2. /\ pc[c] = "copy" /\ fault' = "copy" /\ Finish(c, job[c].from)
      /\ status' = [status EXCEPT ![job[c].space] = "live"]
      /\ UNCHANGED <<table, map, allocs, marked>>
    BY DEF CopyOutOfFrames
<1>3. /\ status' \in [Spaces -> {"none", "building", "live", "gone"}]
      /\ pc' \in [Cpus -> {"idle", "alloc", "copy"}]
      /\ job' \in [Cpus -> [space : Spaces \union {Null}, from : Spaces \union {Null},
                            todo : SUBSET (Slots \X Pages), mapped : Nat]]
      /\ lock' \in [Spaces -> Cpus \union {Null}]
      /\ depth' \in [Cpus -> Nat]
      /\ JobControl' /\ OneBuilder' /\ Pristine' /\ RegionMatchesTable'
    BY <1>2, CopyEnds
<1>4. free' \subseteq Frames \union Foreign
  <2>1. PICK d \in Spaces : d = job[c].space
        BY <1>1, <1>2 DEF JobOK, Loop
  <2>2. \A m \in Covered(d) : map[d][m[2]] \in Frames \union Foreign \union {Null}
        BY <1>1, Types DEF Covered
  <2>3. \A f \in free' : f # Null /\ \E m \in Covered(d) : f = map[d][m[2]]
        BY <2>1 DEF CopyOutOfFrames
  <2>4. QED
        BY <2>2, <2>3
<1>5. TypeOK'
    BY <1>1, <1>2, <1>3, <1>4 DEF TypeOK
<1>6. NoRemap' /\ fault' # "none"
    BY <1>2 DEF NoRemap
<1>7. QED
    BY <1>3, <1>5, <1>6 DEF IInv

(* A step of an idle CPU that stays idle disturbs no loop.                 *)
LEMMA IdleStep ==
    ASSUME TypeOK, JobControl, OneBuilder, NEW c \in Cpus, NEW s \in Spaces, pc[c] = "idle",
           \/ status[s] = "none"
           \/ status[s] = "live" /\ lock[s] = Null,
           \A r \in Spaces \ {s} :
                map'[r] = map[r] /\ allocs'[r] = allocs[r] /\ status'[r] = status[r],
           \A e \in Cpus \ {c} : depth'[e] = depth[e],
           UNCHANGED <<lock, pc, job>>
    PROVE  JobControl' /\ OneBuilder'
<1>1. \A e \in Cpus \ {c} : pc'[e] = pc[e] /\ job'[e] = job[e] /\ depth'[e] = depth[e]
    OBVIOUS
<1>2. \A r \in Spaces : lock[r] \in {c, Null} \/ lock'[r] = lock[r]
    OBVIOUS
<1>3. \A e \in Cpus \ {c} : JobOK(e)'
    BY <1>1, <1>2, OthersUndisturbed
<1>4. JobOK(c)'
    BY DEF JobOK
<1>5. OneBuilder'
    BY NoNewBuilder
<1>6. QED
    BY <1>3, <1>4, <1>5 DEF JobControl

LEMMA CreateKeeps ==
    ASSUME IInv, NEW c \in Cpus, NEW s \in Spaces, Create(c, s)
    PROVE  IInv'
<1>1. TypeOK /\ JobControl /\ OneBuilder /\ Pristine /\ NoRemap
    BY DEF IInv
<1>2. /\ fault = "none" /\ pc[c] = "idle" /\ status[s] = "none" /\ Conserved
      /\ UNCHANGED <<map, allocs, lock, pc, job, depth, fault>>
    BY DEF Create, IInv
<1>3. PICK f \in free : table' = [table EXCEPT ![s] = {f}] /\ free' = free \ {f}
    BY AllocIsFree DEF Create
<1>4. PICK junk \in SUBSET Pages : marked' = [marked EXCEPT ![s] = junk]
  <2>1. {} \in SUBSET Pages /\ (IF Junk THEN SUBSET Pages ELSE {{}}) \subseteq SUBSET Pages
        OBVIOUS
  <2>2. QED
        BY <2>1 DEF Create
<1>5. status' = [status EXCEPT ![s] = "live"]
    BY DEF Create
<1>6. TypeOK'
  <2>1. table' \in [Spaces -> SUBSET (Frames \union Foreign)] /\ free' \subseteq Frames \union Foreign
        BY <1>1, <1>3, Types
  <2>2. marked' \in [Spaces -> SUBSET Pages]
        BY <1>1, <1>4, Types
  <2>3. status' \in [Spaces -> {"none", "building", "live", "gone"}]
        BY <1>1, <1>5, Types
  <2>4. QED
        BY <1>1, <1>2, <2>1, <2>2, <2>3 DEF TypeOK
<1>7. \A r \in Spaces \ {s} : status'[r] = status[r] /\ table'[r] = table[r] /\ marked'[r] = marked[r]
    BY <1>1, <1>3, <1>4, <1>5, Types
<1>8. JobControl' /\ OneBuilder'
    BY <1>1, <1>2, <1>7, IdleStep
<1>9. Pristine'
  <2>1. status'[s] = "live"
        BY <1>1, <1>5, Types
  <2>2. \A r \in Spaces : status'[r] = "none" => status[r] = "none" /\ table'[r] = table[r]
        BY <1>7, <2>1
  <2>3. QED
        BY <1>1, <1>2, <2>2 DEF Pristine
<1>10. RegionMatchesTable'
  <2>1. \A r \in Spaces \ {s} : Agrees(r)'
    <3>1. SUFFICES ASSUME NEW r \in Spaces \ {s} PROVE Agrees(r)'
          OBVIOUS
    <3>2. Agrees(r)
          BY AgreesMeans DEF IInv
    <3>3. QED
          BY <1>2, <1>7, <3>2, AgreesFrame
  <2>2. Agrees(s)'
    <3>1. Covered(s) = {}
          BY <1>1, <1>2, NothingCovered DEF Pristine
    <3>2. Covered(s)' = {}
          BY <1>2, <3>1, SameCovered
    <3>3. \A p \in Pages : map'[s][p] \notin Frames
          BY <1>1, <1>2, AddressSpaceAssumption DEF Pristine
    <3>4. QED
          BY <3>2, <3>3 DEF Agrees
  <2>3. QED
        BY <2>1, <2>2 DEF RegionMatchesTable, Agrees
<1>11. NoRemap'
    BY <1>2 DEF NoRemap
<1>12. Conserved'
    BY <1>1, <1>2, <1>3, CreateConserves DEF Pristine
<1>13. QED
    BY <1>6, <1>8, <1>9, <1>10, <1>11, <1>12 DEF IInv

LEMMA DestroyKeeps ==
    ASSUME IInv, NEW c \in Cpus, NEW s \in Spaces, Destroy(c, s)
    PROVE  IInv'
<1>1. TypeOK /\ JobControl /\ OneBuilder /\ Pristine
    BY DEF IInv
<1>2. /\ fault = "none" /\ pc[c] = "idle" /\ status[s] = "live" /\ lock[s] = Null /\ Conserved
      /\ UNCHANGED <<lock, pc, job>> /\ fault' \in {"none", "double"}
    BY DEF Destroy, MayUse, IInv
<1>3. /\ status' = [status EXCEPT ![s] = "gone"]
      /\ table' = [table EXCEPT ![s] = {}]
      /\ map' = [map EXCEPT ![s] = [p \in Pages |-> Null]]
      /\ allocs' = [allocs EXCEPT ![s] = [i \in Slots |-> NoAlloc]]
      /\ marked' = [marked EXCEPT ![s] = {}]
      /\ depth' = [depth EXCEPT ![c] = @ + 1]
    BY DEF Destroy
<1>4. /\ status' \in [Spaces -> {"none", "building", "live", "gone"}]
      /\ table' \in [Spaces -> SUBSET (Frames \union Foreign)]
      /\ map' \in [Spaces -> [Pages -> Frames \union Foreign \union {Null}]]
      /\ marked' \in [Spaces -> SUBSET Pages]
      /\ depth' \in [Cpus -> Nat]
    BY <1>1, <1>3, Types
<1>5. free' \subseteq Frames \union Foreign
  <2>1. map[s] \in [Pages -> Frames \union Foreign \union {Null}] /\ table[s] \subseteq Frames \union Foreign
        BY <1>1, Types
  <2>2. FramesOf(s) \subseteq Frames \union Foreign
        BY <2>1 DEF FramesOf, Range
  <2>3. free' = free \union FramesOf(s)
        BY DEF Destroy
  <2>4. QED
        BY <1>1, <2>2, <2>3, Types
<1>6. /\ \A r \in Spaces \ {s} : /\ map'[r] = map[r] /\ allocs'[r] = allocs[r] /\ status'[r] = status[r]
                                 /\ table'[r] = table[r] /\ marked'[r] = marked[r]
      /\ status'[s] = "gone"
      /\ \A p \in Pages : map'[s][p] = Null
      /\ \A i \in Slots : allocs'[s][i] = NoAlloc
      /\ \A e \in Cpus \ {c} : depth'[e] = depth[e]
    BY <1>1, <1>3, Types
<1>7. TypeOK'
  <2>1. NoAlloc \in [va : Pages, n : Nat]
        BY AddressSpaceAssumption DEF NoAlloc, Pages
  <2>2. allocs' \in [Spaces -> [Slots -> [va : Pages, n : Nat]]]
        BY <1>1, <1>3, <2>1, Types
  <2>3. QED
        BY <1>1, <1>2, <1>4, <1>5, <2>2 DEF TypeOK
<1>8. JobControl' /\ OneBuilder'
    BY <1>1, <1>2, <1>6, IdleStep
<1>9. Pristine'
  <2>1. SUFFICES ASSUME NEW r \in Spaces, status'[r] = "none"
                 PROVE  /\ table'[r] = {}
                        /\ \A q \in Pages : map'[r][q] = Null
                        /\ \A i \in Slots : allocs'[r][i] = NoAlloc
        BY DEF Pristine
  <2>2. r # s /\ status[r] = "none"
        BY <1>6, <2>1
  <2>3. QED
        BY <1>1, <1>6, <2>2 DEF Pristine
<1>10. RegionMatchesTable'
  <2>1. \A r \in Spaces \ {s} : Agrees(r)'
    <3>1. SUFFICES ASSUME NEW r \in Spaces \ {s} PROVE Agrees(r)'
          OBVIOUS
    <3>2. Agrees(r)
          BY AgreesMeans DEF IInv
    <3>3. QED
          BY <1>6, <3>2, AgreesFrame
  <2>2. Agrees(s)'
    <3>1. Covered(s)' = {}
          BY <1>6 DEF Covered, NoAlloc, Run, Pages
    <3>2. QED
          BY <1>6, <3>1, AddressSpaceAssumption DEF Agrees
  <2>3. QED
        BY <2>1, <2>2 DEF RegionMatchesTable, Agrees
<1>11. NoRemap'
    BY <1>2 DEF NoRemap
<1>12. Conserved'
    BY <1>1, <1>2, DestroyConserves
<1>13. QED
    BY <1>7, <1>8, <1>9, <1>10, <1>11, <1>12 DEF IInv

LEMMA MapUnownedKeeps ==
    ASSUME IInv, NEW c \in Cpus, NEW s \in Spaces, NEW p \in Pages, NEW x \in Foreign,
           MapUnowned(c, s, p, x)
    PROVE  IInv'
<1>1. TypeOK /\ JobControl /\ OneBuilder /\ Pristine
    BY DEF IInv
<1>2. /\ fault = "none" /\ pc[c] = "idle" /\ status[s] = "live" /\ lock[s] = Null /\ Conserved
      /\ map[s][p] = Null
      /\ UNCHANGED <<status, allocs, marked, lock, pc, job, depth>>
    BY DEF MapUnowned, MayUse, IInv
<1>3. PICK remaining \in SUBSET (Frames \union Foreign) : remaining = free
    BY <1>1, Types
<1>4. /\ PagingMap(s, p, x, remaining) /\ s \in Spaces /\ p \in Pages
      /\ x \in Frames \union Foreign /\ fault = "none"
    BY <1>2, <1>3 DEF MapUnowned
<1>5. \/ /\ fault' = "table" /\ map' = map /\ table' = table
      \/ /\ fault' = "none"
         /\ map' = [map EXCEPT ![s][p] = x]
         /\ \E T \in SUBSET remaining : table' = [table EXCEPT ![s] = @ \union T]
  <2>1. table \in [Spaces -> SUBSET (Frames \union Foreign)]
        BY <1>1, Types
  <2>2. \/ /\ fault' = "remap" /\ map[s][p] # Null
           /\ map' = map /\ table' = table /\ free' = remaining
        \/ /\ fault' = "table"
           /\ map' = map /\ table' = table /\ free' = remaining
        \/ /\ fault' = "none" /\ map[s][p] = Null
           /\ map' = [map EXCEPT ![s][p] = x]
           /\ \E T \in SUBSET remaining :
                 /\ table' = [table EXCEPT ![s] = @ \union T]
                 /\ free' = remaining \ T
    <3>1. MapEnds(s, p, x, remaining)
        BY ONLY <1>4, <2>1, MapEffect
    <3>2. QED
        BY ONLY <3>1 DEF MapEnds
  <2>3. QED
        BY <1>2, <2>2
<1>6. /\ table' \in [Spaces -> SUBSET (Frames \union Foreign)]
      /\ map' \in [Spaces -> [Pages -> Frames \union Foreign \union {Null}]]
      /\ free' \subseteq Frames \union Foreign
      /\ fault' \in {"none", "remap", "table", "copy", "lookup", "double"}
    BY ONLY <1>1, <1>3, <1>4, MapTypes
<1>7. TypeOK'
    BY <1>1, <1>2, <1>6 DEF TypeOK
<1>8. \A r \in Spaces \ {s} : map'[r] = map[r] /\ table'[r] = table[r]
    BY <1>1, <1>5, Types
<1>9. JobControl' /\ OneBuilder'
    BY <1>1, <1>2, <1>8, IdleStep
<1>10. Pristine'
  <2>1. \A r \in Spaces : status'[r] = "none" => r \in Spaces \ {s} /\ status[r] = "none"
        BY <1>2
  <2>2. QED
        BY <1>1, <1>2, <1>8, <2>1 DEF Pristine
<1>11. RegionMatchesTable'
  <2>1. \A r \in Spaces : Agrees(r)
        BY AgreesMeans DEF IInv
  <2>2. \A r \in Spaces \ {s} : Agrees(r)'
    <3>1. SUFFICES ASSUME NEW r \in Spaces \ {s} PROVE Agrees(r)'
          OBVIOUS
    <3>2. QED
          BY <1>2, <1>8, <2>1, AgreesFrame
  <2>3. Agrees(s)'
    <3>1. x \notin Frames
          BY AddressSpaceAssumption
    <3>2. map' = map \/ map' = [map EXCEPT ![s][p] = x]
          BY <1>5
    <3>3. QED
          BY <1>1, <1>2, <2>1, <3>1, <3>2, AgreesMapping
  <2>4. QED
        BY <2>2, <2>3 DEF RegionMatchesTable, Agrees
<1>12. NoRemap'
    BY <1>5 DEF NoRemap
<1>13. fault' = "none" => Conserved'
  <2>1. SUFFICES ASSUME fault' = "none" PROVE Conserved'
        OBVIOUS
  <2>2. x \in Foreign /\ remaining = free
        BY <1>3
  <2>3. QED
        BY ONLY <1>1, <1>2, <1>4, <2>1, <2>2, PagingConserves
<1>14. QED
    BY <1>7, <1>9, <1>10, <1>11, <1>12, <1>13 DEF IInv

LEMMA MapOwnedKeeps ==
    ASSUME IInv, NEW c \in Cpus, NEW s \in Spaces, NEW p \in Pages, MapOwned(c, s, p)
    PROVE  IInv'
<1>1. TypeOK /\ JobControl /\ OneBuilder /\ Pristine /\ RegionMatchesTable /\ NoRemap
    BY DEF IInv
<1>2. /\ fault = "none" /\ pc[c] = "idle" /\ status[s] = "live" /\ lock[s] = Null /\ Conserved
      /\ free # {}
      /\ UNCHANGED <<status, lock, pc, job, depth>>
    BY DEF MapOwned, MayUse, IInv
<1>3. PICK f \in free : f = PmmAlloc(free)
    BY <1>2, AllocIsFree
<1>4. CASE UNCHANGED <<table, map, allocs, marked, free, fault>>
  <2>1. TypeOK'
        BY <1>1, <1>2, <1>4 DEF TypeOK
  <2>2. JobControl' /\ OneBuilder'
        BY <1>1, <1>2, <1>4, IdleStep
  <2>3. Pristine' /\ NoRemap'
        BY <1>1, <1>2, <1>4 DEF Pristine, NoRemap
  <2>4. RegionMatchesTable'
        BY <1>1, <1>4 DEF RegionMatchesTable, Covered
  <2>5. Conserved'
        BY <1>2, <1>4 DEF Conserved, Kept, MappedOnce, MappedOnly, TablesApart
  <2>6. QED
        BY <2>1, <2>2, <2>3, <2>4, <2>5 DEF IInv
<1>5. CASE /\ p \notin marked[s]
           /\ \E i \in FreeSlots(s) : Record(s, i, p, 1)
           /\ PagingMap(s, p, f, free \ {f})
  <2>1. PICK i \in FreeSlots(s) : Record(s, i, p, 1)
        BY <1>5
  <2>2. /\ Run(p, 1) = {p} /\ Run(p, 1) \subseteq Pages /\ Run(p, 1) \subseteq Pages \ marked[s]
        /\ i \in Slots /\ 1 \in Nat /\ p \in Pages /\ s \in Spaces
        BY <1>5 DEF Run, Pages, FreeSlots
  <2>3. PICK remaining \in SUBSET (Frames \union Foreign) : remaining = free \ {f}
        BY <1>1, Types
  <2>4. /\ PagingMap(s, p, f, remaining) /\ s \in Spaces /\ p \in Pages
        /\ f \in Frames \union Foreign /\ fault = "none"
        BY <1>1, <1>2, <1>5, <2>3, Types
  <2>5. table \in [Spaces -> SUBSET (Frames \union Foreign)]
        BY <1>1, Types
  <2>6. \/ /\ fault' = "remap" /\ map[s][p] # Null
           /\ map' = map /\ table' = table /\ free' = remaining
        \/ /\ fault' = "table"
           /\ map' = map /\ table' = table /\ free' = remaining
        \/ /\ fault' = "none" /\ map[s][p] = Null
           /\ map' = [map EXCEPT ![s][p] = f]
           /\ \E T \in SUBSET remaining :
                 /\ table' = [table EXCEPT ![s] = @ \union T]
                 /\ free' = remaining \ T
    <3>1. MapEnds(s, p, f, remaining)
        BY ONLY <2>4, <2>5, MapEffect
    <3>2. QED
        BY ONLY <3>1 DEF MapEnds
  <2>7. /\ table' \in [Spaces -> SUBSET (Frames \union Foreign)]
        /\ map' \in [Spaces -> [Pages -> Frames \union Foreign \union {Null}]]
        /\ free' \subseteq Frames \union Foreign
        /\ fault' \in {"none", "remap", "table", "copy", "lookup", "double"}
        BY ONLY <1>1, <2>3, <2>4, MapTypes
  <2>8. /\ allocs' \in [Spaces -> [Slots -> [va : Pages, n : Nat]]]
        /\ marked' \in [Spaces -> SUBSET Pages]
        BY ONLY <1>1, <2>1, <2>2, RecordTypes
  <2>9. TypeOK'
        BY <1>1, <1>2, <2>7, <2>8 DEF TypeOK
  <2>10. \A r \in Spaces \ {s} : allocs'[r] = allocs[r] /\ marked'[r] = marked[r]
        BY ONLY <1>1, <2>1, <2>2, RecordCovers
  <2>11. \A r \in Spaces \ {s} : map'[r] = map[r] /\ table'[r] = table[r]
        BY <1>1, <2>6, Types
  <2>12. JobControl' /\ OneBuilder'
        BY <1>1, <1>2, <2>10, <2>11, IdleStep
  <2>13. Pristine'
    <3>1. \A r \in Spaces : status'[r] = "none" => r \in Spaces \ {s} /\ status[r] = "none"
          BY <1>2
    <3>2. QED
          BY <1>1, <2>10, <2>11, <3>1 DEF Pristine
  <2>14. Agrees(s)
        BY <1>1, AgreesMeans
  <2>15. RegionMatchesTable'
    <3>1. \A r \in Spaces \ {s} : Agrees(r)'
      <4>1. SUFFICES ASSUME NEW r \in Spaces \ {s} PROVE Agrees(r)'
            OBVIOUS
      <4>2. Agrees(r)
            BY <1>1, AgreesMeans
      <4>3. QED
            BY <2>10, <2>11, <4>2, AgreesFrame
    <3>2. \A q \in Pages : map'[s][q] = map[s][q] \/ q \in Run(p, 1)
          BY <1>1, <2>2, <2>6, Types
    <3>3. Agrees(s)'
          BY ONLY <1>1, <2>1, <2>2, <2>14, <3>2, AgreesRecord
    <3>4. QED
          BY <3>1, <3>3 DEF RegionMatchesTable, Agrees
  <2>16. NoRemap'
    <3>1. SUFFICES ASSUME fault' = "remap"
                   PROVE  \E r \in Spaces, q \in Pages : map'[r][q] \in Foreign
          BY DEF NoRemap
    <3>2. map[s][p] # Null /\ map' = map
          BY <2>6, <3>1
    <3>3. map[s][p] \notin Frames
          BY <1>5, <2>14, UnmarkedUnmapped
    <3>4. map[s][p] \in Frames \union Foreign \union {Null}
          BY <1>1, Types
    <3>5. QED
          BY <3>2, <3>3, <3>4
  <2>17. fault' = "none" => Conserved'
    <3>1. SUFFICES ASSUME fault' = "none" PROVE Conserved'
          OBVIOUS
    <3>2. f \in free /\ remaining = free \ {f}
          BY <2>3
    <3>3. QED
          BY ONLY <1>1, <1>2, <2>4, <3>1, <3>2, PagingConserves
  <2>18. QED
        BY <2>9, <2>12, <2>13, <2>15, <2>16, <2>17 DEF IInv
<1>6. QED
    BY <1>3, <1>4, <1>5 DEF MapOwned

LEMMA AllocStartKeeps ==
    ASSUME IInv, NEW c \in Cpus, NEW s \in Spaces, NEW n \in Counts, AllocStart(c, s, n)
    PROVE  IInv'
<1>1. TypeOK /\ JobControl /\ OneBuilder /\ Pristine /\ RegionMatchesTable /\ NoRemap
    BY DEF IInv
<1>2. /\ fault = "none" /\ pc[c] = "idle" /\ status[s] = "live" /\ lock[s] = Null /\ Conserved
      /\ lock' = [lock EXCEPT ![s] = c]
      /\ pc' = [pc EXCEPT ![c] = "alloc"]
      /\ depth' = [depth EXCEPT ![c] = @ + 1]
      /\ UNCHANGED <<status, table, map, free, fault>>
    BY DEF AllocStart, MayUse, IInv
<1>3. PICK i \in FreeSlots(s), va \in FreeRuns(s, n) :
        /\ Record(s, i, va, n)
        /\ job' = [job EXCEPT ![c] =
                     [space |-> s, from |-> Null, todo |-> {i} \X Run(va, n), mapped |-> 0]]
    BY DEF AllocStart
<1>4. /\ i \in FreeSlots(s) /\ i \in Slots /\ va \in Pages /\ n \in Nat /\ s \in Spaces
      /\ Run(va, n) \subseteq Pages /\ Run(va, n) \subseteq Pages \ marked[s]
    BY AddressSpaceAssumption DEF FreeSlots, FreeRuns
<1> DEFINE new == {i} \X Run(va, n)
<1>5. new \subseteq Slots \X Pages
    BY <1>4
<1>6. \A m \in new : m[2] \in Run(va, n)
    OBVIOUS
<1>7. job' = [job EXCEPT ![c] = [space |-> s, from |-> Null, todo |-> new, mapped |-> 0]]
    BY <1>3
<1>8. /\ Covered(s)' = Covered(s) \union new
      /\ \A r \in Spaces \ {s} : allocs'[r] = allocs[r] /\ marked'[r] = marked[r]
    BY ONLY <1>1, <1>3, <1>4, RecordCovers
<1> HIDE DEF new
<1>9. TypeOK'
  <2>1. /\ allocs' \in [Spaces -> [Slots -> [va : Pages, n : Nat]]]
        /\ marked' \in [Spaces -> SUBSET Pages]
        BY ONLY <1>1, <1>3, <1>4, RecordTypes
  <2>2. job' \in [Cpus -> [space : Spaces \union {Null}, from : Spaces \union {Null},
                           todo : SUBSET (Slots \X Pages), mapped : Nat]]
        BY <1>1, <1>5, <1>7, Types
  <2>3. /\ pc' \in [Cpus -> {"idle", "alloc", "copy"}]
        /\ lock' \in [Spaces -> Cpus \union {Null}]
        /\ depth' \in [Cpus -> Nat]
        BY <1>1, <1>2, Types
  <2>4. QED
        BY <1>1, <1>2, <2>1, <2>2, <2>3 DEF TypeOK
<1>10. /\ \A e \in Cpus \ {c} : pc'[e] = pc[e] /\ job'[e] = job[e] /\ depth'[e] = depth[e]
       /\ pc'[c] = "alloc" /\ depth'[c] = depth[c] + 1
       /\ job'[c].space = s /\ job'[c].todo = new
       /\ lock'[s] = c /\ \A r \in Spaces \ {s} : lock'[r] = lock[r]
    BY <1>1, <1>2, <1>7, Types
<1>11. \A r \in Spaces : Agrees(r)
    BY <1>1, AgreesMeans
<1>12. JobOK(c)'
  <2>1. job'[c].todo \subseteq Covered(job[c].space)'
        BY <1>8, <1>10 DEF Covered
  <2>2. \A m \in new : map[s][m[2]] \notin Frames
        BY <1>4, <1>6, <1>11, UnmarkedUnmapped
  <2>3. \A m \in job'[c].todo : map'[job'[c].space][m[2]] \notin Frames
        BY <1>2, <1>10, <2>2
  <2>4. depth'[c] > 0
        BY <1>1, <1>10, Types
  <2>5. Loop(c)'
        BY <1>10, <2>1, <2>3, <2>4 DEF Loop
  <2>6. QED
        BY <1>2, <1>10, <2>5 DEF JobOK
<1>13. JobControl'
  <2>1. \A r \in Spaces : lock[r] \in {c, Null} \/ lock'[r] = lock[r]
        BY <1>2, <1>10
  <2>2. \A r \in Spaces \ {s} :
                map'[r] = map[r] /\ allocs'[r] = allocs[r] /\ status'[r] = status[r]
        BY <1>2, <1>8
  <2>3. \A e \in Cpus \ {c} : JobOK(e)'
        BY <1>1, <1>2, <1>10, <2>1, <2>2, OthersUndisturbed
  <2>4. QED
        BY <1>12, <2>3 DEF JobControl
<1>14. OneBuilder'
  <2>1. \A e \in Cpus : pc'[e] = "copy" => pc[e] = "copy" /\ job'[e].space = job[e].space
        BY <1>10
  <2>2. QED
        BY <1>1, <2>1, NoNewBuilder
<1>15. Pristine'
  <2>1. \A r \in Spaces : status'[r] = "none" => r \in Spaces \ {s} /\ status[r] = "none"
        BY <1>2
  <2>2. QED
        BY <1>1, <1>2, <1>8, <2>1 DEF Pristine
<1>16. RegionMatchesTable'
  <2>1. \A r \in Spaces \ {s} : Agrees(r)'
    <3>1. SUFFICES ASSUME NEW r \in Spaces \ {s} PROVE Agrees(r)'
          OBVIOUS
    <3>2. QED
          BY <1>2, <1>8, <1>11, AgreesFrame
  <2>2. Agrees(s)'
    <3>1. \A q \in Pages : map'[s][q] = map[s][q] \/ q \in Run(va, n)
          BY <1>2
    <3>2. Agrees(s)
          BY <1>11
    <3>3. QED
          BY ONLY <1>1, <1>3, <1>4, <3>1, <3>2, AgreesRecord
  <2>3. QED
        BY <2>1, <2>2 DEF RegionMatchesTable, Agrees
<1>17. NoRemap'
    BY <1>2 DEF NoRemap
<1>18. Conserved'
    BY <1>2 DEF Conserved, Kept, MappedOnce, MappedOnly, TablesApart
<1>19. QED
    BY <1>9, <1>13, <1>14, <1>15, <1>16, <1>17, <1>18 DEF IInv

LEMMA CopyStartKeeps ==
    ASSUME IInv, NEW c \in Cpus, NEW s \in Spaces, NEW d \in Spaces, CopyStart(c, s, d)
    PROVE  IInv'
<1>1. TypeOK /\ JobControl /\ OneBuilder /\ Pristine /\ RegionMatchesTable /\ NoRemap
    BY DEF IInv
<1>2. /\ fault = "none" /\ pc[c] = "idle" /\ status[s] = "live" /\ lock[s] = Null /\ Conserved
      /\ status[d] = "none" /\ d # s
      /\ status' = [status EXCEPT ![d] = "building"]
      /\ lock' = [lock EXCEPT ![s] = c]
      /\ pc' = [pc EXCEPT ![c] = "copy"]
      /\ job' = [job EXCEPT ![c] =
                   [space |-> d, from |-> s, todo |-> Covered(s), mapped |-> 0]]
      /\ depth' = [depth EXCEPT ![c] = @ + 1]
      /\ UNCHANGED <<map, fault>>
    BY DEF CopyStart, MayUse, IInv
<1>3. PICK f \in free : table' = [table EXCEPT ![d] = {f}] /\ free' = free \ {f}
    BY AllocIsFree DEF CopyStart
<1>4. /\ allocs' = [allocs EXCEPT ![d] = allocs[s]]
      /\ marked' = [marked EXCEPT ![d] = marked[s]]
    BY DEF CopyStart, RegionCopy
<1>5. Covered(s) \subseteq Slots \X Pages
    BY DEF Covered
<1>6. TypeOK'
  <2>1. table' \in [Spaces -> SUBSET (Frames \union Foreign)] /\ free' \subseteq Frames \union Foreign
        BY <1>1, <1>3, Types
  <2>2. /\ allocs' \in [Spaces -> [Slots -> [va : Pages, n : Nat]]]
        /\ marked' \in [Spaces -> SUBSET Pages]
        BY <1>1, <1>4, Types
  <2>3. /\ status' \in [Spaces -> {"none", "building", "live", "gone"}]
        /\ pc' \in [Cpus -> {"idle", "alloc", "copy"}]
        /\ lock' \in [Spaces -> Cpus \union {Null}]
        /\ depth' \in [Cpus -> Nat]
        BY <1>1, <1>2, Types
  <2>4. job' \in [Cpus -> [space : Spaces \union {Null}, from : Spaces \union {Null},
                           todo : SUBSET (Slots \X Pages), mapped : Nat]]
        BY <1>1, <1>2, <1>5, Types
  <2>5. QED
        BY <1>1, <1>2, <2>1, <2>2, <2>3, <2>4 DEF TypeOK
<1>7. /\ \A e \in Cpus \ {c} : pc'[e] = pc[e] /\ job'[e] = job[e] /\ depth'[e] = depth[e]
      /\ pc'[c] = "copy" /\ depth'[c] = depth[c] + 1
      /\ job'[c].space = d /\ job'[c].from = s /\ job'[c].todo = Covered(s)
      /\ lock'[s] = c /\ \A r \in Spaces \ {s} : lock'[r] = lock[r]
      /\ status'[d] = "building"
    BY <1>1, <1>2, Types
<1>8. \A r \in Spaces \ {d} : /\ map'[r] = map[r] /\ allocs'[r] = allocs[r] /\ marked'[r] = marked[r]
                              /\ status'[r] = status[r] /\ table'[r] = table[r]
    BY <1>1, <1>2, <1>3, <1>4, Types
<1>9. Covered(d)' = Covered(s)
  <2>1. allocs'[d] = allocs[s]
        BY <1>1, <1>4, Types
  <2>2. QED
        BY <2>1 DEF Covered
<1>10. \A q \in Pages : map'[d][q] = Null /\ map'[d][q] \notin Frames
    BY <1>1, <1>2, AddressSpaceAssumption DEF Pristine
<1>11. JobOK(c)'
  <2>1. job'[c].todo \subseteq Covered(job[c].space)'
        BY <1>7, <1>9 DEF Covered
  <2>2. \A m \in job'[c].todo : map'[job'[c].space][m[2]] \notin Frames
        BY <1>5, <1>7, <1>10
  <2>3. depth'[c] > 0
        BY <1>1, <1>7, Types
  <2>4. Loop(c)'
        BY <1>7, <2>1, <2>2, <2>3 DEF Loop
  <2>5. QED
        BY <1>7, <2>4 DEF JobOK
<1>12. JobControl'
  <2>1. \A r \in Spaces : lock[r] \in {c, Null} \/ lock'[r] = lock[r]
        BY <1>2, <1>7
  <2>2. \A r \in Spaces \ {d} :
                map'[r] = map[r] /\ allocs'[r] = allocs[r] /\ status'[r] = status[r]
        BY <1>8
  <2>3. \A e \in Cpus \ {c} : JobOK(e)'
        BY <1>1, <1>2, <1>7, <2>1, <2>2, OthersUndisturbed
  <2>4. QED
        BY <1>11, <2>3 DEF JobControl
<1>13. OneBuilder'
  <2>1. \A e \in Cpus \ {c} : pc[e] = "copy" => job[e].space # d
        BY <1>1, <1>2 DEF JobControl, JobOK
  <2>2. QED
        BY <1>1, <1>7, <2>1 DEF OneBuilder
<1>14. Pristine'
  <2>1. \A r \in Spaces : status'[r] = "none" => r \in Spaces \ {d} /\ status[r] = "none"
        BY <1>7, <1>8
  <2>2. QED
        BY <1>1, <1>8, <2>1 DEF Pristine
<1>15. RegionMatchesTable'
  <2>1. \A r \in Spaces : Agrees(r)
        BY <1>1, AgreesMeans
  <2>2. \A r \in Spaces \ {d} : Agrees(r)'
    <3>1. SUFFICES ASSUME NEW r \in Spaces \ {d} PROVE Agrees(r)'
          OBVIOUS
    <3>2. QED
          BY <1>8, <2>1, AgreesFrame
  <2>3. Agrees(d)'
    <3>1. marked'[d] = marked[s]
          BY <1>1, <1>4, Types
    <3>2. Agrees(s)
          BY <2>1
    <3>3. QED
          BY <1>9, <1>10, <3>1, <3>2 DEF Agrees
  <2>4. QED
        BY <2>2, <2>3 DEF RegionMatchesTable, Agrees
<1>16. NoRemap'
    BY <1>2 DEF NoRemap
<1>17. Conserved'
    BY <1>1, <1>2, <1>3, CreateConserves DEF Pristine
<1>18. QED
    BY <1>6, <1>12, <1>13, <1>14, <1>15, <1>16, <1>17 DEF IInv

-----------------------------------------------------------------------------
LEMMA InitIInv == Init => IInv
<1>1. SUFFICES ASSUME Init PROVE IInv
    OBVIOUS
<1>2. NoAlloc \in [va : Pages, n : Nat]
    BY AddressSpaceAssumption DEF NoAlloc, Pages
<1>3. NoJob \in [space : Spaces \union {Null}, from : Spaces \union {Null},
                 todo : SUBSET (Slots \X Pages), mapped : Nat]
    BY DEF NoJob
<1>4. TypeOK
    BY <1>1, <1>2, <1>3 DEF Init, TypeOK
<1>5. JobControl /\ OneBuilder
    BY <1>1 DEF Init, JobControl, JobOK, OneBuilder
<1>6. Pristine
    BY <1>1 DEF Init, Pristine
<1>7. RegionMatchesTable
  <2>1. \A s \in Spaces : Covered(s) = {}
        BY <1>1, <1>6, NothingCovered DEF Init, Pristine
  <2>2. \A s \in Spaces, p \in Pages : map[s][p] \notin Frames
        BY <1>1, AddressSpaceAssumption DEF Init
  <2>3. QED
        BY <2>1, <2>2 DEF RegionMatchesTable
<1>8. NoRemap
    BY <1>1 DEF Init, NoRemap
<1>9. Conserved
  <2>1. \A s \in Spaces : table[s] = {} /\ \A p \in Pages : map[s][p] \notin Frames
        BY <1>1, AddressSpaceAssumption DEF Init
  <2>2. free = Frames
        BY <1>1 DEF Init
  <2>3. QED
        BY <2>1, <2>2 DEF Conserved, Kept, MappedOnce, MappedOnly, TablesApart
<1>10. QED
    BY <1>4, <1>5, <1>6, <1>7, <1>8, <1>9 DEF IInv

LEMMA NextIInv == IInv /\ [Next]_vars => IInv'
<1>1. SUFFICES ASSUME IInv, [Next]_vars PROVE IInv'
    OBVIOUS
<1>2. CASE UNCHANGED vars
  <2>1. UNCHANGED <<status, table, map, allocs, marked, lock, free, pc, job, depth, fault>>
        BY <1>2 DEF vars, spaceVars
  <2>2. TypeOK' /\ OneBuilder' /\ Pristine' /\ NoRemap'
        BY <1>1, <2>1 DEF IInv, TypeOK, OneBuilder, Pristine, NoRemap
  <2>3. JobControl'
        BY <1>1, <2>1 DEF IInv, JobControl, JobOK, Loop, Covered
  <2>4. RegionMatchesTable'
        BY <1>1, <2>1 DEF IInv, RegionMatchesTable, Covered
  <2>5. fault' = "none" => Conserved'
        BY <1>1, <2>1 DEF IInv, Conserved, Kept, MappedOnce, MappedOnly, TablesApart
  <2>6. QED
        BY <2>2, <2>3, <2>4, <2>5 DEF IInv
<1>3. ASSUME Next PROVE IInv'
  <2>1. PICK c \in Cpus :
            \/ AllocPage(c)
            \/ AllocOutOfFrames(c)
            \/ CopyPage(c)
            \/ CopyDone(c)
            \/ CopyOutOfFrames(c)
            \/ \E s \in Spaces :
                \/ Create(c, s)
                \/ Destroy(c, s)
                \/ \E n \in Counts : AllocStart(c, s, n)
                \/ \E va \in Pages : MapOwned(c, s, va)
                \/ \E va \in Pages, x \in Foreign : MapUnowned(c, s, va, x)
                \/ \E d \in Spaces : CopyStart(c, s, d)
        BY <1>3 DEF Next
  <2>2. CASE AllocPage(c)
        BY <1>1, <2>2, AllocPageKeeps
  <2>3. CASE AllocOutOfFrames(c)
        BY <1>1, <2>3, AllocOutOfFramesKeeps
  <2>4. CASE CopyPage(c)
        BY <1>1, <2>4, CopyPageKeeps
  <2>5. CASE CopyDone(c)
        BY <1>1, <2>5, CopyDoneKeeps
  <2>6. CASE CopyOutOfFrames(c)
        BY <1>1, <2>6, CopyOutOfFramesKeeps
  <2>7. ASSUME NEW s \in Spaces,
               \/ Create(c, s)
               \/ Destroy(c, s)
               \/ \E n \in Counts : AllocStart(c, s, n)
               \/ \E va \in Pages : MapOwned(c, s, va)
               \/ \E va \in Pages, x \in Foreign : MapUnowned(c, s, va, x)
               \/ \E d \in Spaces : CopyStart(c, s, d)
        PROVE  IInv'
    <3>1. CASE Create(c, s)
          BY <1>1, <3>1, CreateKeeps
    <3>2. CASE Destroy(c, s)
          BY <1>1, <3>2, DestroyKeeps
    <3>3. CASE \E n \in Counts : AllocStart(c, s, n)
          BY <1>1, <3>3, AllocStartKeeps
    <3>4. CASE \E va \in Pages : MapOwned(c, s, va)
          BY <1>1, <3>4, MapOwnedKeeps
    <3>5. CASE \E va \in Pages, x \in Foreign : MapUnowned(c, s, va, x)
          BY <1>1, <3>5, MapUnownedKeeps
    <3>6. CASE \E d \in Spaces : CopyStart(c, s, d)
          BY <1>1, <3>6, CopyStartKeeps
    <3>7. QED
          BY <2>7, <3>1, <3>2, <3>3, <3>4, <3>5, <3>6
  <2>8. QED
        BY <2>1, <2>2, <2>3, <2>4, <2>5, <2>6, <2>7
<1>4. QED
    BY <1>1, <1>2, <1>3

LEMMA InvariantHolds == Spec => []IInv
BY InitIInv, NextIInv, PTL DEF Spec

(* Frames are neither lost nor used twice, for any number of CPUs, spaces, *)
(* frames and pages: while nothing has panicked, a frame of pmm is free,   *)
(* in one page table, or mapped at one page of one space.                  *)
THEOREM FramesAreConserved == Spec => []FramesConserved
<1>1. IInv => FramesConserved
    BY ConservedMeans DEF IInv
<1>2. QED
    BY <1>1, InvariantHolds, PTL

(* Region, bitmap and page table agree in every space, and paging_map      *)
(* meets a page that is mapped only where a foreign frame was mapped.      *)
THEOREM SpacesStayConsistent == Spec => []SpacesConsistent
<1>1. IInv => SpacesConsistent
    BY DEF IInv, SpacesConsistent
<1>2. QED
    BY <1>1, InvariantHolds, PTL

-----------------------------------------------------------------------------
(* User memory                                                             *)

(* Pages and bytes.                                                        *)
LEMMA Quotient ==
    ASSUME NEW d \in Nat \ {0}, NEW x \in Nat
    PROVE  x \div d \in Nat /\ (x \div d) * d \in Nat /\ (x \div d) * d <= x /\ x < (x \div d) * d + d
  <1>1. x \div d \in Nat /\ (x \div d) * d <= x /\ x < (x \div d) * d + d
    OBVIOUS
  <1>2. PICK q \in Nat : q = x \div d
    BY <1>1
  <1>3. q * d \in Nat
    OBVIOUS
  <1>4. QED
    BY <1>1, <1>2, <1>3

LEMMA NextMultiple ==
    ASSUME NEW d \in Nat \ {0}, NEW p \in Nat, NEW q \in Nat, p < q
    PROVE  p * d \in Nat /\ q * d \in Nat /\ p * d + d <= q * d
  <1>1. PICK k \in Nat : q = p + 1 + k
    OBVIOUS
  <1>2. q * d = p * d + d + k * d /\ k * d \in Nat /\ p * d \in Nat /\ q * d \in Nat
    BY <1>1
  <1>3. QED
    BY <1>2

LEMMA QuotientIs ==
    ASSUME NEW d \in Nat \ {0}, NEW x \in Nat, NEW p \in Nat, p * d <= x, x < p * d + d
    PROVE  x \div d = p
  <1>1. PICK q \in Nat : q = x \div d
    BY Quotient
  <1>2. q * d <= x /\ x < q * d + d /\ p * d \in Nat /\ q * d \in Nat
    BY <1>1, Quotient
  <1>3. CASE p < q
    BY <1>2, <1>3, NextMultiple
  <1>4. CASE q < p
    BY <1>2, <1>4, NextMultiple
  <1>5. QED
    BY <1>1, <1>3, <1>4

LEMMA UserConstants ==
    /\ UPage \in Nat \ {0} /\ TableSpan \in Nat \ {0} /\ UserBase \in Nat /\ UserEnd \in Nat
    /\ UsizeMod \in Nat /\ VaMod \in Nat /\ UserEnd <= VaMod /\ VaMod < UsizeMod
    /\ UserBase < UserEnd /\ UserEnd < UsizeMod /\ CopySizes \subseteq 0 .. UsizeMod - 1
    /\ UserBase = (UserBase \div UPage) * UPage /\ UserEnd = (UserEnd \div UPage) * UPage
  <1>1. /\ UPage \in Nat \ {0} /\ TableSpan \in Nat \ {0} /\ UserBase \in Nat /\ UserEnd \in Nat
        /\ UsizeMod \in Nat /\ VaMod \in Nat /\ UserEnd <= VaMod /\ VaMod < UsizeMod
        /\ UserBase < UserEnd /\ UserEnd < UsizeMod /\ CopySizes \subseteq 0 .. UsizeMod - 1
        /\ UserBase % UPage = 0 /\ UserEnd % UPage = 0
    BY UserMemoryAssumption
  <1>2. ASSUME NEW x \in Nat, x % UPage = 0 PROVE x = (x \div UPage) * UPage
    BY <1>1, <1>2
  <1>3. QED
    BY <1>1, <1>2

\* The first and the last page with a byte of n bytes from a on.
LEMMA PagesOfRange ==
    ASSUME NEW a \in Nat, NEW p \in Nat
    PROVE  /\ PageOf(a) = p <=> p * UPage <= a /\ a < p * UPage + UPage
           /\ PageOf(a) \in Nat /\ p * UPage \in Nat
  <1>1. UPage \in Nat \ {0}
    BY UserConstants
  <1>2. PageOf(a) \in Nat /\ PageOf(a) * UPage <= a /\ a < PageOf(a) * UPage + UPage
    BY <1>1, Quotient DEF PageOf
  <1>3. p * UPage <= a /\ a < p * UPage + UPage => PageOf(a) = p
    BY <1>1, QuotientIs DEF PageOf
  <1>4. p * UPage \in Nat
    BY <1>1
  <1>5. QED
    BY <1>2, <1>3, <1>4

LEMMA SamePage ==
    ASSUME NEW a \in Nat, NEW b \in Nat, NEW c \in Nat, a <= b, b <= c, PageOf(a) = PageOf(c)
    PROVE  PageOf(b) = PageOf(a)
  <1>1. PICK p \in Nat : p = PageOf(a)
    BY PagesOfRange
  <1>2. p * UPage <= a /\ c < p * UPage + UPage /\ p * UPage \in Nat
    BY <1>1, PagesOfRange
  <1>3. p * UPage <= b /\ b < p * UPage + UPage
    BY <1>2, UserConstants
  <1>4. QED
    BY <1>1, <1>3, PagesOfRange

-----------------------------------------------------------------------------
(* What the loader has done.                                               *)

LoadStates == {"header", "pages", "stack", "ready", "failed", "panic", "wild"}
UserPage == [perm: {"ro", "rw"}, exec: BOOLEAN, bytes: [0 .. UPage - 1 -> Int]]

\* A page that is mapped is in the user range, and its table exists.
PageOK(p) ==
    /\ p \in Nat /\ UserBase <= p * UPage /\ p * UPage + UPage <= UserEnd
    /\ p \div TableSpan \in utables
    /\ image[p] \in UserPage

UserType ==
    /\ file \in Files /\ load \in LoadStates /\ seg \in Nat \ {0} /\ at \in Nat
    /\ \A p \in DOMAIN image : PageOK(p)

\* Page p has bytes of segment g.
Covers(g, p) == p \in Nat /\ g.vaddr \div UPage <= p /\ p < (g.vaddr + g.memsz + UPage - 1) \div UPage

\* What the byte at address a of a page of g is.
ByteOf(g, a) == IF g.vaddr <= a /\ a < g.vaddr + g.filesz THEN g.off + a - g.vaddr ELSE Zero

\* Page p is as segment g has it.
HoldsSegment(g, p) ==
    /\ p \in DOMAIN image
    /\ image[p].perm = PermOf(g) /\ image[p].exec = g.x
    /\ \A b \in 0 .. UPage - 1 : image[p].bytes[b] = ByteOf(g, p * UPage + b)

ToLoad(i) == i \in 1 .. Len(file.segs) /\ file.segs[i].load /\ file.segs[i].memsz # 0

\* The pages of segment i that are loaded by now.
LoadedPage(i, p) ==
    /\ ToLoad(i) /\ Covers(file.segs[i], p)
    /\ i < seg \/ (load = "pages" /\ i = seg /\ p * UPage < at)

Loading ==
    load \in {"header", "pages", "stack"} =>
        /\ \A i \in 1 .. Len(file.segs) :
              ToLoad(i) /\ (i < seg \/ (load = "pages" /\ i = seg)) => verify_program_header(file.segs[i])
        /\ \A i \in 1 .. Len(file.segs), p \in Nat : LoadedPage(i, p) => HoldsSegment(file.segs[i], p)
        /\ \A p \in DOMAIN image : \E i \in 1 .. Len(file.segs) : LoadedPage(i, p)

InSegment ==
    load = "pages" =>
        /\ ToLoad(seg)
        /\ \E q \in Nat : at = q * UPage /\ Ph.vaddr \div UPage <= q
                          /\ q <= (Ph.vaddr + Ph.memsz + UPage - 1) \div UPage

AllSegments == load = "stack" => seg > Len(file.segs)

CopyAfterLoad == load \notin {"ready", "panic"} => copy = NoCopy

UserInv ==
    /\ UserType /\ Loading /\ InSegment /\ AllSegments /\ CopyAfterLoad
    /\ ImageExact /\ WildOnlyInBss /\ CopiesChecked

-----------------------------------------------------------------------------
(* Segments.                                                               *)
LEMMA HeaderType ==
    ASSUME file \in Files, NEW i \in 1 .. Len(file.segs)
    PROVE  /\ file.segs[i] \in ProgramHeaders
           /\ file.segs[i].off \in Nat /\ file.segs[i].filesz \in Nat
           /\ file.segs[i].memsz \in Nat /\ file.segs[i].vaddr \in Nat
           /\ file.segs[i].load \in BOOLEAN /\ file.segs[i].w \in BOOLEAN /\ file.segs[i].x \in BOOLEAN
  <1>1. file.segs \in Seq(ProgramHeaders)
    BY UserMemoryAssumption
  <1>2. file.segs[i] \in ProgramHeaders
    BY <1>1, ElementOfSeq
  <1>3. QED
    BY <1>2 DEF ProgramHeaders

LEMMA FileType == ASSUME file \in Files PROVE file.size \in Nat /\ Len(file.segs) \in Nat /\ file.segs \in Seq(ProgramHeaders)
  <1>1. file.size \in Nat /\ file.segs \in Seq(ProgramHeaders)
    BY UserMemoryAssumption
  <1>2. QED
    BY <1>1

\* The pages from MapStart to MapEnd are those with a byte of the segment.
LEMMA SegmentPages ==
    ASSUME NEW v \in Nat, NEW m \in Nat, v + m <= UserEnd
    PROVE  LET first == v \div UPage
               last == (v + m + UPage - 1) \div UPage
           IN  /\ first \in Nat /\ last \in Nat /\ first * UPage \in Nat /\ last * UPage \in Nat
               /\ first * UPage <= v /\ v < first * UPage + UPage
               /\ last * UPage <= UserEnd /\ last * UPage < v + m + UPage
               /\ m # 0 => first < last
               /\ \A a \in v .. v + m - 1 : first <= PageOf(a) /\ PageOf(a) < last
  <1>u. UPage \in Nat \ {0} /\ UserEnd \in Nat
    BY UserConstants
  <1>1. PICK f \in Nat : f = v \div UPage
    BY <1>u, Quotient
  <1>2. f * UPage \in Nat /\ f * UPage <= v /\ v < f * UPage + UPage
    BY <1>1, <1>u, Quotient
  <1>3. PICK x \in Nat : x = v + m + UPage - 1
    BY <1>u
  <1>4. PICK l \in Nat : l = x \div UPage
    BY <1>u, Quotient
  <1>5. l * UPage \in Nat /\ l * UPage <= x /\ x < l * UPage + UPage
    BY <1>4, <1>u, Quotient
  <1>6. l * UPage <= UserEnd
    <2>1. PICK e \in Nat : UserEnd = e * UPage
      BY <1>u, UserConstants, Quotient
    <2>2. CASE l <= e
      <3>1. l = e \/ l < e
        BY <2>2
      <3>2. l < e => l * UPage + UPage <= e * UPage
        BY <1>u, NextMultiple
      <3>3. QED
        BY <1>5, <1>u, <2>1, <3>1, <3>2
    <2>3. CASE e < l
      <3>1. e * UPage + UPage <= l * UPage
        BY <1>u, <2>3, NextMultiple
      <3>2. x < UserEnd + UPage
        BY <1>3, <1>u
      <3>3. QED
        BY <1>5, <1>u, <2>1, <3>1, <3>2
    <2>4. QED
      BY <2>2, <2>3
  <1>7. l * UPage < v + m + UPage
    BY <1>3, <1>5, <1>u
  <1>8. ASSUME NEW a \in v .. v + m - 1 PROVE f <= PageOf(a) /\ PageOf(a) < l
    <2>1. a \in Nat
      OBVIOUS
    <2>2. PICK p \in Nat : p = PageOf(a)
      BY <2>1, PagesOfRange
    <2>3. p * UPage \in Nat /\ p * UPage <= a /\ a < p * UPage + UPage
      BY <2>1, <2>2, PagesOfRange
    <2>4. CASE p < f
      <3>1. p * UPage + UPage <= f * UPage
        BY <1>u, <2>4, NextMultiple
      <3>2. QED
        BY <1>2, <1>u, <2>3, <3>1
    <2>5. CASE l <= p
      <3>1. l = p \/ l * UPage + UPage <= p * UPage
        BY <1>u, <2>5, NextMultiple
      <3>2. l * UPage <= p * UPage
        BY <1>5, <1>u, <2>3, <3>1
      <3>3. x < p * UPage + UPage
        BY <1>5, <1>u, <2>3, <3>2
      <3>4. v + m - 1 >= a /\ x = v + m + UPage - 1
        BY <1>3
      <3>5. QED
        BY <1>3, <1>u, <2>3, <3>3, <3>4
    <2>6. QED
      BY <2>2, <2>4, <2>5
  <1>9. m # 0 => f < l
    <2>1. SUFFICES ASSUME m # 0 PROVE f < l
      OBVIOUS
    <2>2. v \in v .. v + m - 1
      BY <2>1
    <2>3. PageOf(v) = f
      BY <1>1 DEF PageOf
    <2>4. QED
      BY <1>8, <2>2, <2>3
  <1>10. QED
    BY <1>1, <1>2, <1>3, <1>4, <1>5, <1>6, <1>7, <1>8, <1>9

LEMMA CoveredRange ==
    ASSUME file \in Files, NEW g \in ProgramHeaders, verify_program_header(g), NEW p \in Nat, Covers(g, p)
    PROVE  /\ p * UPage \in Nat /\ g.vaddr < p * UPage + UPage /\ p * UPage + UPage <= UserEnd
           /\ p * UPage + UPage <= MapEnd(g)
  <1>u. UPage \in Nat \ {0} /\ UserEnd \in Nat
    BY UserConstants
  <1>g. g.vaddr \in Nat /\ g.memsz \in Nat /\ g.vaddr + g.memsz <= UserEnd
    BY <1>u DEF ProgramHeaders, verify_program_header
  <1>1. PICK f \in Nat, l \in Nat : f = g.vaddr \div UPage /\ l = (g.vaddr + g.memsz + UPage - 1) \div UPage
    BY <1>g, SegmentPages
  <1>2. f * UPage \in Nat /\ l * UPage \in Nat /\ g.vaddr < f * UPage + UPage /\ l * UPage <= UserEnd
    BY <1>1, <1>g, SegmentPages
  <1>3. f <= p /\ p < l
    BY <1>1 DEF Covers
  <1>4. p * UPage \in Nat /\ p * UPage + UPage <= l * UPage
    BY <1>3, <1>u, NextMultiple
  <1>5. f = p \/ f * UPage + UPage <= p * UPage
    BY <1>3, <1>u, NextMultiple
  <1>6. f * UPage <= p * UPage
    BY <1>2, <1>4, <1>5, <1>u
  <1>7. g.vaddr < p * UPage + UPage
    BY <1>2, <1>4, <1>6, <1>g, <1>u
  <1>8. MapEnd(g) = l * UPage
    BY <1>1 DEF MapEnd
  <1>9. QED
    BY <1>2, <1>4, <1>7, <1>8, <1>u

\* copy_end wraps for a page behind what the file fills, and only there.
LEMMA CopyEnd ==
    ASSUME NEW v \in Nat, NEW f \in Nat, NEW va \in Nat, NEW u \in Nat \ {0}, NEW M \in Nat, va + u < M, v + f < M
    PROVE  LET end == IF va + u > v + f THEN (v + f - va) % M ELSE u
           IN  /\ end \in Int
               /\ end > u <=> va > v + f
               /\ va <= v + f => \A b \in 0 .. u - 1 : b < end <=> va + b < v + f
  <1>1. CASE va <= v + f
    <2>1. (v + f - va) % M = v + f - va
      BY <1>1
    <2>2. QED
      BY <1>1, <2>1
  <1>2. CASE va > v + f
    <2>1. PICK x \in Int : x = v + f - va
      OBVIOUS
    <2>2. x < 0 /\ x + M > u
      BY <1>2, <2>1
    <2>3. x % M = M + x
      BY <2>2
    <2>4. (v + f - va) % M = M + x /\ va + u > v + f
      BY <1>2, <2>1, <2>3
    <2>5. QED
      BY <1>2, <2>2, <2>4
  <1>3. QED
    BY <1>1, <1>2

LEMMA PageAsSegment ==
    ASSUME file \in Files, NEW g \in ProgramHeaders, verify_program_header(g), NEW p \in Nat, Covers(g, p)
    PROVE  /\ FillEnd(g, p * UPage) > UPage <=> p * UPage > g.vaddr + g.filesz
           /\ FilledPage(g, p * UPage) \in [0 .. UPage - 1 -> Int]
           /\ p * UPage <= g.vaddr + g.filesz =>
                \A b \in 0 .. UPage - 1 : FilledPage(g, p * UPage)[b] = ByteOf(g, p * UPage + b)
  <1>u. UPage \in Nat \ {0} /\ UserEnd \in Nat /\ UsizeMod \in Nat /\ UserEnd < UsizeMod
    BY UserConstants
  <1>g. /\ g.vaddr \in Nat /\ g.filesz \in Nat /\ g.off \in Nat /\ g.memsz \in Nat
        /\ g.vaddr + g.filesz <= UserEnd
    BY <1>u DEF ProgramHeaders, verify_program_header
  <1>1. PICK va \in Nat : va = p * UPage
    BY CoveredRange
  <1>2. g.vaddr < va + UPage /\ va + UPage <= UserEnd
    BY <1>1, CoveredRange
  <1>3. /\ FillEnd(g, va) \in Int
        /\ FillEnd(g, va) > UPage <=> va > g.vaddr + g.filesz
        /\ va <= g.vaddr + g.filesz => \A b \in 0 .. UPage - 1 : b < FillEnd(g, va) <=> va + b < g.vaddr + g.filesz
    BY <1>2, <1>g, <1>u, CopyEnd DEF FillEnd
  <1>4. /\ FillStart(g, va) \in Nat
        /\ \A b \in 0 .. UPage - 1 : FillStart(g, va) <= b <=> g.vaddr <= va + b
    BY <1>g, <1>u DEF FillStart
  <1>5. ASSUME NEW b \in 0 .. UPage - 1 PROVE FileOffset(g, va) + b - FillStart(g, va) = g.off + (va + b) - g.vaddr
    BY <1>4, <1>g, <1>u DEF FileOffset
  <1>6. FilledPage(g, va) = [b \in 0 .. UPage - 1 |->
           IF FillStart(g, va) <= b /\ b < FillEnd(g, va) THEN g.off + (va + b) - g.vaddr ELSE Zero]
    BY <1>5 DEF FilledPage
  <1>7. FilledPage(g, va) \in [0 .. UPage - 1 -> Int]
    BY <1>6, <1>g, <1>u DEF Zero
  <1>8. ASSUME va <= g.vaddr + g.filesz, NEW b \in 0 .. UPage - 1 PROVE FilledPage(g, va)[b] = ByteOf(g, va + b)
    BY <1>3, <1>4, <1>6, <1>8 DEF ByteOf
  <1>9. QED
    BY <1>1, <1>3, <1>7, <1>8

-----------------------------------------------------------------------------
(* The steps of the loader.                                                *)
LEMMA UserMemoryStart == ASSUME UserMemoryInit PROVE UserInv
  <1>1. DOMAIN image = {}
    BY DEF UserMemoryInit
  <1>2. UserType
    BY <1>1 DEF UserMemoryInit, UserType, LoadStates
  <1>3. Loading
    BY <1>1, <1>2, FileType DEF UserMemoryInit, Loading, LoadedPage, ToLoad
  <1>4. InSegment /\ AllSegments /\ CopyAfterLoad /\ ImageExact /\ WildOnlyInBss /\ CopiesChecked
    BY DEF UserMemoryInit, InSegment, AllSegments, CopyAfterLoad, ImageExact, WildOnlyInBss, CopiesChecked
  <1>5. QED
    BY <1>2, <1>3, <1>4 DEF UserInv

LEMMA Abandons ==
    ASSUME UserInv, Abandon, load \notin {"ready", "panic"}, UNCHANGED <<file, copies, copy>>
    PROVE  UserInv'
  <1>1. DOMAIN image' = {} /\ load' = "failed"
    BY DEF Abandon
  <1>2. UserType'
    BY <1>1 DEF UserInv, UserType, LoadStates, Abandon
  <1>3. copy' = NoCopy
    BY DEF UserInv, CopyAfterLoad
  <1>4. Loading' /\ InSegment' /\ AllSegments' /\ CopyAfterLoad' /\ ImageExact' /\ WildOnlyInBss' /\ CopiesChecked'
    BY <1>1, <1>3 DEF Loading, InSegment, AllSegments, CopyAfterLoad, ImageExact, WildOnlyInBss, CopiesChecked
  <1>5. QED
    BY <1>2, <1>4 DEF UserInv

\* The kernel stops, with the memory as it is.
LEMMA Panics ==
    ASSUME UserInv, load' = "panic", load \notin {"ready", "panic"},
           UNCHANGED <<file, seg, at, image, utables, uframes, copies, copy>>
    PROVE  UserInv'
  <1>2. UserType'
    BY DEF UserInv, UserType, LoadStates, PageOK
  <1>3. copy' = NoCopy
    BY DEF UserInv, CopyAfterLoad
  <1>4. Loading' /\ InSegment' /\ AllSegments' /\ CopyAfterLoad' /\ ImageExact' /\ WildOnlyInBss' /\ CopiesChecked'
    BY <1>3 DEF Loading, InSegment, AllSegments, CopyAfterLoad, ImageExact, WildOnlyInBss, CopiesChecked
  <1>5. QED
    BY <1>2, <1>4 DEF UserInv

\* The image is the same, and so are the pages that are accounted for.
LEMMA LoadingKept ==
    ASSUME Loading, load \in {"header", "pages"}, load' \in {"header", "pages", "stack"}, UNCHANGED <<file, image>>,
           \A i \in 1 .. Len(file.segs), p \in Nat : LoadedPage(i, p)' <=> LoadedPage(i, p),
           \A i \in 1 .. Len(file.segs) :
              ToLoad(i) /\ (i < seg' \/ (load' = "pages" /\ i = seg')) => verify_program_header(file.segs[i]),
           \A p \in DOMAIN image : p \in Nat
    PROVE  Loading'
  <1>1. ASSUME NEW i \in 1 .. Len(file.segs) PROVE ToLoad(i)' <=> ToLoad(i)
    BY DEF ToLoad
  <1>2. ASSUME NEW i \in 1 .. Len(file.segs) PROVE verify_program_header(file.segs[i])' <=> verify_program_header(file.segs[i])
    BY DEF verify_program_header
  <1>3. ASSUME NEW i \in 1 .. Len(file.segs), NEW p \in Nat
        PROVE  HoldsSegment(file.segs[i], p)' <=> HoldsSegment(file.segs[i], p)
    BY DEF HoldsSegment, PermOf, ByteOf
  <1>4. \A i \in 1 .. Len(file.segs), p \in Nat : LoadedPage(i, p) => HoldsSegment(file.segs[i], p)
    BY DEF Loading
  <1>5. \A p \in DOMAIN image : \E i \in 1 .. Len(file.segs) : LoadedPage(i, p)
    BY DEF Loading
  <1>6. \A i \in 1 .. Len(file.segs), p \in Nat : LoadedPage(i, p)' => HoldsSegment(file.segs[i], p)'
    BY <1>3, <1>4
  <1>7. \A p \in DOMAIN image' : \E i \in 1 .. Len(file.segs) : LoadedPage(i, p)'
    BY <1>5
  <1>8. \A i \in 1 .. Len(file.segs) :
           ToLoad(i)' /\ (i < seg' \/ (load' = "pages" /\ i = seg')) => verify_program_header(file.segs[i])'
    BY <1>1, <1>2
  <1>9. file' = file
    OBVIOUS
  <1>10. QED
    BY <1>6, <1>7, <1>8, <1>9 DEF Loading

\* What the steps of the loader other than to ready and wild need of the rest.
LEMMA RestKept ==
    ASSUME UserInv, load \in {"header", "pages", "stack"}, load' \in {"header", "pages", "stack"}, copy' = copy
    PROVE  CopyAfterLoad' /\ ImageExact' /\ WildOnlyInBss' /\ CopiesChecked'
  <1>1. copy' = NoCopy
    BY DEF UserInv, CopyAfterLoad
  <1>2. QED
    BY <1>1 DEF CopyAfterLoad, ImageExact, WildOnlyInBss, CopiesChecked

LEMMA HeaderStep == ASSUME UserInv, elf_load PROVE UserInv'
  <1>t. /\ UserType /\ Loading /\ load = "header" /\ UNCHANGED <<file, copies, copy>>
        /\ file \in Files /\ seg \in Nat \ {0} /\ at \in Nat /\ Len(file.segs) \in Nat
        /\ \A p \in DOMAIN image : p \in Nat
    BY FileType DEF UserInv, UserType, PageOK, elf_load
  <1>v. \A i \in 1 .. Len(file.segs) : ToLoad(i) /\ i < seg => verify_program_header(file.segs[i])
    BY <1>t DEF Loading
  <1>1. CASE ~elf_verify_header \/ (seg <= Len(file.segs) /\ Ph.load /\ ~verify_program_header(Ph))
    BY <1>1, <1>t, Abandons DEF elf_load
  <1>2. CASE ~(~elf_verify_header \/ (seg <= Len(file.segs) /\ Ph.load /\ ~verify_program_header(Ph)))
    <2>1. UNCHANGED <<image, utables, uframes>>
      BY <1>2 DEF elf_load
    <2>2. CASE seg > Len(file.segs)
      <3>1. load' = "stack" /\ seg' = seg /\ at' = at
        BY <1>2, <2>2 DEF elf_load
      <3>2. UserType'
        BY <1>t, <2>1, <3>1 DEF UserType, LoadStates, PageOK
      <3>3. ASSUME NEW i \in 1 .. Len(file.segs), NEW p \in Nat PROVE LoadedPage(i, p)' <=> LoadedPage(i, p)
        BY <1>t, <3>1 DEF LoadedPage, ToLoad, Covers
      <3>4. Loading'
        BY <1>t, <1>v, <2>1, <3>1, <3>3, LoadingKept
      <3>5. InSegment' /\ AllSegments'
        BY <1>t, <2>2, <3>1 DEF InSegment, AllSegments
      <3>6. QED
        BY <1>t, <3>1, <3>2, <3>4, <3>5, RestKept DEF UserInv
    <2>3. CASE seg <= Len(file.segs) /\ Ph.load /\ Ph.memsz # 0
      <3>1. load' = "pages" /\ seg' = seg /\ at' = MapStart(Ph)
        BY <1>2, <1>t, <2>3 DEF elf_load
      <3>2. seg \in 1 .. Len(file.segs) /\ ToLoad(seg) /\ Ph \in ProgramHeaders
        BY <1>t, <2>3, HeaderType DEF ToLoad, Ph
      <3>3. verify_program_header(Ph)
        BY <1>2, <2>3
      <3>4. /\ Ph.vaddr \in Nat /\ Ph.memsz \in Nat /\ Ph.vaddr + Ph.memsz <= UserEnd
            /\ UPage \in Nat \ {0}
        BY <3>2, <3>3, UserConstants DEF ProgramHeaders, verify_program_header
      <3>5. PICK f \in Nat, l \in Nat : f = Ph.vaddr \div UPage /\ l = (Ph.vaddr + Ph.memsz + UPage - 1) \div UPage
        BY <3>4, SegmentPages
      <3>6. f * UPage \in Nat /\ f < l
        BY <2>3, <3>4, <3>5, SegmentPages
      <3>7. at' = f * UPage
        BY <3>1, <3>5 DEF MapStart
      <3>8. UserType'
        BY <1>t, <2>1, <3>1, <3>6, <3>7 DEF UserType, LoadStates, PageOK
      <3>9. ASSUME NEW p \in Nat, Covers(Ph, p) PROVE ~(p * UPage < at')
        <4>1. f <= p
          BY <3>5, <3>9 DEF Covers
        <4>2. f = p \/ f * UPage + UPage <= p * UPage
          BY <3>4, <4>1, NextMultiple
        <4>3. p * UPage \in Nat
          BY <3>4
        <4>4. QED
          BY <3>4, <3>6, <3>7, <4>2, <4>3
      <3>10. ASSUME NEW i \in 1 .. Len(file.segs), NEW p \in Nat PROVE LoadedPage(i, p)' <=> LoadedPage(i, p)
        BY <1>t, <3>1, <3>9 DEF LoadedPage, ToLoad, Covers, Ph
      <3>11. Loading'
        BY <1>t, <1>v, <2>1, <3>1, <3>3, <3>10, LoadingKept DEF Ph
      <3>12. InSegment' /\ AllSegments'
        <4>1. Ph' = Ph /\ ToLoad(seg)'
          BY <1>t, <3>1, <3>2 DEF Ph, ToLoad
        <4>2. f <= l
          BY <3>6
        <4>3. QED
          BY <3>1, <3>5, <3>7, <4>1, <4>2 DEF InSegment, AllSegments
      <3>13. QED
        BY <1>t, <3>1, <3>8, <3>11, <3>12, RestKept DEF UserInv
    <2>4. CASE seg <= Len(file.segs) /\ ~(Ph.load /\ Ph.memsz # 0)
      <3>1. load' = load /\ seg' = seg + 1 /\ at' = at
        BY <1>2, <1>t, <2>4 DEF elf_load
      <3>2. ~ToLoad(seg)
        BY <2>4 DEF ToLoad, Ph
      <3>3. UserType'
        BY <1>t, <2>1, <3>1 DEF UserType, LoadStates, PageOK
      <3>4. ASSUME NEW i \in 1 .. Len(file.segs), NEW p \in Nat PROVE LoadedPage(i, p)' <=> LoadedPage(i, p)
        <4>1. ToLoad(i)' <=> ToLoad(i)
          BY <1>t DEF ToLoad
        <4>2. Covers(file.segs[i], p)' <=> Covers(file.segs[i], p)
          BY <1>t DEF Covers
        <4>3. ToLoad(i) => (i < seg + 1 <=> i < seg)
          BY <1>t, <3>2
        <4>4. QED
          BY <1>t, <3>1, <4>1, <4>2, <4>3 DEF LoadedPage
      <3>5. \A i \in 1 .. Len(file.segs) : ToLoad(i) /\ i < seg + 1 => verify_program_header(file.segs[i])
        BY <1>t, <1>v, <3>2
      <3>6. Loading'
        BY <1>t, <2>1, <3>1, <3>4, <3>5, LoadingKept
      <3>7. InSegment' /\ AllSegments'
        BY <1>t, <3>1 DEF InSegment, AllSegments
      <3>8. QED
        BY <1>t, <3>1, <3>3, <3>6, <3>7, RestKept DEF UserInv
    <2>5. QED
      BY <1>t, <2>2, <2>3, <2>4
  <1>3. QED
    BY <1>1, <1>2

\* Where the loader is in a segment.
LEMMA SegmentState ==
    ASSUME UserInv, load = "pages"
    PROVE  \E q \in Nat, l \in Nat :
              /\ at = q * UPage /\ MapEnd(Ph) = l * UPage /\ l * UPage \in Nat /\ q <= l
              /\ (Ph.vaddr + Ph.memsz + UPage - 1) \div UPage = l /\ Ph.vaddr \div UPage <= q
              /\ at < MapEnd(Ph) <=> q < l
              /\ seg \in 1 .. Len(file.segs) /\ ToLoad(seg) /\ Ph \in ProgramHeaders
              /\ verify_program_header(Ph) /\ Ph \in Loaded
  <1>u. UPage \in Nat \ {0}
    BY UserConstants
  <1>t. file \in Files /\ seg \in Nat \ {0} /\ at \in Nat /\ ToLoad(seg)
    BY DEF UserInv, UserType, InSegment
  <1>1. seg \in 1 .. Len(file.segs) /\ Ph \in ProgramHeaders
    BY <1>t, HeaderType DEF ToLoad, Ph
  <1>2. verify_program_header(Ph)
    BY <1>1, <1>t DEF UserInv, Loading, Ph
  <1>3. PICK q \in Nat : /\ at = q * UPage /\ Ph.vaddr \div UPage <= q
                         /\ q <= (Ph.vaddr + Ph.memsz + UPage - 1) \div UPage
    BY DEF UserInv, InSegment
  <1>4. Ph.vaddr \in Nat /\ Ph.memsz \in Nat /\ Ph.vaddr + Ph.memsz <= UserEnd
    BY <1>1, <1>2, UserConstants DEF ProgramHeaders, verify_program_header
  <1>5. PICK l \in Nat : l = (Ph.vaddr + Ph.memsz + UPage - 1) \div UPage
    BY <1>4, SegmentPages
  <1>6. l * UPage \in Nat /\ MapEnd(Ph) = l * UPage
    BY <1>4, <1>5, SegmentPages DEF MapEnd
  <1>7. q < l => q * UPage + UPage <= l * UPage
    BY <1>u, NextMultiple
  <1>8. q <= l
    BY <1>3, <1>5
  <1>9. at < MapEnd(Ph) <=> q < l
    BY <1>3, <1>6, <1>7, <1>8, <1>t, <1>u
  <1>10. Ph \in Loaded
    BY <1>1, <1>4, <1>t DEF Loaded, ToLoad, Ph
  <1>11. QED
    BY <1>1, <1>2, <1>3, <1>5, <1>6, <1>8, <1>9, <1>10, <1>t

LEMMA SegmentEnds == ASSUME UserInv, SegmentDone PROVE UserInv'
  <1>u. UPage \in Nat \ {0}
    BY UserConstants
  <1>t. /\ UserType /\ Loading /\ load = "pages" /\ load' = "header" /\ seg' = seg + 1 /\ ~(at < MapEnd(Ph))
        /\ UNCHANGED <<file, at, image, utables, uframes, copies, copy>>
        /\ file \in Files /\ seg \in Nat \ {0} /\ at \in Nat /\ Len(file.segs) \in Nat
        /\ \A p \in DOMAIN image : p \in Nat
    <2>1. MapEnd(Ph) \in Nat /\ at \in Nat
      BY SegmentState DEF UserInv, UserType, SegmentDone
    <2>2. QED
      BY <2>1, FileType DEF UserInv, UserType, PageOK, SegmentDone
  <1>1. PICK q \in Nat, l \in Nat :
              /\ at = q * UPage /\ q <= l /\ (Ph.vaddr + Ph.memsz + UPage - 1) \div UPage = l
              /\ at < MapEnd(Ph) <=> q < l
              /\ seg \in 1 .. Len(file.segs) /\ ToLoad(seg) /\ verify_program_header(Ph)
    BY <1>t, SegmentState
  <1>2. q = l
    BY <1>1, <1>t
  <1>3. ASSUME NEW p \in Nat, Covers(Ph, p) PROVE p * UPage < at
    <2>1. p < q
      BY <1>1, <1>2, <1>3 DEF Covers
    <2>2. p * UPage \in Nat /\ p * UPage + UPage <= q * UPage
      BY <1>u, <2>1, NextMultiple
    <2>3. QED
      BY <1>1, <1>t, <1>u, <2>2
  <1>4. UserType'
    BY <1>t DEF UserType, LoadStates, PageOK
  <1>5. ASSUME NEW i \in 1 .. Len(file.segs), NEW p \in Nat PROVE LoadedPage(i, p)' <=> LoadedPage(i, p)
    <2>1. ToLoad(i)' <=> ToLoad(i)
      BY <1>t DEF ToLoad
    <2>2. Covers(file.segs[i], p)' <=> Covers(file.segs[i], p)
      BY <1>t DEF Covers
    <2>3. i < seg + 1 <=> i < seg \/ i = seg
      BY <1>t
    <2>4. i = seg /\ Covers(file.segs[i], p) => p * UPage < at
      BY <1>3 DEF Ph
    <2>5. QED
      BY <1>t, <2>1, <2>2, <2>3, <2>4 DEF LoadedPage
  <1>6. \A i \in 1 .. Len(file.segs) : ToLoad(i) /\ i < seg + 1 => verify_program_header(file.segs[i])
    <2>1. \A i \in 1 .. Len(file.segs) : ToLoad(i) /\ (i < seg \/ i = seg) => verify_program_header(file.segs[i])
      BY <1>t DEF Loading
    <2>2. QED
      BY <1>t, <2>1
  <1>7. Loading'
    BY <1>t, <1>5, <1>6, LoadingKept
  <1>8. InSegment' /\ AllSegments'
    BY <1>t DEF InSegment, AllSegments
  <1>9. QED
    BY <1>t, <1>4, <1>7, <1>8, RestKept DEF UserInv

\* A page that is mapped where nothing is, in the user range.
LEMMA MapsPage ==
    ASSUME UserType, NEW p \in Nat, p \notin DOMAIN image, UserBase <= p * UPage, p * UPage + UPage <= UserEnd,
           NEW perm \in {"ro", "rw"}, NEW exec \in BOOLEAN, NEW bytes \in [0 .. UPage - 1 -> Int],
           MapUserPage(p, perm, exec, bytes)
    PROVE  /\ DOMAIN image' = DOMAIN image \cup {p}
           /\ \A r \in DOMAIN image : r # p /\ image'[r] = image[r]
           /\ image'[p].perm = perm /\ image'[p].exec = exec /\ image'[p].bytes = bytes
           /\ \A r \in DOMAIN image' : PageOK(r)'
  <1>1. /\ image' = [q \in DOMAIN image \cup {p} |->
                    IF q = p THEN [perm |-> perm, exec |-> exec, bytes |-> bytes] ELSE image[q]]
        /\ utables' = utables \cup {p \div TableSpan}
    BY DEF MapUserPage
  <1>2. /\ DOMAIN image' = DOMAIN image \cup {p}
        /\ \A r \in DOMAIN image : r # p /\ image'[r] = image[r]
    BY <1>1
  <1>3. image'[p] = [perm |-> perm, exec |-> exec, bytes |-> bytes]
    BY <1>1
  <1>4. image'[p] \in UserPage
    BY <1>3 DEF UserPage
  <1>5. PageOK(p)'
    BY <1>1, <1>4 DEF PageOK
  <1>6. ASSUME NEW r \in DOMAIN image PROVE PageOK(r)'
    BY <1>1, <1>2 DEF UserType, PageOK
  <1>7. QED
    BY <1>2, <1>3, <1>5, <1>6

LEMMA PageStep == ASSUME UserInv, map_section_from_header PROVE UserInv'
  <1>u. UPage \in Nat \ {0} /\ UserEnd \in Nat /\ UserBase \in Nat
    BY UserConstants
  <1>t. /\ UserType /\ Loading /\ load = "pages" /\ at < MapEnd(Ph) /\ UNCHANGED <<file, copies, copy>>
        /\ file \in Files /\ seg \in Nat \ {0} /\ at \in Nat /\ Len(file.segs) \in Nat
        /\ \A r \in DOMAIN image : r \in Nat
    BY FileType DEF UserInv, UserType, PageOK, map_section_from_header
  <1>1. PICK p \in Nat, l \in Nat :
              /\ at = p * UPage /\ MapEnd(Ph) = l * UPage /\ l * UPage \in Nat /\ p <= l
              /\ (Ph.vaddr + Ph.memsz + UPage - 1) \div UPage = l /\ Ph.vaddr \div UPage <= p
              /\ at < MapEnd(Ph) <=> p < l
              /\ seg \in 1 .. Len(file.segs) /\ ToLoad(seg) /\ Ph \in ProgramHeaders
              /\ verify_program_header(Ph) /\ Ph \in Loaded
    BY <1>t, SegmentState
  <1>2. at \div UPage = p
    BY <1>1, <1>t, <1>u, QuotientIs
  <1>3. Covers(Ph, p) /\ p < l
    BY <1>1, <1>t DEF Covers
  <1>4. at + UPage <= UserEnd /\ at + UPage <= MapEnd(Ph)
    BY <1>1, <1>3, <1>t, CoveredRange
  <1>5. /\ FillEnd(Ph, at) > UPage <=> at > Ph.vaddr + Ph.filesz
        /\ FilledPage(Ph, at) \in [0 .. UPage - 1 -> Int]
        /\ at <= Ph.vaddr + Ph.filesz => \A b \in 0 .. UPage - 1 : FilledPage(Ph, at)[b] = ByteOf(Ph, at + b)
    BY <1>1, <1>3, <1>t, PageAsSegment
  <1>g. Ph.vaddr \in Nat /\ Ph.filesz \in Nat /\ Ph.w \in BOOLEAN /\ Ph.x \in BOOLEAN
    BY <1>1 DEF ProgramHeaders
  <1>6. CASE Abandon
    BY <1>6, <1>t, Abandons
  <1>7. CASE load' = "panic" /\ UNCHANGED <<seg, at, image, utables, uframes>>
    BY <1>7, <1>t, Panics
  <1>8. CASE /\ ~(at < UserBase) /\ p \notin DOMAIN image
             /\ MapUserPage(p, PermOf(Ph), Ph.x, FilledPage(Ph, at))
             /\ load' = IF FillEnd(Ph, at) > UPage THEN "wild" ELSE load
             /\ at' = at + UPage /\ UNCHANGED seg
    <2>1. PermOf(Ph) \in {"ro", "rw"}
      BY DEF PermOf
    <2>2. UserBase <= p * UPage /\ p * UPage + UPage <= UserEnd
      BY <1>1, <1>4, <1>8, <1>t, <1>u
    <2>3. /\ DOMAIN image' = DOMAIN image \cup {p}
          /\ \A r \in DOMAIN image : r # p /\ image'[r] = image[r]
          /\ image'[p].perm = PermOf(Ph) /\ image'[p].exec = Ph.x /\ image'[p].bytes = FilledPage(Ph, at)
          /\ \A r \in DOMAIN image' : PageOK(r)'
      <3>1. PICK perm \in {"ro", "rw"}, exec \in BOOLEAN, bytes \in [0 .. UPage - 1 -> Int] :
               perm = PermOf(Ph) /\ exec = Ph.x /\ bytes = FilledPage(Ph, at)
        BY <1>5, <1>g, <2>1
      <3>2. MapUserPage(p, perm, exec, bytes) /\ p \notin DOMAIN image /\ UserType
        BY <1>8, <1>t, <3>1
      <3>3. /\ DOMAIN image' = DOMAIN image \cup {p}
            /\ \A r \in DOMAIN image : r # p /\ image'[r] = image[r]
            /\ image'[p].perm = perm /\ image'[p].exec = exec /\ image'[p].bytes = bytes
            /\ \A r \in DOMAIN image' : PageOK(r)'
        BY <2>2, <3>2, MapsPage
      <3>4. QED
        BY <3>1, <3>3
    <2>4. load' \in LoadStates
      BY <1>8, <1>t DEF LoadStates
    <2>5. UserType'
      BY <1>8, <1>t, <1>u, <2>3, <2>4 DEF UserType
    <2>6. copy' = NoCopy
      BY <1>t DEF UserInv, CopyAfterLoad
    <2>7. Loaded' = Loaded /\ Ph' = Ph
      BY <1>8, <1>t DEF Loaded, Ph
    <2>8. CASE FillEnd(Ph, at) > UPage
      <3>1. load' = "wild" /\ at > Ph.vaddr + Ph.filesz
        BY <1>5, <1>8, <2>8
      <3>2. MapEnd(Ph) - UPage > Ph.vaddr + Ph.filesz
        <4>1. PICK m \in Nat, end \in Nat : m = MapEnd(Ph) /\ end = Ph.vaddr + Ph.filesz
          BY <1>1, <1>g
        <4>2. at + UPage <= m /\ at > end
          BY <1>4, <3>1, <4>1
        <4>3. m - UPage > end
          BY <1>t, <1>u, <4>2
        <4>4. QED
          BY <4>1, <4>3
      <3>3. WildOnlyInBss'
        BY <1>1, <2>7, <3>2 DEF WildOnlyInBss, MapEnd
      <3>4. Loading' /\ InSegment' /\ AllSegments' /\ CopyAfterLoad' /\ ImageExact' /\ CopiesChecked'
        BY <2>6, <3>1 DEF Loading, InSegment, AllSegments, CopyAfterLoad, ImageExact, CopiesChecked
      <3>5. QED
        BY <2>5, <3>3, <3>4 DEF UserInv
    <2>9. CASE ~(FillEnd(Ph, at) > UPage)
      <3>1. load' = "pages" /\ at <= Ph.vaddr + Ph.filesz
        BY <1>5, <1>8, <1>g, <1>t, <2>9
      <3>2. ASSUME NEW i \in 1 .. Len(file.segs), NEW r \in Nat
            PROVE  LoadedPage(i, r)' <=> LoadedPage(i, r) \/ (i = seg /\ r = p)
        <4>1. ToLoad(i)' <=> ToLoad(i)
          BY <1>t DEF ToLoad
        <4>2. Covers(file.segs[i], r)' <=> Covers(file.segs[i], r)
          BY <1>t DEF Covers
        <4>3. r * UPage < at + UPage <=> r * UPage < at \/ r = p
          <5>1. r * UPage \in Nat
            BY <1>u
          <5>2. r < p => r * UPage + UPage <= p * UPage
            BY <1>u, NextMultiple
          <5>3. p < r => p * UPage + UPage <= r * UPage
            BY <1>u, NextMultiple
          <5>4. QED
            BY <1>1, <1>t, <1>u, <5>1, <5>2, <5>3
        <4>4. i = seg /\ r = p => ToLoad(i) /\ Covers(file.segs[i], r)
          BY <1>1, <1>3 DEF Ph
        <4>5. QED
          BY <1>8, <1>t, <3>1, <4>1, <4>2, <4>3, <4>4 DEF LoadedPage
      <3>3. ASSUME NEW i \in 1 .. Len(file.segs), NEW r \in Nat, LoadedPage(i, r)'
            PROVE  HoldsSegment(file.segs[i], r)'
        <4>1. CASE LoadedPage(i, r)
          <5>1. HoldsSegment(file.segs[i], r)
            BY <1>t, <4>1 DEF Loading
          <5>2. r \in DOMAIN image /\ image'[r] = image[r] /\ r \in DOMAIN image' /\ file' = file
            BY <1>t, <2>3, <5>1 DEF HoldsSegment
          <5>3. QED
            BY <5>1, <5>2 DEF HoldsSegment, PermOf, ByteOf
        <4>2. CASE i = seg /\ r = p
          <5>1. p \in DOMAIN image' /\ image'[p].perm = PermOf(Ph) /\ image'[p].exec = Ph.x
            BY <2>3
          <5>2. ASSUME NEW b \in 0 .. UPage - 1 PROVE image'[p].bytes[b] = ByteOf(Ph, p * UPage + b)
            BY <1>1, <1>5, <2>3, <3>1
          <5>3. file'.segs[i] = Ph
            BY <1>t, <4>2 DEF Ph
          <5>4. QED
            BY <4>2, <5>1, <5>2, <5>3 DEF HoldsSegment, PermOf, ByteOf
        <4>3. QED
          BY <3>2, <3>3, <4>1, <4>2
      <3>4. ASSUME NEW r \in DOMAIN image' PROVE \E i \in 1 .. Len(file.segs) : LoadedPage(i, r)'
        <4>1. CASE r = p
          BY <1>1, <3>2, <4>1
        <4>2. CASE r \in DOMAIN image
          <5>1. PICK i \in 1 .. Len(file.segs) : LoadedPage(i, r)
            BY <1>t, <4>2 DEF Loading
          <5>2. QED
            BY <1>t, <3>2, <4>2, <5>1
        <4>3. QED
          BY <2>3, <4>1, <4>2
      <3>5. ASSUME NEW i \in 1 .. Len(file.segs), ToLoad(i)', i < seg \/ i = seg PROVE verify_program_header(file.segs[i])'
        <4>1. ToLoad(i)
          BY <1>t, <3>5 DEF ToLoad
        <4>2. verify_program_header(file.segs[i])
          BY <1>t, <3>5, <4>1 DEF Loading
        <4>3. QED
          BY <1>t, <4>2 DEF verify_program_header
      <3>6. Loading'
        BY <1>8, <1>t, <3>3, <3>4, <3>5 DEF Loading
      <3>7. InSegment' /\ AllSegments'
        <4>1. ToLoad(seg)' /\ Ph' = Ph
          BY <1>1, <1>8, <1>t DEF ToLoad, Ph
        <4>2. at' = (p + 1) * UPage /\ p + 1 \in Nat /\ p + 1 <= l /\ Ph.vaddr \div UPage <= p + 1
          <5>1. Ph.vaddr \div UPage \in Nat
            BY <1>g, <1>u, Quotient
          <5>2. (p + 1) * UPage = p * UPage + UPage
            BY <1>u
          <5>3. QED
            BY <1>1, <1>3, <1>8, <5>1, <5>2
        <4>3. QED
          BY <1>1, <3>1, <4>1, <4>2 DEF InSegment, AllSegments
      <3>8. QED
        BY <1>t, <2>5, <3>1, <3>6, <3>7, RestKept DEF UserInv
    <2>10. QED
      BY <2>8, <2>9
  <1>9. QED
    BY <1>2, <1>6, <1>7, <1>8 DEF map_section_from_header

-----------------------------------------------------------------------------
(* The program is ready.                                                   *)

\* Every page with a byte of a segment is as the segment has it.
LEMMA SegmentsAreLoaded ==
    ASSUME UserInv, load = "stack"
    PROVE  /\ \A g \in Loaded : g \in ProgramHeaders /\ verify_program_header(g) /\ g.memsz # 0
           /\ \A g \in Loaded, p \in Nat : Covers(g, p) => HoldsSegment(g, p)
           /\ \A p \in DOMAIN image : \E g \in Loaded : HoldsSegment(g, p)
  <1>t. /\ UserType /\ Loading /\ file \in Files /\ seg \in Nat /\ Len(file.segs) \in Nat /\ seg > Len(file.segs)
        /\ \A r \in DOMAIN image : r \in Nat
    BY FileType DEF UserInv, UserType, PageOK, AllSegments
  <1>1. ASSUME NEW g \in Loaded PROVE \E i \in 1 .. Len(file.segs) : g = file.segs[i] /\ ToLoad(i) /\ i < seg
    <2>1. PICK i \in 1 .. Len(file.segs) : g = file.segs[i] /\ file.segs[i].load /\ file.segs[i].memsz > 0
      BY DEF Loaded
    <2>2. file.segs[i].memsz # 0
      BY <1>t, <2>1, HeaderType
    <2>3. QED
      BY <1>t, <2>1, <2>2 DEF ToLoad
  <1>2. ASSUME NEW i \in 1 .. Len(file.segs), ToLoad(i) PROVE file.segs[i] \in Loaded
    <2>1. file.segs[i].memsz > 0
      BY <1>2, <1>t, HeaderType DEF ToLoad
    <2>2. QED
      BY <1>2, <2>1 DEF Loaded, ToLoad
  <1>3. ASSUME NEW g \in Loaded PROVE g \in ProgramHeaders /\ verify_program_header(g) /\ g.memsz # 0
    BY <1>1, <1>t, HeaderType DEF Loading, ToLoad
  <1>4. ASSUME NEW g \in Loaded, NEW p \in Nat, Covers(g, p) PROVE HoldsSegment(g, p)
    <2>1. PICK i \in 1 .. Len(file.segs) : g = file.segs[i] /\ ToLoad(i) /\ i < seg
      BY <1>1
    <2>2. LoadedPage(i, p)
      BY <1>4, <2>1 DEF LoadedPage
    <2>3. QED
      BY <1>t, <2>1, <2>2 DEF Loading
  <1>5. ASSUME NEW p \in DOMAIN image PROVE \E g \in Loaded : HoldsSegment(g, p)
    <2>1. PICK i \in 1 .. Len(file.segs) : LoadedPage(i, p)
      BY <1>t DEF Loading
    <2>2. file.segs[i] \in Loaded
      BY <1>2, <2>1 DEF LoadedPage
    <2>3. HoldsSegment(file.segs[i], p)
      BY <1>t, <2>1 DEF Loading
    <2>4. QED
      BY <2>2, <2>3
  <1>6. QED
    BY <1>3, <1>4, <1>5

\* A byte of a segment lies in a page of it.
LEMMA BytesAreCovered ==
    ASSUME NEW g \in ProgramHeaders, verify_program_header(g), NEW a \in g.vaddr .. g.vaddr + g.memsz - 1
    PROVE  PageOf(a) \in Nat /\ Covers(g, PageOf(a))
  <1>1. g.vaddr \in Nat /\ g.memsz \in Nat /\ g.vaddr + g.memsz <= UserEnd /\ a \in Nat
    BY UserConstants DEF ProgramHeaders, verify_program_header
  <1>2. PageOf(a) \in Nat
    BY <1>1, PagesOfRange
  <1>3. g.vaddr \div UPage <= PageOf(a) /\ PageOf(a) < (g.vaddr + g.memsz + UPage - 1) \div UPage
    BY <1>1, SegmentPages
  <1>4. QED
    BY <1>2, <1>3 DEF Covers

LEMMA LeastOf ==
    ASSUME NEW I, I \subseteq Nat, I # {}
    PROVE  Min(I) \in I /\ \A j \in I : Min(I) <= j
  <1>1. \E n \in I : \A k \in I : ~ (<<k, n>> \in OpToRel(<, Nat))
    BY NatLessThanWellFounded, WFMin
  <1>2. ASSUME NEW k \in Nat, NEW n \in Nat, k < n
        PROVE  <<k, n>> \in OpToRel(<, Nat)
    BY <1>2, Zenon DEF OpToRel
  <1>3. \E n \in I : \A k \in I : ~ (k < n)
    BY <1>1, <1>2
  <1>4. \E n \in I : \A k \in I : n <= k
    BY <1>3
  <1>5. QED
    BY <1>4 DEF Min

\* What the bytes of a page are to be, before the stack is mapped.
LEMMA BytesAreExpected ==
    ASSUME UserInv, load = "stack", NEW p \in Nat, NEW b \in 0 .. UPage - 1
    PROVE  /\ p \in DOMAIN image => image[p].bytes[b] = Expected(p * UPage + b)
           /\ p \notin DOMAIN image => Expected(p * UPage + b) = Zero
           /\ Expected(p * UPage + b) < file.size
  <1>u. UPage \in Nat \ {0}
    BY UserConstants
  <1>t. file \in Files /\ file.size \in Nat
    BY FileType DEF UserInv, UserType
  <1>1. PICK a \in Nat : a = p * UPage + b
    BY <1>u
  <1>2. PageOf(a) = p
    BY <1>1, <1>u, PagesOfRange
  <1>3. PICK of : of = {g \in Loaded : g.vaddr <= a /\ a < g.vaddr + g.filesz}
    OBVIOUS
  <1>4. ASSUME NEW g \in of
        PROVE  /\ HoldsSegment(g, p)
               /\ ByteOf(g, a) = g.off + a - g.vaddr /\ g.off + a - g.vaddr < file.size
    <2>1. g \in Loaded /\ g.vaddr <= a /\ a < g.vaddr + g.filesz
      BY <1>3
    <2>2. g \in ProgramHeaders /\ verify_program_header(g)
      BY <2>1, SegmentsAreLoaded
    <2>3. /\ g.vaddr \in Nat /\ g.memsz \in Nat /\ g.filesz \in Nat /\ g.off \in Nat
          /\ g.filesz <= g.memsz /\ g.filesz <= file.size - g.off
      BY <2>2 DEF ProgramHeaders, verify_program_header
    <2>4. a \in g.vaddr .. g.vaddr + g.memsz - 1
      BY <2>1, <2>3
    <2>5. Covers(g, p)
      BY <1>2, <2>2, <2>4, BytesAreCovered
    <2>6. HoldsSegment(g, p)
      BY <2>1, <2>5, SegmentsAreLoaded
    <2>7. QED
      BY <1>t, <2>1, <2>3, <2>6 DEF ByteOf
  <1>5. CASE of = {}
    <2>1. Expected(a) = Zero
      BY <1>3, <1>5 DEF Expected
    <2>2. ASSUME p \in DOMAIN image PROVE image[p].bytes[b] = Zero
      <3>1. PICK g \in Loaded : HoldsSegment(g, p)
        BY <2>2, SegmentsAreLoaded
      <3>2. ~(g.vaddr <= a /\ a < g.vaddr + g.filesz)
        BY <1>3, <1>5
      <3>3. ByteOf(g, a) = Zero
        BY <3>2 DEF ByteOf
      <3>4. QED
        BY <1>1, <3>1, <3>3 DEF HoldsSegment
    <2>3. QED
      BY <1>1, <1>t, <2>1, <2>2 DEF Zero
  <1>6. CASE of # {}
    <2>1. PICK h : h = CHOOSE g \in of : TRUE
      OBVIOUS
    <2>2. h \in of
      BY <1>6, <2>1
    <2>3. Expected(a) = h.off + a - h.vaddr
      BY <1>3, <1>6, <2>1 DEF Expected
    <2>4. HoldsSegment(h, p) /\ ByteOf(h, a) = Expected(a) /\ Expected(a) < file.size
      BY <1>4, <2>2, <2>3
    <2>5. p \in DOMAIN image /\ image[p].bytes[b] = ByteOf(h, p * UPage + b)
      BY <2>4 DEF HoldsSegment
    <2>6. QED
      BY <1>1, <2>4, <2>5
  <1>7. QED
    BY <1>5, <1>6

LEMMA StackStep == ASSUME UserInv, UserStack PROVE UserInv'
  <1>u. UPage \in Nat \ {0} /\ UserEnd \in Nat /\ UserBase \in Nat
    BY UserConstants
  <1>t. /\ UserType /\ load = "stack" /\ UNCHANGED <<file, copies, copy>>
        /\ file \in Files /\ seg \in Nat \ {0} /\ at \in Nat /\ file.size \in Nat
        /\ \A r \in DOMAIN image : r \in Nat
    BY FileType DEF UserInv, UserType, PageOK, UserStack
  <1>1. PICK open : open = (UserBase \div UPage .. UserEnd \div UPage - 1) \ DOMAIN image
    OBVIOUS
  <1>2. CASE Abandon
    BY <1>2, <1>t, Abandons
  <1>3. CASE load' = "panic" /\ UNCHANGED <<seg, at, image, utables, uframes>>
    BY <1>3, <1>t, Panics
  <1>4. CASE /\ open # {} /\ MapUserPage(Min(open), "rw", FALSE, [b \in 0 .. UPage - 1 |-> Zero])
             /\ load' = "ready" /\ UNCHANGED <<seg, at>>
    <2>1. PICK m \in Nat, e \in Nat :
             m = UserBase \div UPage /\ e = UserEnd \div UPage /\ m * UPage = UserBase /\ e * UPage = UserEnd
      BY <1>u, Quotient, UserConstants
    <2>2. open \subseteq Nat
      BY <1>1, <2>1
    <2>3. PICK p \in Nat : p = Min(open) /\ p \in open
      BY <1>4, <2>2, LeastOf
    <2>4. p \notin DOMAIN image /\ m <= p /\ p < e
      BY <1>1, <2>1, <2>3
    <2>5. p * UPage \in Nat /\ p * UPage + UPage <= UserEnd
      BY <1>u, <2>1, <2>4, NextMultiple
    <2>6. UserBase <= p * UPage
      <3>1. m = p \/ m * UPage + UPage <= p * UPage
        BY <1>u, <2>4, NextMultiple
      <3>2. QED
        BY <1>u, <2>1, <2>5, <3>1
    <2>7. PICK zeros \in [0 .. UPage - 1 -> Int] : zeros = [b \in 0 .. UPage - 1 |-> Zero]
      <3>1. Zero \in Int
        BY DEF Zero
      <3>2. [b \in 0 .. UPage - 1 |-> Zero] \in [0 .. UPage - 1 -> Int]
        BY <3>1
      <3>3. QED
        BY <3>2
    <2>8. MapUserPage(p, "rw", FALSE, zeros) /\ UserType
      BY <1>4, <1>t, <2>3, <2>7
    <2>9. /\ DOMAIN image' = DOMAIN image \cup {p}
          /\ \A r \in DOMAIN image : r # p /\ image'[r] = image[r]
          /\ image'[p].perm = "rw" /\ image'[p].bytes = zeros
          /\ \A r \in DOMAIN image' : PageOK(r)'
      BY <2>4, <2>5, <2>6, <2>8, MapsPage
    <2>10. UserType'
      BY <1>4, <1>t, <2>9 DEF UserType, LoadStates
    <2>11. copy' = NoCopy
      BY <1>t DEF UserInv, CopyAfterLoad
    <2>12. Loading' /\ InSegment' /\ AllSegments' /\ CopyAfterLoad' /\ WildOnlyInBss' /\ CopiesChecked'
      BY <1>4, <2>11 DEF Loading, InSegment, AllSegments, CopyAfterLoad, WildOnlyInBss, CopiesChecked
    <2>13. Loaded' = Loaded /\ \A a \in Nat : Expected(a)' = Expected(a)
      BY <1>t DEF Loaded, Expected
    <2>14. ASSUME NEW g \in Loaded, NEW a \in g.vaddr .. g.vaddr + g.memsz - 1
           PROVE  PageOf(a) \in DOMAIN image' /\ image'[PageOf(a)].perm = PermOf(g) /\ image'[PageOf(a)].exec = g.x
      <3>1. PageOf(a) \in Nat /\ Covers(g, PageOf(a))
        BY <1>t, BytesAreCovered, SegmentsAreLoaded
      <3>2. HoldsSegment(g, PageOf(a))
        BY <1>t, <3>1, SegmentsAreLoaded
      <3>3. QED
        BY <2>9, <3>2 DEF HoldsSegment
    <2>15. ASSUME NEW r \in DOMAIN image', NEW b \in 0 .. UPage - 1
           PROVE  image'[r].bytes[b] = Expected(r * UPage + b) /\ image'[r].bytes[b] < file.size
      <3>1. r \in Nat
        BY <1>t, <2>9
      <3>2. /\ r \in DOMAIN image => image[r].bytes[b] = Expected(r * UPage + b)
            /\ r \notin DOMAIN image => Expected(r * UPage + b) = Zero
            /\ Expected(r * UPage + b) < file.size
        BY <1>t, <3>1, BytesAreExpected
      <3>3. r = p => image'[r].bytes[b] = Zero
        BY <2>7, <2>9
      <3>4. QED
        BY <2>4, <2>9, <3>2, <3>3
    <2>16. ASSUME NEW r \in DOMAIN image', NEW b \in 0 .. UPage - 1
           PROVE  image'[r].bytes[b] = Expected(r * UPage + b)' /\ image'[r].bytes[b] < file'.size
      <3>1. r \in Nat
        BY <1>t, <2>9
      <3>2. r * UPage \in Nat
        BY <1>u, <3>1
      <3>3. r * UPage + b \in Nat
        BY <1>u, <3>2
      <3>4. QED
        BY <1>t, <2>13, <2>15, <3>3
    <2>17. ImageExact'
      BY <1>t, <2>13, <2>14, <2>16 DEF ImageExact, PageOf, PermOf
    <2>18. QED
      BY <2>10, <2>12, <2>17 DEF UserInv
  <1>5. QED
    BY <1>1, <1>2, <1>3, <1>4 DEF UserStack

-----------------------------------------------------------------------------
(* Copies.                                                                 *)

\* What is mapped lies in the user range.
LEMMA MappedInRange ==
    ASSUME UserType, NEW a \in Nat, PageOf(a) \in DOMAIN image
    PROVE  UserBase <= a /\ PageOf(a) * UPage + UPage <= UserEnd /\ a < UserEnd
  <1>1. PICK q \in Nat : q = PageOf(a) /\ q \in DOMAIN image
    BY PagesOfRange
  <1>2. UserBase <= q * UPage /\ q * UPage + UPage <= UserEnd
    BY <1>1 DEF UserType, PageOK
  <1>3. q * UPage \in Nat /\ q * UPage <= a /\ a < q * UPage + UPage
    BY <1>1, PagesOfRange
  <1>4. QED
    BY <1>1, <1>2, <1>3, UserConstants

\* The remainder of what is less than the modulus, and that of any number.
LEMMA Wraps ==
    /\ \A x \in 0 .. UsizeMod - 1 : x % UsizeMod = x
    /\ \A x \in 0 .. VaMod - 1 : x % VaMod = x
    /\ \A x \in Int : x % UsizeMod \in 0 .. UsizeMod - 1
    /\ \A x \in Nat : x % VaMod \in 0 .. VaMod - 1
  BY UserConstants

\* The check of a range: a range in one page is as that page, and a range
\* that is refused has a byte that the MMU refuses.
LEMMA RangeChecked ==
    ASSUME UserType, NEW ptr \in 0 .. UsizeMod - 1, NEW size \in 1 .. UsizeMod - 1, NEW write \in BOOLEAN
    PROVE  LET res == user_range_valid(ptr, size, write)
               may(a) == IF write THEN MayWrite(a) ELSE MayRead(a)
           IN  /\ res \in {"ok", "efault", "lookup"}
               /\ res = "ok" /\ PageOf(ptr) = PageOf(ptr + size - 1) =>
                     PageOf(ptr) \in DOMAIN image /\ (write => image[PageOf(ptr)].perm = "rw")
               /\ res # "ok" => \E a \in ByteRange(ptr, size) : ~may(a)
  <1>u. /\ UPage \in Nat \ {0} /\ UserEnd \in Nat /\ UserBase \in Nat /\ UserBase < UserEnd /\ UserEnd < UsizeMod
        /\ UsizeMod \in Nat /\ VaMod \in Nat /\ UserEnd <= VaMod
    BY UserConstants
  <1>1. PICK c \in Nat : c = ptr + size - 1
    BY <1>u
  <1>2. ptr \in Nat /\ ptr <= c /\ c \in Int
    BY <1>1, <1>u
  <1>w. PICK w \in 0 .. UsizeMod - 1 : w = c % UsizeMod
    BY <1>2, Wraps
  <1>v. PICK v \in 0 .. VaMod - 1 : v = w % VaMod
    BY <1>w, <1>u, Wraps
  <1>3. PICK last \in Nat : last = PageOf(v)
    BY <1>v, PagesOfRange
  <1>4. PICK res : res = user_range_valid(ptr, size, write)
    OBVIOUS
  <1>5. /\ ~is_within_user_vm_range(ptr, size) => res = "efault"
        /\ is_within_user_vm_range(ptr, size) /\ last \div TableSpan \notin utables => res = "lookup"
        /\ is_within_user_vm_range(ptr, size) /\ last \div TableSpan \in utables =>
              res = IF CheckDesc(last, write) THEN "ok" ELSE "efault"
    BY <1>1, <1>w, <1>v, <1>3, <1>4 DEF user_range_valid
  <1>6. res \in {"ok", "efault", "lookup"}
    BY <1>5
  <1>7. ASSUME res = "ok", PageOf(ptr) = PageOf(c)
        PROVE  PageOf(ptr) \in DOMAIN image /\ (write => image[PageOf(ptr)].perm = "rw")
    <2>1. is_within_user_vm_range(ptr, size) /\ CheckDesc(last, write)
      BY <1>5, <1>7
    <2>2. size <= UserEnd
      <3>1. PICK p \in Nat : p = PageOf(ptr)
        BY <1>2, PagesOfRange
      <3>2. p * UPage \in Nat /\ p * UPage <= ptr /\ c < p * UPage + UPage
        BY <1>1, <1>2, <1>7, <3>1, PagesOfRange
      <3>3. size <= UPage
        BY <1>1, <1>2, <1>u, <3>2
      <3>4. UPage <= UserEnd
        <4>1. PICK e \in Nat : e = UserEnd \div UPage
          BY <1>u, Quotient
        <4>2. UserEnd = e * UPage /\ e # 0
          BY <4>1, <1>u, UserConstants
        <4>3. 0 * UPage + UPage <= e * UPage
          BY <4>1, <4>2, <1>u, NextMultiple
        <4>4. QED
          BY <4>2, <4>3, <1>u
      <3>5. QED
        BY <1>u, <3>3, <3>4
    <2>3. UserEnd - size \in 0 .. UsizeMod - 1
      BY <1>u, <2>2
    <2>4. ptr <= UserEnd - size
      BY <2>1, <2>3, Wraps DEF is_within_user_vm_range
    <2>5. c < UserEnd /\ c \in 0 .. UsizeMod - 1 /\ c \in 0 .. VaMod - 1
      BY <1>1, <1>2, <1>u, <2>4
    <2>6. v = c
      BY <1>w, <1>v, <2>5, Wraps
    <2>7. QED
      BY <1>3, <1>7, <2>1, <2>6 DEF CheckDesc
  <1>b. /\ ptr \in ByteRange(ptr, size) /\ w \in ByteRange(ptr, size)
        /\ ptr < UserEnd /\ UserEnd <= c => UserEnd \in ByteRange(ptr, size)
    <2>1. ptr \in ptr .. c /\ c \in ptr .. c /\ (ptr < UserEnd /\ UserEnd <= c => UserEnd \in ptr .. c)
      BY <1>1, <1>2, <1>u
    <2>2. ptr % UsizeMod = ptr /\ UserEnd % UsizeMod = UserEnd
      BY <1>u, Wraps
    <2>3. QED
      BY <1>1, <1>w, <2>1, <2>2 DEF ByteRange
  <1>8. ASSUME res # "ok" PROVE \E a \in ByteRange(ptr, size) : ~(IF write THEN MayWrite(a) ELSE MayRead(a))
    <2>1. ASSUME NEW a \in Nat, a < UserBase \/ UserEnd <= a PROVE ~MayRead(a) /\ ~MayWrite(a)
      BY <2>1, <1>u, MappedInRange DEF MayRead, MayWrite
    <2>2. CASE ~is_within_user_vm_range(ptr, size)
      <3>1. CASE ptr < UserBase \/ UserEnd <= ptr
        <4>1. ~MayRead(ptr) /\ ~MayWrite(ptr)
          BY <1>2, <2>1, <3>1
        <4>2. QED
          BY <1>b, <4>1
      <3>2. CASE UserBase <= ptr /\ ptr < UserEnd
        <4>1. ~(ptr <= (UserEnd - size) % UsizeMod)
          BY <2>2, <3>2 DEF is_within_user_vm_range
        <4>2. UserEnd <= c
          <5>1. CASE size <= UserEnd
            <6>1. UserEnd - size \in 0 .. UsizeMod - 1
              BY <1>u, <5>1
            <6>2. ~(ptr <= UserEnd - size)
              BY <4>1, <6>1, Wraps
            <6>3. QED
              BY <1>1, <1>2, <1>u, <6>2
          <5>2. CASE UserEnd < size
            BY <1>1, <1>2, <1>u, <5>2
          <5>3. QED
            BY <1>u, <5>1, <5>2
        <4>3. UserEnd \in ByteRange(ptr, size)
          BY <1>b, <3>2, <4>2
        <4>4. QED
          BY <1>u, <2>1, <4>3
      <3>3. QED
        BY <1>u, <1>2, <3>1, <3>2
    <2>3. CASE is_within_user_vm_range(ptr, size) /\ UserEnd <= w
      BY <1>b, <1>w, <1>u, <2>1, <2>3
    <2>4. CASE is_within_user_vm_range(ptr, size) /\ w < UserEnd
      <3>w. w \in 0 .. VaMod - 1
        BY <1>w, <1>u, <2>4
      <3>1. v = w
        <4>1. \A x \in 0 .. VaMod - 1 : x % VaMod = x
          BY Wraps
        <4>2. QED
          BY <1>v, <3>w, <4>1
      <3>2. last = PageOf(w)
        BY <1>3, <3>1
      <3>3. CASE last \div TableSpan \notin utables
        <4>1. ~MayRead(w) /\ ~MayWrite(w)
          BY <3>2, <3>3 DEF UserType, PageOK, MayRead, MayWrite
        <4>2. QED
          BY <1>b, <4>1
      <3>4. CASE last \div TableSpan \in utables
        <4>1. ~CheckDesc(last, write)
          BY <1>5, <1>8, <2>4, <3>4
        <4>2. last \in DOMAIN image => image[last].perm \in {"ro", "rw"}
          BY DEF UserType, PageOK, UserPage
        <4>3. ~(IF write THEN MayWrite(w) ELSE MayRead(w))
          BY <3>2, <4>1, <4>2 DEF CheckDesc, MayRead, MayWrite
        <4>4. QED
          BY <1>b, <4>3
      <3>5. QED
        BY <3>3, <3>4
    <2>5. QED
      BY <1>u, <1>w, <2>2, <2>3, <2>4
  <1>9. QED
    BY <1>1, <1>4, <1>6, <1>7, <1>8

LEMMA CopyIsChecked ==
    ASSUME UserType, NEW ptr \in 0 .. UsizeMod - 1, NEW size \in 0 .. UsizeMod - 1, NEW write \in BOOLEAN
    PROVE  LET res == CopyResult(ptr, size, write)
               may(a) == IF write THEN MayWrite(a) ELSE MayRead(a)
           IN  /\ res = "ok" => \A a \in ByteRange(ptr, size) : may(a)
               /\ res = "abort" => PageOf(ptr) # PageOf(ptr + size - 1)
               /\ res \in {"efault", "lookup"} => \E a \in ByteRange(ptr, size) : ~may(a)
  <1>u. UsizeMod \in Nat /\ UserEnd \in Nat /\ UserEnd < UsizeMod
    BY UserConstants
  <1>1. CASE size = 0
    <2>1. CopyResult(ptr, size, write) = "ok"
      BY <1>1 DEF CopyResult
    <2>2. ptr .. ptr + size - 1 = {}
      BY <1>1, <1>u
    <2>3. ByteRange(ptr, size) = {}
      BY <2>2 DEF ByteRange
    <2>4. QED
      BY <2>1, <2>3
  <1>2. CASE size # 0
    <2>1. PICK c \in Nat : c = ptr + size - 1
      BY <1>2, <1>u
    <2>2. PICK valid : valid = user_range_valid(ptr, size, write)
      OBVIOUS
    <2>3. /\ valid \in {"ok", "efault", "lookup"}
          /\ valid = "ok" /\ PageOf(ptr) = PageOf(c) =>
                PageOf(ptr) \in DOMAIN image /\ (write => image[PageOf(ptr)].perm = "rw")
          /\ valid # "ok" => \E a \in ByteRange(ptr, size) : ~(IF write THEN MayWrite(a) ELSE MayRead(a))
      <3>1. size \in 1 .. UsizeMod - 1
        BY <1>2, <1>u
      <3>2. QED
        BY <2>1, <2>2, <3>1, RangeChecked
    <2>5. CASE valid # "ok"
      <3>1. CopyResult(ptr, size, write) = valid
        BY <1>2, <2>2, <2>5 DEF CopyResult
      <3>2. QED
        BY <2>3, <2>5, <3>1
    <2>6. CASE valid = "ok"
      <3>1. CopyResult(ptr, size, write) =
               IF \A a \in ByteRange(ptr, size): IF write THEN MayWrite(a) ELSE MayRead(a) THEN "ok" ELSE "abort"
        BY <1>2, <2>2, <2>6 DEF CopyResult
      <3>2. ASSUME PageOf(ptr) = PageOf(c), NEW a \in ByteRange(ptr, size)
            PROVE  IF write THEN MayWrite(a) ELSE MayRead(a)
        <4>1. PageOf(ptr) \in DOMAIN image /\ (write => image[PageOf(ptr)].perm = "rw")
          BY <2>3, <2>6, <3>2
        <4>2. PICK x \in ptr .. c : a = x % UsizeMod
          BY <2>1 DEF ByteRange
        <4>3. PageOf(x) = PageOf(ptr)
          BY <1>u, <2>1, <3>2, <4>2, SamePage
        <4>x. x \in Nat
          BY <4>2, <2>1, <1>u
        <4>4. x < UserEnd
          BY <4>1, <4>3, <4>x, MappedInRange
        <4>u. x \in 0 .. UsizeMod - 1
          BY <1>u, <4>4, <4>x
        <4>w. \A y \in 0 .. UsizeMod - 1 : y % UsizeMod = y
          BY Wraps
        <4>5. a = x
          BY <4>2, <4>u, <4>w
        <4>6. QED
          BY <4>1, <4>3, <4>5 DEF MayRead, MayWrite
      <3>3. QED
        BY <2>1, <3>1, <3>2
    <2>7. QED
      BY <2>5, <2>6
  <1>3. QED
    BY <1>1, <1>2

\* A copy changes at most the bytes of pages that may be written.
LEMMA CopyKeeps ==
    ASSUME UserInv, NEW op, NEW ptr, NEW size, NEW res, Copied(op, ptr, size, res), UserType', ImageExact', CopiesChecked'
    PROVE  UserInv'
  <1>1. load' \in {"ready", "panic"}
    BY DEF Copied
  <1>2. Loading' /\ InSegment' /\ AllSegments' /\ CopyAfterLoad' /\ WildOnlyInBss'
    BY <1>1 DEF Loading, InSegment, AllSegments, CopyAfterLoad, WildOnlyInBss
  <1>3. QED
    BY <1>2 DEF UserInv

LEMMA SameImage ==
    ASSUME UserInv, NEW op, NEW ptr, NEW size, NEW res, Copied(op, ptr, size, res), image' = image
    PROVE  /\ UserType' /\ ImageExact'
           /\ \A a \in Nat : (MayRead(a)' <=> MayRead(a)) /\ (MayWrite(a)' <=> MayWrite(a))
  <1>1. /\ load = "ready" /\ load' \in {"ready", "panic"} /\ UNCHANGED <<file, seg, at, utables, uframes>>
    BY DEF Copied
  <1>2. UserType'
    BY <1>1 DEF UserInv, UserType, LoadStates, PageOK
  <1>3. Loaded' = Loaded /\ \A a : Expected(a)' = Expected(a)
    BY <1>1 DEF Loaded, Expected
  <1>4. ImageExact'
    BY <1>1, <1>3 DEF UserInv, ImageExact, PageOf, PermOf
  <1>5. QED
    BY <1>2, <1>4 DEF MayRead, MayWrite, PageOf

LEMMA CopyFromStep ==
    ASSUME UserInv, NEW ptr \in 0 .. UsizeMod - 1, NEW size \in 0 .. UsizeMod - 1, copy_from_user(ptr, size)
    PROVE  UserInv'
  <1>1. PICK res : res = CopyResult(ptr, size, FALSE)
    OBVIOUS
  <1>2. Copied("from", ptr, size, res) /\ image' = image
    BY <1>1 DEF copy_from_user
  <1>3. /\ UserType' /\ ImageExact'
        /\ \A a \in Nat : MayRead(a)' <=> MayRead(a)
    BY <1>2, SameImage
  <1>4. /\ res = "abort" => PageOf(ptr) # PageOf(ptr + size - 1)
        /\ res \in {"efault", "lookup"} => \E a \in ByteRange(ptr, size) : ~MayRead(a)
    <2>1. PICK write \in BOOLEAN : write = FALSE
      OBVIOUS
    <2>2. /\ res = "abort" => PageOf(ptr) # PageOf(ptr + size - 1)
          /\ res \in {"efault", "lookup"} => \E a \in ByteRange(ptr, size) : ~(IF write THEN MayWrite(a) ELSE MayRead(a))
      BY <1>1, <2>1, CopyIsChecked DEF UserInv
    <2>3. QED
      BY <2>1, <2>2
  <1>5. \A a \in ByteRange(ptr, size) : a \in Nat
    BY UserConstants, Wraps DEF ByteRange
  <1>6. copy' = [op |-> "from", ptr |-> ptr, size |-> size, res |-> res]
    BY <1>2 DEF Copied
  <1>7. /\ copy'.res = "abort" => PageOf(copy'.ptr) # PageOf(copy'.ptr + copy'.size - 1)
        /\ copy'.res \in {"efault", "lookup"} => \E a \in ByteRange(copy'.ptr, copy'.size) : ~MayRead(a)'
        /\ copy'.op = "from"
    BY <1>3, <1>4, <1>5, <1>6
  <1>8. CopiesChecked'
    BY <1>7 DEF CopiesChecked, PageOf, ByteRange
  <1>9. QED
    BY <1>2, <1>3, <1>8, CopyKeeps

LEMMA CopyToStep ==
    ASSUME UserInv, NEW ptr \in 0 .. UsizeMod - 1, NEW size \in 0 .. UsizeMod - 1, copy_to_user(ptr, size)
    PROVE  UserInv'
  <1>u. UPage \in Nat \ {0} /\ UserEnd \in Nat /\ UserBase \in Nat \ {0}
    BY UserConstants, UserMemoryAssumption
  <1>1. PICK res : res = CopyResult(ptr, size, TRUE)
    OBVIOUS
  <1>2. /\ Copied("to", ptr, size, res)
        /\ image' = IF res # "ok" THEN image
                    ELSE [p \in DOMAIN image |->
                            [image[p] EXCEPT !.bytes = [b \in 0 .. UPage - 1 |->
                                IF p * UPage + b \in ByteRange(ptr, size) THEN Kernel ELSE @[b]]]]
    BY <1>1 DEF copy_to_user
  <1>3. /\ res = "ok" => \A a \in ByteRange(ptr, size) : MayWrite(a)
        /\ res = "abort" => PageOf(ptr) # PageOf(ptr + size - 1)
        /\ res \in {"efault", "lookup"} => \E a \in ByteRange(ptr, size) : ~MayWrite(a)
    <2>1. PICK write \in BOOLEAN : write = TRUE
      OBVIOUS
    <2>2. /\ res = "ok" => \A a \in ByteRange(ptr, size) : IF write THEN MayWrite(a) ELSE MayRead(a)
          /\ res = "abort" => PageOf(ptr) # PageOf(ptr + size - 1)
          /\ res \in {"efault", "lookup"} => \E a \in ByteRange(ptr, size) : ~(IF write THEN MayWrite(a) ELSE MayRead(a))
      BY <1>1, <2>1, CopyIsChecked DEF UserInv
    <2>3. QED
      BY <2>1, <2>2
  <1>4. copy' = [op |-> "to", ptr |-> ptr, size |-> size, res |-> res]
    BY <1>2 DEF Copied
  <1>5. CASE res # "ok"
    <2>1. image' = image
      BY <1>2, <1>5
    <2>2. /\ UserType' /\ ImageExact'
          /\ \A a \in Nat : MayWrite(a)' <=> MayWrite(a)
      BY <1>2, <2>1, SameImage
    <2>3. \A a \in ByteRange(ptr, size) : a \in Nat
      BY UserConstants, Wraps DEF ByteRange
    <2>4. /\ copy'.res = "abort" => PageOf(copy'.ptr) # PageOf(copy'.ptr + copy'.size - 1)
          /\ copy'.res \in {"efault", "lookup"} => \E a \in ByteRange(copy'.ptr, copy'.size) : ~MayWrite(a)'
          /\ copy'.op = "to"
      BY <1>3, <1>4, <2>2, <2>3
    <2>5. CopiesChecked'
      BY <2>4 DEF CopiesChecked, PageOf, ByteRange
    <2>6. QED
      BY <1>2, <2>2, <2>5, CopyKeeps
  <1>6. CASE res = "ok"
    <2>1. load = "ready" /\ load' = "ready" /\ UNCHANGED <<file, seg, at, utables, uframes>>
      BY <1>2, <1>6 DEF Copied
    <2>2. /\ DOMAIN image' = DOMAIN image
          /\ \A p \in DOMAIN image :
               image'[p] = [image[p] EXCEPT !.bytes = [b \in 0 .. UPage - 1 |->
                                IF p * UPage + b \in ByteRange(ptr, size) THEN Kernel ELSE @[b]]]
      BY <1>2, <1>6
    <2>3. ASSUME NEW p \in DOMAIN image PROVE PageOK(p) /\ image[p] \in UserPage
      BY DEF UserInv, UserType, PageOK
    <2>4. ASSUME NEW p \in DOMAIN image
          PROVE  /\ image'[p].perm = image[p].perm /\ image'[p].exec = image[p].exec
                 /\ image'[p].bytes = [b \in 0 .. UPage - 1 |->
                        IF p * UPage + b \in ByteRange(ptr, size) THEN Kernel ELSE image[p].bytes[b]]
                 /\ image'[p] \in UserPage
      <3>1. image[p].bytes \in [0 .. UPage - 1 -> Int] /\ Kernel \in Int
        BY <2>3 DEF UserPage, Kernel
      <3>2. PICK new : new = [b \in 0 .. UPage - 1 |->
                        IF p * UPage + b \in ByteRange(ptr, size) THEN Kernel ELSE image[p].bytes[b]]
        OBVIOUS
      <3>3. new \in [0 .. UPage - 1 -> Int]
        BY <3>1, <3>2
      <3>4. image'[p] = [image[p] EXCEPT !.bytes = new]
        BY <2>2, <3>2
      <3>5. QED
        BY <2>3, <3>2, <3>3, <3>4 DEF UserPage
    <2>5. ASSUME NEW p \in DOMAIN image PROVE PageOK(p)'
      BY <2>1, <2>3, <2>4 DEF PageOK
    <2>6. UserType'
      BY <2>1, <2>2, <2>5 DEF UserInv, UserType
    <2>7. Loaded' = Loaded /\ \A a : Expected(a)' = Expected(a)
      BY <2>1 DEF Loaded, Expected
    <2>8. ASSUME NEW p \in DOMAIN image, NEW b \in 0 .. UPage - 1, p * UPage + b \in ByteRange(ptr, size)
          PROVE  image[p].perm = "rw"
      <3>1. p \in Nat
        BY <2>3 DEF PageOK
      <3>2. PICK m \in Nat : m = p * UPage
        BY <1>u, <3>1
      <3>3. PageOf(m + b) = p
        BY <1>u, <3>1, <3>2, PagesOfRange
      <3>4. MayWrite(m + b)
        BY <1>3, <1>6, <2>8, <3>2
      <3>5. QED
        BY <3>3, <3>4 DEF MayWrite
    <2>9. ASSUME NEW p \in DOMAIN image, NEW b \in 0 .. UPage - 1
          PROVE  /\ \/ image'[p].bytes[b] = Expected(p * UPage + b)'
                    \/ image'[p].bytes[b] = Kernel /\ image'[p].perm = "rw"
                 /\ image'[p].bytes[b] < file'.size
      <3>1. /\ \/ image[p].bytes[b] = Expected(p * UPage + b)
               \/ image[p].bytes[b] = Kernel /\ image[p].perm = "rw"
            /\ image[p].bytes[b] < file.size
        BY <2>1 DEF UserInv, ImageExact
      <3>2. Kernel < file.size
        BY FileType DEF UserInv, UserType, Kernel
      <3>3. image'[p].bytes[b] = IF p * UPage + b \in ByteRange(ptr, size) THEN Kernel ELSE image[p].bytes[b]
        BY <2>4
      <3>4. CASE p * UPage + b \in ByteRange(ptr, size)
        BY <2>1, <2>4, <2>8, <3>2, <3>3, <3>4
      <3>5. CASE p * UPage + b \notin ByteRange(ptr, size)
        BY <2>1, <2>4, <2>7, <3>1, <3>3, <3>5
      <3>6. QED
        BY <3>4, <3>5
    <2>10. ASSUME NEW g \in Loaded, NEW a \in g.vaddr .. g.vaddr + g.memsz - 1
           PROVE  PageOf(a) \in DOMAIN image' /\ image'[PageOf(a)].perm = PermOf(g) /\ image'[PageOf(a)].exec = g.x
      <3>1. PageOf(a) \in DOMAIN image /\ image[PageOf(a)].perm = PermOf(g) /\ image[PageOf(a)].exec = g.x
        BY <2>1 DEF UserInv, ImageExact
      <3>2. QED
        BY <2>2, <2>4, <3>1
    <2>11. ImageExact'
      BY <2>2, <2>7, <2>9, <2>10 DEF ImageExact, PageOf, PermOf
    <2>12. CopiesChecked'
      BY <1>4, <1>6 DEF CopiesChecked
    <2>13. QED
      BY <1>2, <2>6, <2>11, <2>12, CopyKeeps
  <1>7. QED
    BY <1>5, <1>6

LEMMA CopyStringStep ==
    ASSUME UserInv, NEW ptr \in 0 .. UsizeMod - 1, NEW max \in 0 .. UsizeMod - 1, copy_from_user_string(ptr, max)
    PROVE  UserInv'
  <1>u. UserEnd \in Nat /\ UsizeMod \in Nat /\ UserEnd < UsizeMod /\ ptr \in Nat
    BY UserConstants
  <1>d. DEFINE va(i) == (ptr + i) % UsizeMod
               check(i) == user_range_valid(va(i), max, FALSE)
               byte(i) == image[PageOf(va(i))].bytes[va(i) % UPage]
               ends == {i \in 0 .. max - 1: check(i) # "ok" \/ ~MayRead(va(i)) \/ byte(i) = Zero}
  <1>1. PICK res, E :
           /\ Copied("string", ptr, max, res) /\ image' = image /\ E = ends
           /\ res = IF max = 0 THEN "ok"
                    ELSE IF E = {} THEN "enametoolong"
                    ELSE IF check(Min(E)) # "ok" THEN check(Min(E))
                    ELSE IF MayRead(va(Min(E))) THEN "ok" ELSE "abort"
    BY DEF copy_from_user_string
  <1>e. E \subseteq 0 .. max - 1 /\ \A i \in 0 .. max - 1 : i \notin E => MayRead(va(i))
    BY <1>1
  <1>f. HIDE DEF ends, byte
  <1>2. ASSUME max # 0, NEW i \in Nat
        PROVE  /\ check(i) \in {"ok", "efault", "lookup"}
               /\ check(i) = "ok" /\ PageOf(va(i)) = PageOf(va(i) + max - 1) => PageOf(va(i)) \in DOMAIN image
    <2>1. PICK write \in BOOLEAN : write = FALSE
      OBVIOUS
    <2>2. PICK a \in 0 .. UsizeMod - 1 : a = va(i)
      <3>1. ptr + i \in Int
        BY <1>u
      <3>2. va(i) \in 0 .. UsizeMod - 1
        BY <3>1, Wraps
      <3>3. QED
        BY <3>2
    <2>3. max \in 1 .. UsizeMod - 1
      BY <1>2, <1>u
    <2>4. /\ user_range_valid(a, max, write) \in {"ok", "efault", "lookup"}
          /\ user_range_valid(a, max, write) = "ok" /\ PageOf(a) = PageOf(a + max - 1) => PageOf(a) \in DOMAIN image
      BY <2>3, RangeChecked DEF UserInv
    <2>5. QED
      BY <2>1, <2>2, <2>4
  <1>3. va(0) = ptr
    BY <1>u, Wraps
  <1>4. ASSUME res = "abort" PROVE PageOf(ptr) # PageOf(ptr + max - 1)
    <2>1. E \subseteq Nat
      BY <1>e
    <2>e. max # 0 /\ E # {}
      BY <1>1, <1>4
    <2>2. PICK i \in 0 .. max - 1 : i = Min(E) /\ i \in E /\ \A j \in E : i <= j
      BY <1>e, <2>1, <2>e, LeastOf
    <2>n. i \in Nat
      BY <2>2
    <2>3. check(i) = "ok" /\ ~MayRead(va(i))
      <3>1. check(i) \in {"ok", "efault", "lookup"}
        BY <1>2, <2>n, <2>e
      <3>2. res = IF check(i) # "ok" THEN check(i) ELSE IF MayRead(va(i)) THEN "ok" ELSE "abort"
        BY <1>1, <2>2, <2>e
      <3>3. QED
        BY <1>4, <3>1, <3>2
    <2>4. SUFFICES ASSUME PageOf(ptr) = PageOf(ptr + max - 1) PROVE FALSE
      OBVIOUS
    <2>5. PageOf(ptr) \in DOMAIN image
      <3>1. CASE i = 0
        BY <1>2, <1>3, <2>3, <2>4, <2>e, <2>n, <3>1
      <3>2. CASE i # 0
        <4>1. 0 \in 0 .. max - 1 /\ 0 \notin E
          BY <2>2, <3>2
        <4>2. MayRead(va(0))
          BY <1>e, <4>1
        <4>3. QED
          BY <1>3, <4>2 DEF MayRead
      <3>3. QED
        BY <3>1, <3>2
    <2>6. ptr + i \in Nat /\ ptr + max - 1 \in Nat /\ ptr <= ptr + i /\ ptr + i <= ptr + max - 1
      BY <1>u, <2>2
    <2>7. PageOf(ptr + i) = PageOf(ptr)
      BY <1>u, <2>4, <2>6, SamePage
    <2>8. ptr + i < UserEnd
      BY <2>5, <2>6, <2>7, MappedInRange DEF UserInv
    <2>9. va(i) = ptr + i
      BY <1>u, <2>6, <2>8, Wraps
    <2>10. QED
      BY <2>3, <2>5, <2>7, <2>9 DEF MayRead
  <1>5. UserType' /\ ImageExact'
    BY <1>1, SameImage
  <1>6. copy' = [op |-> "string", ptr |-> ptr, size |-> max, res |-> res]
    BY <1>1 DEF Copied
  <1>7. CopiesChecked'
    BY <1>4, <1>6 DEF CopiesChecked, PageOf
  <1>8. QED
    BY <1>1, <1>5, <1>7, CopyKeeps

LEMMA UserMemoryStep == ASSUME UserInv, [UserMemoryNext]_umVars PROVE UserInv'
  <1>1. CASE elf_load
    BY <1>1, HeaderStep
  <1>2. CASE map_section_from_header
    BY <1>2, PageStep
  <1>3. CASE SegmentDone
    BY <1>3, SegmentEnds
  <1>4. CASE UserStack
    BY <1>4, StackStep
  <1>5. ASSUME NEW ptr \in 0 .. UsizeMod - 1, NEW size \in CopySizes,
               copy_from_user(ptr, size) \/ copy_to_user(ptr, size) \/ copy_from_user_string(ptr, size)
        PROVE  UserInv'
    <2>1. size \in 0 .. UsizeMod - 1
      BY UserConstants
    <2>2. QED
      BY <1>5, <2>1, CopyFromStep, CopyToStep, CopyStringStep
  <1>6. CASE UNCHANGED umVars
    <2>1. UserType' /\ InSegment' /\ AllSegments' /\ CopyAfterLoad'
      BY <1>6 DEF umVars, UserInv, UserType, PageOK, InSegment, ToLoad, Ph, AllSegments, CopyAfterLoad
    <2>2. Loading'
      BY <1>6 DEF umVars, UserInv, Loading, LoadedPage, ToLoad, Covers, HoldsSegment, PermOf, ByteOf, verify_program_header
    <2>3. Loaded' = Loaded /\ \A a : Expected(a)' = Expected(a)
      BY <1>6 DEF umVars, Loaded, Expected
    <2>4. ImageExact' /\ WildOnlyInBss'
      BY <1>6, <2>3 DEF umVars, UserInv, ImageExact, WildOnlyInBss, PageOf, PermOf, MapEnd
    <2>5. CopiesChecked'
      BY <1>6 DEF umVars, UserInv, CopiesChecked, MayRead, MayWrite, PageOf, ByteRange
    <2>6. QED
      BY <2>1, <2>2, <2>4, <2>5 DEF UserInv
  <1>7. QED
    BY <1>1, <1>2, <1>3, <1>4, <1>5, <1>6 DEF UserMemoryNext

(* A program that elf_load has loaded is in memory as its headers say, the *)
(* loader leaves its page only where copy_end wraps, and copy_from_user,   *)
(* copy_to_user and copy_from_user_string refuse and fault as their checks *)
(* say: for every program file whose headers are naturals, every page and  *)
(* table size, user range, number of frames and slots and copy size.       *)
THEOREM UserMemoryStaysSound == UserMemorySpec => []UserMemorySound
  <1>1. UserInv => UserMemorySound
    BY DEF UserInv, UserMemorySound
  <1>2. QED
    BY <1>1, UserMemoryStart, UserMemoryStep, PTL DEF UserMemorySpec
=============================================================================
