-------------------------- MODULE StackStepProofs --------------------------
(***************************************************************************)
(* Steps of StackMappings that preserve IInv: the initial state, and the   *)
(* steps that change the tables (allocate_sized, release_sized up to its   *)
(* shootdown).  StackProofs has the shootdown itself and the theorems.     *)
(***************************************************************************)
EXTENDS StackMappings, TLAPS

\* The initial state: nothing is mapped, cached or locked (init of stacks.rs).
LEMMA InitIInv == Init => IInv
<1> SUFFICES ASSUME Init PROVE IInv
  OBVIOUS
<1>1. TypeOK
  BY StackAssumption DEF Init, TypeOK, Slots, Regions, FrameOrNone, Places
<1>2. LockOK /\ WorkOK
  BY DEF Init, LockOK, WorkOK, InMappings
<1>3. FramesOK /\ SlotsOK /\ StacksOK
  BY DEF Init, FramesOK, SlotsOK, StacksOK, Releasing, Regions
<1>4. InterruptsOK /\ CachesOK
  BY DEF Init, InterruptsOK, CachesOK
<1> QED
  BY <1>1, <1>2, <1>3, <1>4 DEF IInv

\* A slot's region is a region (stack_layout).
LEMMA RegionType == \A v \in Slots : Region(v) \in Regions
BY DEF Regions

\* Only one CPU is inside with_mappings.
LEMMA OneHolder ==
    ASSUME IInv, NEW c \in Cpus, NEW k \in Cpus, InMappings(c), InMappings(k)
    PROVE  c = k
BY DEF IInv, LockOK

\* While a CPU changes the tables (allocate_sized, release_sized before its
\* shootdown), nothing unmapped is still cached anywhere.
LEMMA NothingStale ==
    ASSUME IInv, NEW c \in Cpus, pc[c] \in {"Allocate", "Unmap"}
    PROVE  /\ \A k, d \in Cpus : ~Unflushed(k, d)
           /\ \A d \in Cpus : \A e \in tlb[d] : leaf[e[1]] = e[2]
           /\ \A d \in Cpus : \A e \in walk[d] : table[e[1]] = e[2]
<1>1. \A k, d \in Cpus : ~Unflushed(k, d)
  BY DEF IInv, LockOK, InMappings, Unflushed
<1> QED
  BY <1>1 DEF IInv, CachesOK

\* A step that leaves tables, locks, interrupts and caches alone, and moves a CPU
\* among places outside with_mappings that do not own a slot, keeps IInv
\* (StartAllocate, and the callers of the frame allocator).
LEMMA StartAllocateStep == ASSUME IInv, NEW c \in Cpus, StartAllocate(c) PROVE IInv'
<1> USE DEF StartAllocate, At, Goto, tables, locks, work, interrupt, caches
<1>0. /\ pc' = [pc EXCEPT ![c] = "TryAllocate"]
      /\ pc[c] = "Idle" /\ pc \in [Cpus -> Places]
  BY DEF IInv, TypeOK
<1>1. TypeOK'
  BY <1>0 DEF IInv, TypeOK, Places
<1>2. LockOK' /\ WorkOK'
  BY <1>0 DEF IInv, LockOK, WorkOK, InMappings
<1>3. FramesOK' /\ SlotsOK'
  BY DEF IInv, FramesOK, SlotsOK
<1>4. StacksOK'
  BY <1>0 DEF IInv, StacksOK, Releasing
<1>5. InterruptsOK'
  BY <1>0 DEF IInv, InterruptsOK
<1>6. CachesOK'
  BY <1>0 DEF IInv, CachesOK, Unflushed
<1> QED
  BY <1>1, <1>2, <1>3, <1>4, <1>5, <1>6 DEF IInv

\* release: the stack leaves its owner and is still mapped.
LEMMA StartReleaseStep ==
    ASSUME IInv, NEW c \in Cpus, NEW v \in Slots, StartRelease(c, v) PROVE IInv'
<1> USE DEF StartRelease, At, Goto, locks, interrupt, caches
<1>0. /\ pc' = [pc EXCEPT ![c] = "TryRelease"]
      /\ slot' = [slot EXCEPT ![c] = v]
      /\ pc[c] = "Idle" /\ pc \in [Cpus -> Places] /\ slot \in [Cpus -> Slots \cup {0}]
  BY DEF IInv, TypeOK
<1>1. TypeOK'
  BY <1>0 DEF IInv, TypeOK, Places
<1>2. LockOK' /\ WorkOK'
  BY <1>0 DEF IInv, LockOK, WorkOK, InMappings
<1>3. FramesOK' /\ SlotsOK'
  BY DEF IInv, FramesOK, SlotsOK
<1>4. StacksOK'
  BY <1>0 DEF IInv, StacksOK, Releasing
<1>5. InterruptsOK'
  BY <1>0 DEF IInv, InterruptsOK
<1>6. CachesOK'
  BY <1>0 DEF IInv, CachesOK, Unflushed
<1> QED
  BY <1>1, <1>2, <1>3, <1>4, <1>5, <1>6 DEF IInv

\* with_mappings: the lock was free, so nobody else is inside.
LEMMA WithMappingsStep == ASSUME IInv, NEW c \in Cpus, with_mappings(c) PROVE IInv'
<1> USE DEF At, Goto, tables, work, interrupt, caches
<1>0. PICK p \in {"Allocate", "Unmap"} :
        /\ pc' = [pc EXCEPT ![c] = p]
        /\ pc[c] \in {"TryAllocate", "TryRelease"} /\ (p = "Unmap" <=> pc[c] = "TryRelease")
        /\ ~handler[c]
  BY DEF with_mappings
<1>a. MAPPINGS = NoCpu /\ MAPPINGS' = c /\ UNCHANGED <<tables, FRAME_LOCK, work, interrupt, caches>>
  BY DEF with_mappings
<1>b. pc \in [Cpus -> Places]
  BY DEF IInv, TypeOK
<1>c. \A k \in Cpus : ~InMappings(k)
  BY <1>a, StackAssumption DEF IInv, LockOK
<1>1. TypeOK'
  BY <1>0, <1>a, <1>b DEF IInv, TypeOK, Places
<1>2. LockOK' /\ WorkOK'
  BY <1>0, <1>a, <1>b, <1>c DEF IInv, LockOK, WorkOK, InMappings
<1>3. FramesOK' /\ SlotsOK'
  BY <1>a DEF IInv, FramesOK, SlotsOK
<1>4. StacksOK'
  BY <1>0, <1>a, <1>b DEF IInv, StacksOK, Releasing
<1>5. InterruptsOK'
  BY <1>0, <1>a, <1>b DEF IInv, InterruptsOK
<1>6. CachesOK'
  BY <1>0, <1>a, <1>b DEF IInv, CachesOK, Unflushed
<1> QED
  BY <1>1, <1>2, <1>3, <1>4, <1>5, <1>6 DEF IInv
-----------------------------------------------------------------------------
(* allocate_sized *)

\* The new slot was never cached and nothing unmapped is cached either, so the
\* new page and the new table meet no stale entry.
LEMMA AllocateStep == ASSUME IInv, NEW c \in Cpus, allocate_sized(c) PROVE IInv'
<1> USE DEF At, Goto, LeaveMappings, work, interrupt, caches
<1>0. PICK f \in free : \E t \in TableChoices(NEXT, free \ {f}) :
        /\ leaf' = [leaf EXCEPT ![NEXT] = f]
        /\ table' = IF t = NoFrame THEN table ELSE [table EXCEPT ![Region(NEXT)] = t]
        /\ free' = free \ {f, t}
  BY DEF allocate_sized
<1>1. PICK t \in TableChoices(NEXT, free \ {f}) :
        /\ leaf' = [leaf EXCEPT ![NEXT] = f]
        /\ table' = IF t = NoFrame THEN table ELSE [table EXCEPT ![Region(NEXT)] = t]
        /\ free' = free \ {f, t}
  BY <1>0
<1>2. /\ pc[c] = "Allocate" /\ ~handler[c]
      /\ NEXT \in Slots /\ NEXT' = NEXT + 1 /\ NEXT' \in 1 .. LIMIT + 1
      /\ stacks' = stacks \cup {NEXT}
      /\ MAPPINGS' = NoCpu /\ pc' = [pc EXCEPT ![c] = "Idle"]
      /\ UNCHANGED <<FRAME_LOCK, slot, pages, todo, ipi, ACK, handler, tlb, walk>>
  BY StackAssumption DEF allocate_sized, IInv, TypeOK, Slots
<1> DEFINE r == Region(NEXT)
<1>3. /\ f \in Frames /\ f # NoFrame /\ r \in Regions
      /\ leaf \in [Slots -> FrameOrNone] /\ table \in [Regions -> FrameOrNone]
      /\ pc \in [Cpus -> Places] /\ free \subseteq Frames
  BY <1>2, RegionType, StackAssumption DEF IInv, TypeOK
<1>4. /\ table[r] = NoFrame => t \in free \ {f} /\ t # NoFrame
      /\ table[r] # NoFrame => t = NoFrame
  BY <1>3, StackAssumption DEF TableChoices
<1>5. leaf[NEXT] = NoFrame /\ NEXT \notin stacks
  BY <1>2 DEF IInv, SlotsOK, TypeOK
<1>6. /\ \A v \in Slots : leaf'[v] = IF v = NEXT THEN f ELSE leaf[v]
      /\ \A q \in Regions : table'[q] = IF q = r /\ t # NoFrame THEN t ELSE table[q]
      /\ \A k \in Cpus : pc'[k] = IF k = c THEN "Idle" ELSE pc[k]
      /\ table'[r] # NoFrame
  BY <1>1, <1>2, <1>3, <1>4
<1>7. \A k \in Cpus : InMappings(k) => k = c
  BY <1>2 DEF IInv, LockOK, InMappings
<1>8. /\ \A d \in Cpus : \A e \in tlb[d] : leaf[e[1]] = e[2] /\ e[2] # NoFrame /\ e[1] \in Slots
      /\ \A d \in Cpus : \A e \in walk[d] : table[e[1]] = e[2] /\ e[2] # NoFrame /\ e[1] \in Regions
  BY <1>2, NothingStale, StackAssumption DEF IInv, TypeOK
<1> HIDE DEF r
<1>10. TypeOK'
  <2>1. leaf' \in [Slots -> FrameOrNone] /\ free' \subseteq Frames /\ pc' \in [Cpus -> Places]
    BY <1>1, <1>2, <1>3 DEF FrameOrNone, Places
  <2>2. table' \in [Regions -> FrameOrNone]
    BY <1>1, <1>3, <1>4 DEF FrameOrNone, r
  <2>3. stacks' \subseteq Slots
    BY <1>2 DEF IInv, TypeOK
  <2> QED
    BY <1>2, <2>1, <2>2, <2>3 DEF IInv, TypeOK
<1>11. LockOK' /\ WorkOK'
  <2>1. LockOK'
    BY <1>6, <1>7 DEF LockOK, InMappings
  <2>2. pages[c] = {} /\ todo[c] = {}
    BY <1>2 DEF IInv, WorkOK
  <2> QED
    BY <1>2, <1>6, <2>1, <2>2 DEF IInv, WorkOK
<1>12. FramesOK'
  <2>1. ASSUME NEW v \in Slots, leaf'[v] # NoFrame
        PROVE  /\ leaf'[v] \notin free'
               /\ \A w \in Slots : leaf'[w] = leaf'[v] => w = v
               /\ \A q \in Regions : table'[q] # leaf'[v]
               /\ \A k \in Cpus : leaf'[v] \notin pages'[k]
    BY <1>1, <1>2, <1>3, <1>4, <1>6, <2>1 DEF IInv, FramesOK
  <2>2. ASSUME NEW q \in Regions, table'[q] # NoFrame
        PROVE  /\ table'[q] \notin free'
               /\ \A p \in Regions : table'[p] = table'[q] => p = q
               /\ \A k \in Cpus : table'[q] \notin pages'[k]
    BY <1>1, <1>2, <1>3, <1>4, <1>6, <2>2 DEF IInv, FramesOK
  <2>3. \A k \in Cpus : pages'[k] \cap free' = {}
    BY <1>1, <1>2 DEF IInv, FramesOK
  <2> QED
    BY <2>1, <2>2, <2>3 DEF FramesOK
<1>13. SlotsOK'
  BY <1>2, <1>4, <1>6, RegionType DEF IInv, SlotsOK, TypeOK, Slots, r
<1>14. StacksOK'
  <2>1. \A v \in stacks' : leaf'[v] # NoFrame
    BY <1>2, <1>3, <1>6 DEF IInv, StacksOK, TypeOK
  <2>2. \A k \in Cpus : Releasing(k)' => Releasing(k)
    BY <1>6 DEF Releasing
  <2>3. ASSUME NEW k \in Cpus, Releasing(k)'
        PROVE  /\ slot'[k] \in Slots \ stacks'
               /\ leaf'[slot'[k]] # NoFrame
               /\ \A d \in Cpus : Releasing(d)' /\ slot'[d] = slot'[k] => d = k
    <3>1. /\ slot[k] \in Slots \ stacks /\ leaf[slot[k]] # NoFrame
          /\ \A d \in Cpus : Releasing(d) /\ slot[d] = slot[k] => d = k
      BY <2>2, <2>3 DEF IInv, StacksOK
    <3>2. slot' = slot /\ slot[k] # NEXT
      BY <1>2, <1>5, <3>1
    <3> QED
      BY <1>2, <1>6, <2>2, <3>1, <3>2
  <2> QED
    BY <2>1, <2>3 DEF StacksOK
<1>15. InterruptsOK'
  BY <1>2, <1>6 DEF IInv, InterruptsOK
<1>16. CachesOK'
  BY <1>2, <1>4, <1>5, <1>6, <1>8 DEF CachesOK
<1> QED
  BY <1>10, <1>11, <1>12, <1>13, <1>14, <1>15, <1>16 DEF IInv

-----------------------------------------------------------------------------
(* release_sized *)

\* unmap and detach_empty: what leaves the tables is on its way back, and the
\* shootdown that starts here is still to reach every cache.
LEMMA UnmapStep == ASSUME IInv, NEW c \in Cpus, Unmap(c) PROVE IInv'
<1> USE DEF At, Goto, locks, interrupt, caches
<1> DEFINE v == slot[c]
           r == Region(v)
<1>1. /\ pc[c] = "Unmap" /\ ~handler[c]
      /\ leaf' = [leaf EXCEPT ![v] = NoFrame]
      /\ pc' = [pc EXCEPT ![c] = "Invalidate"]
      /\ UNCHANGED <<NEXT, free, stacks, MAPPINGS, FRAME_LOCK, slot, todo, ipi, ACK, handler, tlb, walk>>
  BY DEF Unmap
<1>2. /\ v \in Slots /\ r \in Regions /\ v \notin stacks
      /\ leaf[v] # NoFrame /\ table[r] # NoFrame
      /\ leaf \in [Slots -> FrameOrNone] /\ table \in [Regions -> FrameOrNone]
      /\ pc \in [Cpus -> Places] /\ pages \in [Cpus -> SUBSET Frames]
  BY <1>1, RegionType DEF IInv, TypeOK, StacksOK, Releasing, SlotsOK
<1>3. leaf[v] \in Frames /\ table[r] \in Frames
  BY <1>2 DEF FrameOrNone
<1>4. PICK last \in BOOLEAN :
        /\ last = LastOfRegion(v)
        /\ table' = IF last THEN [table EXCEPT ![r] = NoFrame] ELSE table
        /\ pages' = [pages EXCEPT ![c] = IF last THEN {leaf[v], table[r]} ELSE {leaf[v]}]
  BY DEF Unmap, LastOfRegion
<1>5. /\ \A w \in Slots : leaf'[w] = IF w = v THEN NoFrame ELSE leaf[w]
      /\ \A q \in Regions : table'[q] = IF q = r /\ last THEN NoFrame ELSE table[q]
      /\ \A k \in Cpus : pc'[k] = IF k = c THEN "Invalidate" ELSE pc[k]
      /\ \A k \in Cpus : pages'[k] = IF k # c THEN pages[k]
                                     ELSE IF last THEN {leaf[v], table[r]} ELSE {leaf[v]}
  BY <1>1, <1>2, <1>4
<1>6. /\ \A d \in Cpus : \A e \in tlb[d] : leaf[e[1]] = e[2] /\ e[1] \in Slots
      /\ \A d \in Cpus : \A e \in walk[d] : table[e[1]] = e[2] /\ e[1] \in Regions
  BY <1>1, NothingStale DEF IInv, TypeOK
<1>7. last => \A w \in Slots \ {v} : Region(w) = r => leaf[w] = NoFrame
  BY <1>4 DEF LastOfRegion
<1> HIDE DEF v, r
<1>10. TypeOK'
  <2>1. leaf' \in [Slots -> FrameOrNone] /\ pc' \in [Cpus -> Places]
    BY <1>1, <1>2 DEF FrameOrNone, Places
  <2>2. table' \in [Regions -> FrameOrNone] /\ pages' \in [Cpus -> SUBSET Frames]
    BY <1>2, <1>3, <1>4 DEF FrameOrNone
  <2> QED
    BY <1>1, <2>1, <2>2 DEF IInv, TypeOK
<1>11. LockOK' /\ WorkOK'
  BY <1>1, <1>5 DEF IInv, LockOK, WorkOK, InMappings
<1>12. FramesOK'
  <2>1. ASSUME NEW w \in Slots, leaf'[w] # NoFrame
        PROVE  /\ leaf'[w] \notin free'
               /\ \A u \in Slots : leaf'[u] = leaf'[w] => u = w
               /\ \A q \in Regions : table'[q] # leaf'[w]
               /\ \A k \in Cpus : leaf'[w] \notin pages'[k]
    BY <1>1, <1>2, <1>5, <2>1 DEF IInv, FramesOK
  <2>2. ASSUME NEW q \in Regions, table'[q] # NoFrame
        PROVE  /\ table'[q] \notin free'
               /\ \A p \in Regions : table'[p] = table'[q] => p = q
               /\ \A k \in Cpus : table'[q] \notin pages'[k]
    BY <1>1, <1>2, <1>5, <2>2 DEF IInv, FramesOK
  <2>3. \A k \in Cpus : pages'[k] \cap free' = {}
    BY <1>1, <1>2, <1>5 DEF IInv, FramesOK
  <2> QED
    BY <2>1, <2>2, <2>3 DEF FramesOK
<1>13. SlotsOK'
  BY <1>1, <1>2, <1>5, <1>7, RegionType DEF IInv, SlotsOK
<1>14. StacksOK'
  <2>1. ASSUME NEW k \in Cpus, Releasing(k)' PROVE k # c /\ Releasing(k) /\ slot[k] # v
    <3>1. k # c /\ Releasing(k)
      BY <1>5, <2>1 DEF Releasing
    <3>2. Releasing(c)
      BY <1>1 DEF Releasing
    <3> QED
      BY <3>1, <3>2 DEF IInv, StacksOK, v
  <2>2. stacks' = stacks /\ slot' = slot /\ stacks \subseteq Slots
    BY <1>1 DEF IInv, TypeOK
  <2>3. \A w \in stacks : leaf'[w] # NoFrame
    BY <1>2, <1>5, <2>2 DEF IInv, StacksOK
  <2>4. ASSUME NEW k \in Cpus, Releasing(k)'
        PROVE  /\ slot'[k] \in Slots \ stacks'
               /\ leaf'[slot'[k]] # NoFrame
               /\ \A d \in Cpus : Releasing(d)' /\ slot'[d] = slot'[k] => d = k
    <3>1. Releasing(k) /\ slot[k] # v
      BY <2>1, <2>4
    <3>2. /\ slot[k] \in Slots \ stacks /\ leaf[slot[k]] # NoFrame
          /\ \A d \in Cpus : Releasing(d) /\ slot[d] = slot[k] => d = k
      BY <3>1 DEF IInv, StacksOK
    <3>3. \A d \in Cpus : Releasing(d)' => Releasing(d)
      BY <2>1
    <3> QED
      BY <1>5, <2>2, <3>1, <3>2, <3>3
  <2> QED
    BY <2>2, <2>3, <2>4 DEF StacksOK
<1>15. InterruptsOK'
  BY <1>1, <1>5 DEF IInv, InterruptsOK
<1>16. CachesOK'
  <2>1. \A d \in Cpus : Unflushed(c, d)'
    BY <1>5 DEF Unflushed
  <2>2. leaf[v] \in pages'[c] /\ (last => table[r] \in pages'[c])
    BY <1>5
  <2> QED
    BY <1>1, <1>5, <1>6, <2>1, <2>2 DEF CachesOK
<1> QED
  BY <1>10, <1>11, <1>12, <1>13, <1>14, <1>15, <1>16 DEF IInv

=============================================================================
