---------------------------- MODULE StackProofs ----------------------------
(***************************************************************************)
(* Proofs about StackMappings: Spec => []IInv for any number of CPUs,      *)
(* frames and slots, and with either kind of shootdown.  StackStepProofs   *)
(* has the steps that change the tables.                                   *)
(***************************************************************************)
EXTENDS StackStepProofs

\* invalidate: by broadcast every cache is empty; by interrupt this CPU's is, and
\* all others are still to be told.
LEMMA InvalidateStep == ASSUME IInv, NEW c \in Cpus, invalidate(c) PROVE IInv'
<1> USE DEF At, Goto, tables, locks, interrupt
<1>1. /\ pc[c] = "Invalidate" /\ ~handler[c]
      /\ pc' = [pc EXCEPT ![c] = IF Ipi THEN "Send" ELSE "Free"]
      /\ todo' = [todo EXCEPT ![c] = IF Ipi THEN Cpus \ {c} ELSE {}]
      /\ UNCHANGED <<NEXT, leaf, table, free, stacks, MAPPINGS, FRAME_LOCK, slot, pages, ipi, ACK, handler>>
  BY DEF invalidate
<1>2. /\ tlb' = [k \in Cpus |-> IF ~Ipi \/ k = c THEN {} ELSE tlb[k]]
      /\ walk' = [k \in Cpus |-> IF ~Ipi \/ k = c THEN {} ELSE walk[k]]
  BY DEF invalidate, Flushed
<1>3. /\ pc \in [Cpus -> Places] /\ todo \in [Cpus -> SUBSET Cpus]
      /\ \A k \in Cpus : pc'[k] = IF k # c THEN pc[k] ELSE IF Ipi THEN "Send" ELSE "Free"
      /\ \A k \in Cpus : todo'[k] = IF k # c THEN todo[k] ELSE IF Ipi THEN Cpus \ {c} ELSE {}
  BY <1>1 DEF IInv, TypeOK
<1>4. \A k \in Cpus : InMappings(k) => k = c
  BY <1>1 DEF IInv, LockOK, InMappings
<1>10. TypeOK'
  <2>1. pc' \in [Cpus -> Places] /\ todo' \in [Cpus -> SUBSET Cpus]
    BY <1>1, <1>3 DEF Places
  <2>2. tlb' \in [Cpus -> SUBSET (Slots \X Frames)] /\ walk' \in [Cpus -> SUBSET (Regions \X Frames)]
    BY <1>2 DEF IInv, TypeOK
  <2> QED
    BY <1>1, <2>1, <2>2 DEF IInv, TypeOK
<1>11. LockOK' /\ WorkOK'
  BY <1>1, <1>3 DEF IInv, LockOK, WorkOK, InMappings
<1>12. FramesOK' /\ SlotsOK'
  BY <1>1 DEF IInv, FramesOK, SlotsOK
<1>13. StacksOK'
  BY <1>1, <1>3 DEF IInv, StacksOK, Releasing
<1>14. InterruptsOK'
  <2>1. \A d \in Cpus : ~ipi[d] /\ ~handler[d]
    BY <1>1, <1>4 DEF IInv, InterruptsOK, InMappings
  <2> QED
    BY <1>1, <2>1 DEF InterruptsOK
<1>15. CachesOK'
  <2>1. \A k, d \in Cpus : Unflushed(k, d) => k = c
    BY <1>4 DEF Unflushed, InMappings
  <2>2. \A d \in Cpus : Ipi /\ d # c => Unflushed(c, d)'
    BY <1>3 DEF Unflushed
  <2>3. ASSUME NEW d \in Cpus, NEW e \in tlb'[d]
        PROVE  \/ leaf'[e[1]] = e[2]
               \/ leaf'[e[1]] = NoFrame /\ \E k \in Cpus : e[2] \in pages'[k] /\ Unflushed(k, d)'
    <3>1. Ipi /\ d # c /\ e \in tlb[d]
      BY <1>2, <2>3
    <3> QED
      BY <1>1, <2>1, <2>2, <3>1 DEF IInv, CachesOK
  <2>4. ASSUME NEW d \in Cpus, NEW e \in walk'[d]
        PROVE  \/ table'[e[1]] = e[2]
               \/ table'[e[1]] = NoFrame /\ \E k \in Cpus : e[2] \in pages'[k] /\ Unflushed(k, d)'
    <3>1. Ipi /\ d # c /\ e \in walk[d]
      BY <1>2, <2>4
    <3> QED
      BY <1>1, <2>1, <2>2, <3>1 DEF IInv, CachesOK
  <2> QED
    BY <2>3, <2>4 DEF CachesOK
<1> QED
  BY <1>10, <1>11, <1>12, <1>13, <1>14, <1>15 DEF IInv

\* invalidate_shared sends an interrupt: the CPU had none pending, and from here
\* on the flag it clears stands for this shootdown.
LEMMA SendIpiStep ==
    ASSUME IInv, NEW c \in Cpus, NEW d \in Cpus, SendIpi(c, d) PROVE IInv'
<1> USE DEF At, tables, locks, caches
<1>1. /\ pc[c] = "Send" /\ ~handler[c] /\ d \in todo[c]
      /\ ACK' = [ACK EXCEPT ![d] = FALSE]
      /\ ipi' = [ipi EXCEPT ![d] = TRUE]
      /\ todo' = [todo EXCEPT ![c] = todo[c] \ {d}]
      /\ UNCHANGED <<NEXT, leaf, table, free, stacks, MAPPINGS, FRAME_LOCK, pc, slot, pages, handler, tlb, walk>>
  BY DEF SendIpi
<1>2. /\ ipi \in [Cpus -> BOOLEAN] /\ ACK \in [Cpus -> BOOLEAN] /\ todo \in [Cpus -> SUBSET Cpus]
      /\ \A k \in Cpus : todo'[k] = IF k = c THEN todo[c] \ {d} ELSE todo[k]
      /\ \A k \in Cpus : ipi'[k] <=> k = d \/ ipi[k]
      /\ \A k \in Cpus : ACK'[k] <=> k # d /\ ACK[k]
      /\ d # c
  BY <1>1 DEF IInv, TypeOK, WorkOK
<1>3. \A k \in Cpus : InMappings(k) => k = c
  BY <1>1 DEF IInv, LockOK, InMappings
<1>4. ~handler[d]
  BY <1>1, <1>3 DEF IInv, InterruptsOK, InMappings
<1>10. TypeOK'
  <2>1. ipi' \in [Cpus -> BOOLEAN] /\ ACK' \in [Cpus -> BOOLEAN]
    BY <1>1, <1>2, Zenon
  <2>2. todo' \in [Cpus -> SUBSET Cpus]
    BY <1>1, <1>2
  <2> QED
    BY <1>1, <2>1, <2>2 DEF IInv, TypeOK
<1>11. LockOK' /\ WorkOK'
  BY <1>1, <1>2 DEF IInv, LockOK, WorkOK, InMappings
<1>12. FramesOK' /\ SlotsOK' /\ StacksOK'
  BY <1>1 DEF IInv, FramesOK, SlotsOK, StacksOK, Releasing
<1>13. InterruptsOK'
  <2>1. ASSUME NEW k \in Cpus, k # d, ipi'[k] \/ handler'[k]
        PROVE  ~ACK'[k] /\ \E j \in Cpus \ {k} : pc'[j] = "Send" /\ k \notin todo'[j]
    <3>1. ipi[k] \/ handler[k]
      BY <1>1, <1>2, <2>1
    <3> QED
      BY <1>1, <1>2, <2>1, <3>1 DEF IInv, InterruptsOK
  <2>2. ~ACK'[d] /\ \E j \in Cpus \ {d} : pc'[j] = "Send" /\ d \notin todo'[j]
    BY <1>1, <1>2
  <2>3. \A k \in Cpus : ~(ipi'[k] /\ handler'[k])
    BY <1>1, <1>2, <1>4 DEF IInv, InterruptsOK
  <2> QED
    BY <2>1, <2>2, <2>3 DEF InterruptsOK
<1>14. CachesOK'
  <2>1. \A k, e \in Cpus : Unflushed(k, e) => Unflushed(k, e)'
    BY <1>1, <1>2 DEF Unflushed
  <2> QED
    BY <1>1, <2>1 DEF IInv, CachesOK
<1> QED
  BY <1>10, <1>11, <1>12, <1>13, <1>14 DEF IInv

\* invalidate_shared ends: an answered interrupt is not pending, so no cache
\* waits to be flushed.
LEMMA AllAckedStep == ASSUME IInv, NEW c \in Cpus, AllAcked(c) PROVE IInv'
<1> USE DEF At, Goto, tables, locks, work, interrupt, caches
<1>1. /\ pc[c] = "Send" /\ ~handler[c] /\ todo[c] = {}
      /\ \A k \in Cpus \ {c} : ACK[k]
      /\ pc' = [pc EXCEPT ![c] = "Free"]
      /\ UNCHANGED <<tables, locks, work, interrupt, caches>>
  BY DEF AllAcked
<1>2. /\ pc \in [Cpus -> Places]
      /\ \A k \in Cpus : pc'[k] = IF k = c THEN "Free" ELSE pc[k]
  BY <1>1 DEF IInv, TypeOK
<1>3. \A k \in Cpus : InMappings(k) => k = c
  BY <1>1 DEF IInv, LockOK, InMappings
<1>4. \A d \in Cpus : ~ipi[d] /\ ~handler[d]
  BY <1>1, <1>3 DEF IInv, InterruptsOK, InMappings
<1>10. TypeOK'
  BY <1>1, <1>2 DEF IInv, TypeOK, Places
<1>11. LockOK' /\ WorkOK'
  BY <1>1, <1>2 DEF IInv, LockOK, WorkOK, InMappings
<1>12. FramesOK' /\ SlotsOK'
  BY <1>1 DEF IInv, FramesOK, SlotsOK
<1>13. StacksOK'
  BY <1>1, <1>2 DEF IInv, StacksOK, Releasing
<1>14. InterruptsOK'
  BY <1>1, <1>4 DEF InterruptsOK
<1>15. CachesOK'
  <2>1. \A k, d \in Cpus : ~Unflushed(k, d)
    BY <1>1, <1>3, <1>4 DEF Unflushed, InMappings
  <2> QED
    BY <1>1, <2>1 DEF IInv, CachesOK
<1> QED
  BY <1>10, <1>11, <1>12, <1>13, <1>14, <1>15 DEF IInv

\* deallocate_frame: at this point the caches hold only what is in the tables.
LEMMA FreeFramesStep == ASSUME IInv, NEW c \in Cpus, FreeFrames(c) PROVE IInv'
<1> USE DEF At, Goto, LeaveMappings, interrupt, caches
<1>1. /\ pc[c] = "Free" /\ ~handler[c]
      /\ free' = free \cup pages[c]
      /\ pages' = [pages EXCEPT ![c] = {}]
      /\ MAPPINGS' = NoCpu /\ pc' = [pc EXCEPT ![c] = "Idle"]
      /\ UNCHANGED <<NEXT, leaf, table, stacks, FRAME_LOCK, slot, todo, ipi, ACK, handler, tlb, walk>>
  BY DEF FreeFrames
<1>2. /\ pc \in [Cpus -> Places] /\ pages \in [Cpus -> SUBSET Frames]
      /\ \A k \in Cpus : pc'[k] = IF k = c THEN "Idle" ELSE pc[k]
      /\ \A k \in Cpus : pages'[k] = IF k = c THEN {} ELSE pages[k]
  BY <1>1 DEF IInv, TypeOK
<1>3. \A k \in Cpus : InMappings(k) => k = c
  BY <1>1 DEF IInv, LockOK, InMappings
<1>4. \A k \in Cpus : k # c => pages[k] = {}
  BY <1>3 DEF IInv, WorkOK, InMappings
<1>10. TypeOK'
  <2>1. pc' \in [Cpus -> Places] /\ pages' \in [Cpus -> SUBSET Frames] /\ free' \subseteq Frames
    BY <1>1, <1>2 DEF Places, IInv, TypeOK
  <2> QED
    BY <1>1, <2>1 DEF IInv, TypeOK
<1>11. LockOK' /\ WorkOK'
  BY <1>1, <1>2, <1>3 DEF IInv, LockOK, WorkOK, InMappings
<1>12. FramesOK'
  BY <1>1, <1>2, <1>4 DEF IInv, FramesOK
<1>13. SlotsOK'
  BY <1>1 DEF IInv, SlotsOK
<1>14. StacksOK'
  BY <1>1, <1>2 DEF IInv, StacksOK, Releasing
<1>15. InterruptsOK'
  BY <1>1, <1>2 DEF IInv, InterruptsOK
<1>16. CachesOK'
  <2>1. \A k, d \in Cpus : ~Unflushed(k, d)
    BY <1>1, <1>3 DEF Unflushed, InMappings
  <2> QED
    BY <1>1, <2>1 DEF IInv, CachesOK
<1> QED
  BY <1>10, <1>11, <1>12, <1>13, <1>14, <1>15, <1>16 DEF IInv

-----------------------------------------------------------------------------
(* The interrupt, the rest, and the theorems *)

\* tlb_handler flushes this CPU's caches before it answers.
LEMMA HandlerStep == ASSUME IInv, NEW c \in Cpus, tlb_handler(c) PROVE IInv'
<1> USE DEF tables, locks, work
<1>1. /\ ipi[c] /\ ~handler[c] /\ pc[c] \in {"Idle", "TryAllocate", "TryRelease"}
      /\ ipi' = [ipi EXCEPT ![c] = FALSE]
      /\ handler' = [handler EXCEPT ![c] = TRUE]
      /\ tlb' = [k \in Cpus |-> IF k = c THEN {} ELSE tlb[k]]
      /\ walk' = [k \in Cpus |-> IF k = c THEN {} ELSE walk[k]]
      /\ UNCHANGED <<NEXT, leaf, table, free, stacks, MAPPINGS, FRAME_LOCK, pc, slot, pages, todo, ACK>>
  BY DEF tlb_handler, Interruptible, At, Flushed
<1>2. /\ ipi \in [Cpus -> BOOLEAN] /\ handler \in [Cpus -> BOOLEAN]
      /\ \A k \in Cpus : ipi'[k] <=> k # c /\ ipi[k]
      /\ \A k \in Cpus : handler'[k] <=> k = c \/ handler[k]
  BY <1>1 DEF IInv, TypeOK
<1>10. TypeOK'
  <2>1. ipi' \in [Cpus -> BOOLEAN] /\ handler' \in [Cpus -> BOOLEAN]
    BY <1>1, <1>2, Zenon
  <2>2. tlb' \in [Cpus -> SUBSET (Slots \X Frames)] /\ walk' \in [Cpus -> SUBSET (Regions \X Frames)]
    BY <1>1 DEF IInv, TypeOK
  <2> QED
    BY <1>1, <2>1, <2>2 DEF IInv, TypeOK
<1>11. LockOK' /\ WorkOK'
  BY <1>1, <1>2 DEF IInv, LockOK, WorkOK, InMappings
<1>12. FramesOK' /\ SlotsOK' /\ StacksOK'
  BY <1>1 DEF IInv, FramesOK, SlotsOK, StacksOK, Releasing
<1>13. InterruptsOK'
  <2>1. ASSUME NEW k \in Cpus, ipi'[k] \/ handler'[k]
        PROVE  ~ACK'[k] /\ \E j \in Cpus \ {k} : pc'[j] = "Send" /\ k \notin todo'[j]
    <3>1. ipi[k] \/ handler[k]
      BY <1>1, <1>2, <2>1
    <3> QED
      BY <1>1, <3>1 DEF IInv, InterruptsOK
  <2>2. \A k \in Cpus : ~(ipi'[k] /\ handler'[k])
    BY <1>1, <1>2 DEF IInv, InterruptsOK
  <2> QED
    BY <2>1, <2>2 DEF InterruptsOK
<1>14. CachesOK'
  <2>1. \A k, d \in Cpus : d # c /\ Unflushed(k, d) => Unflushed(k, d)'
    BY <1>1, <1>2 DEF Unflushed
  <2>2. \A d \in Cpus : d # c => tlb'[d] = tlb[d] /\ walk'[d] = walk[d]
    BY <1>1
  <2>3. tlb'[c] = {} /\ walk'[c] = {}
    BY <1>1
  <2> QED
    BY <1>1, <2>1, <2>2, <2>3 DEF IInv, CachesOK
<1> QED
  BY <1>10, <1>11, <1>12, <1>13, <1>14 DEF IInv

\* tlb_handler answers: its interrupt is no longer pending.
LEMMA AckStep == ASSUME IInv, NEW c \in Cpus, TlbAck(c) PROVE IInv'
<1> USE DEF tables, locks, work, caches
<1>1. /\ handler[c]
      /\ handler' = [handler EXCEPT ![c] = FALSE]
      /\ ACK' = [ACK EXCEPT ![c] = TRUE]
      /\ UNCHANGED <<NEXT, leaf, table, free, stacks, MAPPINGS, FRAME_LOCK, pc, slot, pages, todo, ipi, tlb, walk>>
  BY DEF TlbAck
<1>2. /\ ACK \in [Cpus -> BOOLEAN] /\ handler \in [Cpus -> BOOLEAN]
      /\ \A k \in Cpus : ACK'[k] <=> k = c \/ ACK[k]
      /\ \A k \in Cpus : handler'[k] <=> k # c /\ handler[k]
      /\ ~ipi[c]
  BY <1>1 DEF IInv, TypeOK, InterruptsOK
<1>10. TypeOK'
  <2>1. ACK' \in [Cpus -> BOOLEAN] /\ handler' \in [Cpus -> BOOLEAN]
    BY <1>1, <1>2, Zenon
  <2> QED
    BY <1>1, <2>1 DEF IInv, TypeOK
<1>11. LockOK' /\ WorkOK'
  BY <1>1, <1>2 DEF IInv, LockOK, WorkOK, InMappings
<1>12. FramesOK' /\ SlotsOK' /\ StacksOK'
  BY <1>1 DEF IInv, FramesOK, SlotsOK, StacksOK, Releasing
<1>13. InterruptsOK'
  BY <1>1, <1>2 DEF IInv, InterruptsOK
<1>14. CachesOK'
  BY <1>1 DEF IInv, CachesOK, Unflushed
<1> QED
  BY <1>10, <1>11, <1>12, <1>13, <1>14 DEF IInv

\* Other users of the frame allocator touch nothing of this.
LEMMA FrameAllocatorStep ==
    ASSUME IInv, NEW c \in Cpus, with_frame_allocator(c) PROVE IInv'
<1> USE DEF At, Goto, tables, work, interrupt, caches
<1>1. PICK p \in {"FrameSpin", "InFrames", "Idle"} :
      /\ pc[c] \in {"Idle", "FrameSpin", "InFrames"} /\ ~handler[c]
      /\ pc' = [pc EXCEPT ![c] = p]
      /\ FRAME_LOCK' \in {FRAME_LOCK, c, NoCpu}
      /\ UNCHANGED <<tables, MAPPINGS, work, interrupt, caches>>
  BY DEF with_frame_allocator
<1>2. /\ pc \in [Cpus -> Places]
      /\ \A k \in Cpus : pc'[k] = IF k = c THEN p ELSE pc[k]
  BY <1>1 DEF IInv, TypeOK
<1>10. TypeOK'
  BY <1>1, <1>2 DEF IInv, TypeOK, Places
<1>11. LockOK' /\ WorkOK'
  BY <1>1, <1>2 DEF IInv, LockOK, WorkOK, InMappings
<1>12. FramesOK' /\ SlotsOK'
  BY <1>1 DEF IInv, FramesOK, SlotsOK
<1>13. StacksOK'
  BY <1>1, <1>2 DEF IInv, StacksOK, Releasing
<1>14. InterruptsOK'
  BY <1>1, <1>2 DEF IInv, InterruptsOK
<1>15. CachesOK'
  BY <1>1, <1>2 DEF IInv, CachesOK, Unflushed
<1> QED
  BY <1>10, <1>11, <1>12, <1>13, <1>14, <1>15 DEF IInv

\* What a page walker caches is in the tables.
LEMMA FillStep == ASSUME IInv, NEW c \in Cpus, NEW v \in Slots, Fill(c, v) PROVE IInv'
<1> USE DEF tables, locks, work, interrupt
<1> DEFINE r == Region(v)
<1>1. /\ table[r] # NoFrame
      /\ walk' = [walk EXCEPT ![c] = walk[c] \cup {<<r, table[r]>>}]
      /\ tlb' = IF leaf[v] = NoFrame THEN tlb
                ELSE [tlb EXCEPT ![c] = tlb[c] \cup {<<v, leaf[v]>>}]
      /\ UNCHANGED <<tables, locks, pc, work, interrupt>>
  BY DEF Fill
<1>2. /\ r \in Regions /\ table[r] \in Frames
      /\ leaf[v] # NoFrame => leaf[v] \in Frames
      /\ tlb \in [Cpus -> SUBSET (Slots \X Frames)] /\ walk \in [Cpus -> SUBSET (Regions \X Frames)]
  BY <1>1, RegionType DEF IInv, TypeOK, FrameOrNone
<1> HIDE DEF r
<1>10. TypeOK'
  <2>1. tlb' \in [Cpus -> SUBSET (Slots \X Frames)] /\ walk' \in [Cpus -> SUBSET (Regions \X Frames)]
    BY <1>1, <1>2
  <2> QED
    BY <1>1, <2>1 DEF IInv, TypeOK
<1>11. LockOK' /\ WorkOK' /\ InterruptsOK'
  BY <1>1 DEF IInv, LockOK, WorkOK, InMappings, InterruptsOK
<1>12. FramesOK' /\ SlotsOK' /\ StacksOK'
  BY <1>1 DEF IInv, FramesOK, SlotsOK, StacksOK, Releasing
<1>13. CachesOK'
  <2>1. \A d \in Cpus : \A e \in tlb'[d] : e \in tlb[d] \/ leaf[e[1]] = e[2]
    BY <1>1, <1>2
  <2>2. \A d \in Cpus : \A e \in walk'[d] : e \in walk[d] \/ table[e[1]] = e[2]
    BY <1>1, <1>2
  <2>3. \A k, d \in Cpus : Unflushed(k, d) => Unflushed(k, d)'
    BY <1>1 DEF Unflushed
  <2>4. ASSUME NEW d \in Cpus, NEW e \in tlb'[d]
        PROVE  \/ leaf'[e[1]] = e[2]
               \/ leaf'[e[1]] = NoFrame /\ \E k \in Cpus : e[2] \in pages'[k] /\ Unflushed(k, d)'
    BY <1>1, <2>1, <2>3 DEF IInv, CachesOK
  <2>5. ASSUME NEW d \in Cpus, NEW e \in walk'[d]
        PROVE  \/ table'[e[1]] = e[2]
               \/ table'[e[1]] = NoFrame /\ \E k \in Cpus : e[2] \in pages'[k] /\ Unflushed(k, d)'
    BY <1>1, <2>2, <2>3 DEF IInv, CachesOK
  <2> QED
    BY <2>4, <2>5 DEF CachesOK
<1> QED
  BY <1>10, <1>11, <1>12, <1>13 DEF IInv

\* A step that changes nothing keeps the invariant.
LEMMA StutterStep == ASSUME IInv, UNCHANGED vars PROVE IInv'
<1> USE DEF vars, tables, locks, work, interrupt, caches
<1>1. TypeOK'
  BY DEF IInv, TypeOK
<1>2. LockOK' /\ WorkOK'
  BY DEF IInv, LockOK, WorkOK, InMappings
<1>3. FramesOK' /\ SlotsOK'
  BY DEF IInv, FramesOK, SlotsOK
<1>4. StacksOK' /\ InterruptsOK'
  BY DEF IInv, StacksOK, Releasing, InterruptsOK
<1>5. CachesOK'
  BY DEF IInv, CachesOK, Unflushed
<1> QED
  BY <1>1, <1>2, <1>3, <1>4, <1>5 DEF IInv

\* The inductive invariant holds in every reachable state of stack allocation,
\* release and shootdown, for all CPUs, frames and slots.
THEOREM Invariance == Spec => []IInv
<1>1. IInv /\ [Next]_vars => IInv'
  <2> SUFFICES ASSUME IInv, [Next]_vars PROVE IInv'
    OBVIOUS
  <2>1. CASE UNCHANGED vars
    BY <2>1, StutterStep
  <2>2. ASSUME NEW c \in Cpus, StartAllocate(c) PROVE IInv'
    BY <2>2, StartAllocateStep
  <2>3. ASSUME NEW c \in Cpus, NEW v \in Slots, StartRelease(c, v) PROVE IInv'
    BY <2>3, StartReleaseStep
  <2>4. ASSUME NEW c \in Cpus, with_mappings(c) PROVE IInv'
    BY <2>4, WithMappingsStep
  <2>5. ASSUME NEW c \in Cpus, allocate_sized(c) PROVE IInv'
    BY <2>5, AllocateStep
  <2>6. ASSUME NEW c \in Cpus, Unmap(c) PROVE IInv'
    BY <2>6, UnmapStep
  <2>7. ASSUME NEW c \in Cpus, invalidate(c) PROVE IInv'
    BY <2>7, InvalidateStep
  <2>8. ASSUME NEW c \in Cpus, NEW k \in Cpus, SendIpi(c, k) PROVE IInv'
    BY <2>8, SendIpiStep
  <2>9. ASSUME NEW c \in Cpus, AllAcked(c) PROVE IInv'
    BY <2>9, AllAckedStep
  <2>10. ASSUME NEW c \in Cpus, FreeFrames(c) PROVE IInv'
    BY <2>10, FreeFramesStep
  <2>11. ASSUME NEW c \in Cpus, tlb_handler(c) PROVE IInv'
    BY <2>11, HandlerStep
  <2>12. ASSUME NEW c \in Cpus, TlbAck(c) PROVE IInv'
    BY <2>12, AckStep
  <2>13. ASSUME NEW c \in Cpus, with_frame_allocator(c) PROVE IInv'
    BY <2>13, FrameAllocatorStep
  <2>14. ASSUME NEW c \in Cpus, NEW v \in Slots, Fill(c, v) PROVE IInv'
    BY <2>14, FillStep
  <2> QED
    BY <2>1, <2>2, <2>3, <2>4, <2>5, <2>6, <2>7, <2>8, <2>9, <2>10, <2>11, <2>12, <2>13, <2>14
    DEF Next
<1> QED
  BY InitIInv, <1>1, PTL DEF Spec

\* No frame goes back to the allocator while some CPU's caches reach it
\* (release_sized).
THEOREM ReclaimSafe == Spec => []FreedUnreachable
<1>1. ASSUME IInv PROVE FreedUnreachable
  <2>1. ASSUME NEW c \in Cpus, NEW e \in tlb[c] PROVE e[2] \notin free
    <3>1. e[1] \in Slots /\ e[2] \in Frames
      BY <1>1 DEF IInv, TypeOK
    <3>2. CASE leaf[e[1]] = e[2]
      BY <1>1, <3>1, <3>2, StackAssumption DEF IInv, FramesOK
    <3>3. CASE \E k \in Cpus : e[2] \in pages[k]
      BY <1>1, <3>3 DEF IInv, FramesOK
    <3> QED
      BY <1>1, <3>2, <3>3 DEF IInv, CachesOK
  <2>2. ASSUME NEW c \in Cpus, NEW e \in walk[c] PROVE e[2] \notin free
    <3>1. e[1] \in Regions /\ e[2] \in Frames
      BY <1>1 DEF IInv, TypeOK
    <3>2. CASE table[e[1]] = e[2]
      BY <1>1, <3>1, <3>2, StackAssumption DEF IInv, FramesOK
    <3>3. CASE \E k \in Cpus : e[2] \in pages[k]
      BY <1>1, <3>3 DEF IInv, FramesOK
    <3> QED
      BY <1>1, <3>2, <3>3 DEF IInv, CachesOK
  <2> QED
    BY <2>1, <2>2 DEF FreedUnreachable
<1> QED
  BY Invariance, <1>1, PTL

\* A detached table is out of every CPU's caches before the region gets another
\* one, and a slot never names two frames (with_mappings).
THEOREM BreakBeforeMakeHolds == Spec => []BreakBeforeMake
<1>1. IInv => BreakBeforeMake
  BY DEF IInv, BreakBeforeMake, CachesOK
<1> QED
  BY Invariance, <1>1, PTL

\* The stack of a live task stays mapped whatever is released around it
\* (detach_empty).
THEOREM LiveStacksMapped == Spec => []StacksMapped
<1>1. IInv => StacksMapped
  BY DEF IInv, TypeOK, StacksMapped, StacksOK, SlotsOK
<1> QED
  BY Invariance, <1>1, PTL

=============================================================================
