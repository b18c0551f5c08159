----------------------------- MODULE AsidProofs -----------------------------
(***************************************************************************)
(* Proofs about Asids, for any number of CPUs, roots and tags.             *)
(***************************************************************************)
EXTENDS Asids, FiniteSetTheorems, TLAPS

(* A register's regime is empty or a root with a tag that is not reserved. *)
LEMMA RegimeParts ==
    ASSUME NEW a \in Regimes
    PROVE  /\ a = <<a[1], a[2]>>
           /\ a \in (Roots \cup {NoRoot}) \X (0 .. limit)
           /\ a # Empty => a[1] \in Roots /\ a[2] \in Tags \ Reserved
           /\ a = Empty => a[1] = NoRoot /\ a[2] = 0
           /\ a[1] = NoRoot => a = Empty
  BY AsidAssumption DEF Regimes, Empty, Tags, Reserved

(* The initial states satisfy the invariant. *)
LEMMA InitIInv == Init => IInv
<1> SUFFICES ASSUME Init PROVE IInv
  OBVIOUS
<1>1. TypeOK
  BY AsidAssumption DEF Init, TypeOK, Regimes, Empty, Tags, Reserved, Untagged
<1>2. Registry = {}
  BY DEF Init, Registry
<1>3. LockOK /\ ActiveOK /\ RegistersOK /\ NeverExhausted
  BY DEF Init, LockOK, HoldsPool, ActiveOK, RegistersOK, NeverExhausted
<1>4. TagsOK
  BY DEF Init, TagsOK, Tags, Unregistered
<1>5. JobsOK /\ TlbOK /\ FramesOK
  BY <1>2 DEF Init, JobsOK, TlbOK, FramesOK
<1> QED BY <1>1, <1>3, <1>4, <1>5 DEF IInv

-----------------------------------------------------------------------------
(* switch_address_space *)

(* While the pool is free no CPU is between activate and its load.         *)
LEMMA PoolFreeFacts ==
    ASSUME IInv, PoolFree, NEW k \in Cpus
    PROVE  /\ pc[k] \in {"Idle", "FreeFrames"}
           /\ saved[k] = active[k]
  BY DEF IInv, PoolFree, HoldsPool, RegistersOK, NeverExhausted, TypeOK

(* What activate has to establish for the invariant to be preserved: the   *)
(* recorded spaces keep their tags, the new one has its own, and unless a  *)
(* flush follows no space's tag has changed.                               *)
LEMMA ActivatedStep ==
    ASSUME IInv, NEW c \in Cpus, MayLock(c),
           NEW root, NEW tag, NEW flush \in BOOLEAN,
           <<root, tag>> \in Regimes,
           Activated(c, root, tag, flush),
           spaces' \in [Roots -> {Unregistered, Untagged} \cup (Tags \ Reserved)],
           used' \subseteq 0 .. limit, Reserved \subseteq used', next' \in Tags,
           \A r \in Roots : spaces'[r] = Unregistered <=> spaces[r] = Unregistered,
           TagsOK',
           \A k \in Cpus : active[k] # Empty => spaces'[active[k][1]] = active[k][2],
           <<root, tag>> # Empty => spaces'[root] = tag,
           flush => <<root, tag>> # Empty,
           ~flush => \A r \in Roots : spaces[r] \in Tags => spaces'[r] = spaces[r],
           UNCHANGED <<saved, ttbr0, tlb, frames>>
    PROVE  IInv'
<1>1. /\ active' = [active EXCEPT ![c] = <<root, tag>>]
      /\ job' = [job EXCEPT ![c] = <<root, tag>>]
      /\ pc' = [pc EXCEPT ![c] = AfterActivate(flush)]
  BY DEF Activated
<1>2. AfterActivate(flush) \in {"Flush", "Load"}
      /\ (AfterActivate(flush) = "Flush" <=> flush)
  BY DEF AfterActivate
<1>3. PoolFree /\ pc[c] = "Idle"
  BY DEF MayLock
<1>4. /\ active \in [Cpus -> Regimes]
      /\ job \in [Cpus -> (Roots \cup {NoRoot}) \X (0 .. limit)]
      /\ pc \in [Cpus -> {"Idle", "Flush", "Load", "Release", "FreeFrames", "Panic"}]
  BY DEF IInv, TypeOK
<1>5. /\ active'[c] = <<root, tag>> /\ job'[c] = <<root, tag>>
      /\ pc'[c] \in {"Flush", "Load"} /\ (pc'[c] = "Flush" <=> flush)
      /\ \A k \in Cpus \ {c} : /\ active'[k] = active[k]
                               /\ job'[k] = job[k]
                               /\ pc'[k] = pc[k]
  BY <1>1, <1>2, <1>4
<1>6. Registry' = Registry
  BY DEF Registry
<1>7. TypeOK'
  <2>1. <<root, tag>> \in (Roots \cup {NoRoot}) \X (0 .. limit)
    BY RegimeParts
  <2>2. active' \in [Cpus -> Regimes]
    BY <1>1, <1>4
  <2>3. job' \in [Cpus -> (Roots \cup {NoRoot}) \X (0 .. limit)]
    BY <1>1, <1>4, <2>1
  <2>4. pc' \in [Cpus -> {"Idle", "Flush", "Load", "Release", "FreeFrames", "Panic"}]
    BY <1>1, <1>2, <1>4
  <2> QED BY <2>2, <2>3, <2>4 DEF IInv, TypeOK
<1>8. LockOK'
  BY <1>3, <1>5 DEF LockOK, PoolFree, HoldsPool
<1>9. ActiveOK'
  BY <1>5 DEF ActiveOK
<1>10. RegistersOK'
  BY <1>3, <1>5, PoolFreeFacts DEF IInv, RegistersOK
<1>12. JobsOK'
  <2>1. \A k \in Cpus \ {c} : pc'[k] \in {"Idle", "FreeFrames"}
    BY <1>3, <1>5, PoolFreeFacts
  <2> QED BY <1>5, <1>6, <2>1 DEF IInv, JobsOK
<1>13. TlbOK'
  <2> SUFFICES ASSUME NEW d \in Cpus, NEW e \in tlb[d]
               PROVE  /\ e[2] \in Registry
                      /\ ~flush => spaces'[e[2]] = e[1]
                      /\ \A k \in Cpus : e[1] = saved[k][2] => e[2] = saved[k][1]
    BY <1>5, <1>6 DEF TlbOK
  <2>1. e \in (Tags \ Reserved) \X Roots
    BY DEF IInv, TypeOK
  <2>2. spaces[e[2]] = e[1]
    BY <1>3, PoolFreeFacts DEF IInv, TlbOK
  <2> QED BY <2>1, <2>2 DEF IInv, TlbOK
<1>14. FramesOK'
  BY <1>6 DEF IInv, FramesOK
<1>15. NeverExhausted'
  BY <1>5 DEF IInv, NeverExhausted
<1> QED BY <1>7, <1>8, <1>9, <1>10, <1>12, <1>13, <1>14, <1>15 DEF IInv

(* A rollover keeps the tags of the spaces that CPUs run in and no others. *)
LEMMA RolloverKeeps ==
    ASSUME IInv
    PROVE  /\ rollover_spaces \in [Roots -> {Unregistered, Untagged} \cup (Tags \ Reserved)]
           /\ rollover_used \subseteq 0 .. limit /\ Reserved \subseteq rollover_used
           /\ \A r \in Roots :
                 rollover_spaces[r] = Unregistered <=> spaces[r] = Unregistered
           /\ \A k \in Cpus : active[k] # Empty =>
                 rollover_spaces[active[k][1]] = active[k][2]
           /\ \A r \in Roots : rollover_spaces[r] \in Tags =>
                 rollover_spaces[r] = spaces[r] /\ rollover_spaces[r] \in rollover_used
<1>1. \A a \in Kept : /\ a[1] \in Roots /\ a[2] \in Tags \ Reserved
                      /\ spaces[a[1]] = a[2]
  BY RegimeParts DEF Kept, IInv, TypeOK, ActiveOK
<1>2. \A a \in Kept : a[1] \in Registry
  BY <1>1, AsidAssumption DEF Registry, Unregistered, Tags
<1>3. \A r \in Roots : (\E a \in Kept : a[1] = r) =>
         /\ (CHOOSE a \in Kept : a[1] = r) \in Kept
         /\ (CHOOSE a \in Kept : a[1] = r)[1] = r
  OBVIOUS
<1>4. \A r \in Roots :
         /\ r \notin Registry => rollover_spaces[r] = Unregistered
         /\ r \in Registry /\ (\E a \in Kept : a[1] = r) =>
               /\ rollover_spaces[r] = spaces[r]
               /\ rollover_spaces[r] \in Tags \ Reserved
               /\ rollover_spaces[r] \in rollover_used
         /\ r \in Registry /\ ~(\E a \in Kept : a[1] = r) => rollover_spaces[r] = Untagged
  <2> TAKE r \in Roots
  <2>1. CASE r \in Registry /\ \E a \in Kept : a[1] = r
    <3> DEFINE b == CHOOSE a \in Kept : a[1] = r
    <3>1. b \in Kept /\ b[1] = r
      BY <2>1, <1>3
    <3>2. rollover_spaces[r] = b[2]
      BY <2>1 DEF rollover_spaces
    <3> HIDE DEF b
    <3>3. b[2] = spaces[r] /\ b[2] \in Tags \ Reserved /\ b[2] \in rollover_used
      BY <3>1, <1>1 DEF rollover_used
    <3> QED BY <2>1, <3>2, <3>3
  <2>2. CASE r \notin Registry
    BY <2>2 DEF rollover_spaces
  <2>3. CASE r \in Registry /\ ~(\E a \in Kept : a[1] = r)
    BY <2>3 DEF rollover_spaces
  <2> QED BY <2>1, <2>2, <2>3
<1>5. \A r \in Roots : rollover_spaces[r] \in {Unregistered, Untagged} \cup (Tags \ Reserved)
  BY <1>4
<1>6. rollover_spaces \in [Roots -> {Unregistered, Untagged} \cup (Tags \ Reserved)]
  <2>1. rollover_spaces = [r \in Roots |-> rollover_spaces[r]]
    BY DEF rollover_spaces
  <2> HIDE DEF rollover_spaces
  <2> QED BY <1>5, <2>1
<1>7. rollover_used \subseteq 0 .. limit /\ Reserved \subseteq rollover_used
  BY <1>1, AsidAssumption DEF rollover_used, Reserved, Tags
<1>8. \A r \in Roots : rollover_spaces[r] = Unregistered <=> spaces[r] = Unregistered
  BY <1>4, AsidAssumption DEF Registry, Unregistered, Untagged, Tags
<1>9. \A k \in Cpus : active[k] # Empty => rollover_spaces[active[k][1]] = active[k][2]
  <2> SUFFICES ASSUME NEW k \in Cpus, active[k] # Empty
               PROVE  rollover_spaces[active[k][1]] = active[k][2]
    OBVIOUS
  <2>1. active[k] \in Kept
    BY DEF Kept
  <2> QED BY <2>1, <1>1, <1>2, <1>4
<1>10. \A r \in Roots : rollover_spaces[r] \in Tags =>
         rollover_spaces[r] = spaces[r] /\ rollover_spaces[r] \in rollover_used
  BY <1>4, AsidAssumption DEF Unregistered, Untagged, Tags
<1> QED BY <1>6, <1>7, <1>8, <1>9, <1>10

(* The tags that the CPUs have loaded are never all the tags there are.    *)
LEMMA TagLeft ==
    ASSUME IInv
    PROVE  ~(Tags \subseteq rollover_used)
<1> DEFINE T == {active[c][2] : c \in Cpus}
<1>1. IsFiniteSet(T) /\ Cardinality(T) <= Cardinality(Cpus)
  <2> DEFINE f == [c \in Cpus |-> active[c][2]]
  <2>1. f \in Surjection(Cpus, T)
    BY DEF Surjection
  <2>2. IsFiniteSet(Cpus)
    BY AsidAssumption
  <2> HIDE DEF f, T
  <2> QED BY <2>1, <2>2, FS_Surjection
<1>2. SUFFICES ASSUME Tags \subseteq rollover_used
               PROVE  Tags \ Reserved \subseteq T
  <2>1. Tags \ Reserved \subseteq T => Cardinality(Tags \ Reserved) <= Cardinality(T)
    BY <1>1, FS_Subset
  <2>2. Cardinality(T) \in Nat /\ Cardinality(Cpus) \in Nat
    BY <1>1, AsidAssumption, FS_CardinalityType
  <2>3. Tags \ Reserved \subseteq T => Cardinality(Tags \ Reserved) \in Nat
    BY <1>1, FS_Subset, FS_CardinalityType
  <2> QED BY <1>1, <2>1, <2>2, <2>3, AsidAssumption
<1> QED BY <1>2 DEF rollover_used, Kept

(* A step of switch_address_space preserves the invariant. *)
LEMMA SwitchStep ==
    ASSUME IInv, NEW c \in Cpus, NEW root, switch_address_space(c, root)
    PROVE  IInv'
<1>1. /\ MayLock(c) /\ root \in Registry \cup {NoRoot}
      /\ UNCHANGED <<saved, ttbr0, tlb, frames>>
  BY DEF switch_address_space
<1>2. /\ TypeOK /\ TagsOK /\ ActiveOK
      /\ spaces \in [Roots -> {Unregistered, Untagged} \cup (Tags \ Reserved)]
      /\ used \subseteq 0 .. limit /\ Reserved \subseteq used /\ next \in Tags
  BY DEF IInv, TypeOK
<1>3. /\ Empty \in Regimes
      /\ \A r \in Roots, t \in Tags \ Reserved : <<r, t>> \in Regimes /\ <<r, t>> # Empty
  BY AsidAssumption DEF Regimes, Empty
<1>4. root # NoRoot => root \in Roots /\ spaces[root] # Unregistered
  BY <1>1 DEF Registry
<1>5. \A k \in Cpus : active[k] # Empty =>
         active[k][1] \in Roots /\ active[k][2] \in Tags \ Reserved
  <2> SUFFICES ASSUME NEW k \in Cpus
               PROVE  active[k] # Empty =>
                        active[k][1] \in Roots /\ active[k][2] \in Tags \ Reserved
    OBVIOUS
  <2>1. active[k] \in Regimes
    BY <1>2 DEF TypeOK
  <2> QED BY <2>1, RegimeParts
<1>6. CASE ActivateKernel(c, root)
  <2>1. root = NoRoot /\ Activated(c, NoRoot, 0, FALSE) /\ UNCHANGED <<spaces, used, next>>
    BY <1>6, Zenon DEF ActivateKernel
  <2>2. TagsOK'
    BY <1>2, <2>1 DEF TagsOK
  <2>3. <<NoRoot, 0>> = Empty
    BY DEF Empty
  <2> QED BY <1>1, <1>2, <1>3, <2>1, <2>2, <2>3, ActivatedStep, Zenon DEF ActiveOK
<1>7. CASE ActivateCurrent(c, root)
  <2>1. /\ root # NoRoot /\ spaces[root] # Untagged
        /\ Activated(c, root, spaces[root], FALSE)
        /\ UNCHANGED <<spaces, used, next>>
    BY <1>7, Zenon DEF ActivateCurrent
  <2>2. TagsOK'
    BY <1>2, <2>1 DEF TagsOK
  <2>3. spaces[root] \in Tags \ Reserved
    BY <1>2, <1>4, <2>1
  <2> QED BY <1>1, <1>2, <1>3, <1>4, <2>1, <2>2, <2>3, ActivatedStep, Zenon DEF ActiveOK
<1>8. CASE ActivateFresh(c, root)
  <2>1. PICK tag \in allocate(used, next) :
          /\ spaces' = [spaces EXCEPT ![root] = tag]
          /\ used' = used \cup {tag}
          /\ next' = NextAfter(tag)
          /\ Activated(c, root, tag, FALSE)
    BY <1>8, Zenon DEF ActivateFresh
  <2>2. root # NoRoot /\ spaces[root] = Untagged
    BY <1>8 DEF ActivateFresh
  <2>3. tag \in Tags /\ tag \notin used
    BY <2>1 DEF allocate
  <2>4. Untagged \notin Tags /\ Unregistered \notin Tags /\ Untagged # Unregistered
    BY DEF Untagged, Unregistered, Tags
  <2>5. /\ spaces'[root] = tag
        /\ \A r \in Roots \ {root} : spaces'[r] = spaces[r]
    BY <1>2, <1>4, <2>1, <2>2
  <2>6. /\ spaces' \in [Roots -> {Unregistered, Untagged} \cup (Tags \ Reserved)]
        /\ used' \subseteq 0 .. limit /\ Reserved \subseteq used'
    <3>1. spaces' \in [Roots -> {Unregistered, Untagged} \cup (Tags \ Reserved)]
      BY <1>2, <2>1, <2>3, Zenon
    <3>2. used' \subseteq 0 .. limit /\ Reserved \subseteq used'
      BY <1>2, <2>1, <2>3, AsidAssumption DEF Tags
    <3> QED BY <3>1, <3>2
  <2>7. next' \in Tags
    BY <2>1, <2>3, AsidAssumption DEF NextAfter, Tags
  <2>8. TagsOK'
    BY <1>2, <1>4, <2>1, <2>2, <2>3, <2>5 DEF TagsOK
  <2>9. \A r \in Roots : spaces'[r] = Unregistered <=> spaces[r] = Unregistered
    BY <2>2, <2>3, <2>4, <2>5
  <2>10. \A k \in Cpus : active[k] # Empty =>
           /\ active[k][1] \in Roots \ {root}
           /\ spaces[active[k][1]] = active[k][2]
    BY <1>2, <1>5, <2>2, <2>4 DEF ActiveOK
  <2>11. \A r \in Roots : spaces[r] \in Tags => spaces'[r] = spaces[r]
    BY <2>2, <2>4, <2>5
  <2>12. tag \in Tags \ Reserved
    BY <1>2, <2>3, Zenon
  <2> QED BY Zenon, <1>1, <1>3, <1>4, <2>1, <2>2, <2>5, <2>6, <2>7, <2>8, <2>9, <2>10,
             <2>11, <2>12, ActivatedStep
<1>9. CASE ActivateRollover(c, root)
  <2>1. root # NoRoot /\ spaces[root] = Untagged
    BY <1>9 DEF ActivateRollover
  <2>2. Untagged \notin Tags /\ Unregistered \notin Tags /\ Untagged # Unregistered
    BY DEF Untagged, Unregistered, Tags
  <2>3. rollover_spaces[root] = Untagged
    BY <1>4, <2>1, <2>2, RolloverKeeps
  <2>4. PICK tag \in allocate(rollover_used, 1) :
          /\ spaces' = [rollover_spaces EXCEPT ![root] = tag]
          /\ used' = rollover_used \cup {tag}
          /\ next' = NextAfter(tag)
          /\ Activated(c, root, tag, TRUE)
    BY <1>9, <2>3, TagLeft, Zenon DEF ActivateRollover
  <2>5. tag \in Tags /\ tag \notin rollover_used
    BY <2>4 DEF allocate
  <2>6. /\ spaces'[root] = tag
        /\ \A r \in Roots \ {root} : spaces'[r] = rollover_spaces[r]
    BY <1>4, <2>1, <2>4, RolloverKeeps
  <2>7. /\ spaces' \in [Roots -> {Unregistered, Untagged} \cup (Tags \ Reserved)]
        /\ used' \subseteq 0 .. limit /\ Reserved \subseteq used'
    <3>1. spaces' \in [Roots -> {Unregistered, Untagged} \cup (Tags \ Reserved)]
      BY <2>4, <2>5, RolloverKeeps, Zenon
    <3>2. used' \subseteq 0 .. limit /\ Reserved \subseteq used'
      BY <2>4, <2>5, RolloverKeeps, AsidAssumption DEF Tags
    <3> QED BY <3>1, <3>2
  <2>8. next' \in Tags
    BY <2>4, <2>5, AsidAssumption DEF NextAfter, Tags
  <2>9. TagsOK'
    <3> SUFFICES ASSUME NEW r \in Roots, NEW s \in Roots, spaces'[r] \in Tags
                 PROVE  spaces'[r] \in used' /\ (spaces'[s] = spaces'[r] => s = r)
      BY DEF TagsOK
    <3>1. \A q \in Roots \ {root} : spaces'[q] \in Tags =>
             spaces'[q] = spaces[q] /\ spaces'[q] \in rollover_used
      BY <2>6, RolloverKeeps
    <3>2. spaces'[r] \in used'
      BY <2>4, <2>6, <3>1
    <3>3. spaces'[s] = spaces'[r] => s = r
      BY <1>2, <2>5, <2>6, <3>1 DEF TagsOK
    <3> QED BY <3>2, <3>3
  <2>10. \A r \in Roots : spaces'[r] = Unregistered <=> spaces[r] = Unregistered
    BY <2>1, <2>2, <2>5, <2>6, RolloverKeeps
  <2>11. \A k \in Cpus : active[k] # Empty =>
           /\ active[k][1] \in Roots /\ active[k][2] \in Tags
           /\ rollover_spaces[active[k][1]] = active[k][2]
    BY <1>5, RolloverKeeps
  <2>12. \A k \in Cpus : active[k] # Empty => spaces'[active[k][1]] = active[k][2]
    BY <2>2, <2>3, <2>6, <2>11
  <2>13. tag \in Tags \ Reserved
    BY <2>5, RolloverKeeps
  <2> QED BY Zenon, <1>1, <1>3, <1>4, <2>1, <2>4, <2>6, <2>7, <2>8, <2>9, <2>10, <2>12,
             <2>13, ActivatedStep
<1> QED BY <1>6, <1>7, <1>8, <1>9 DEF switch_address_space

(* A flush ends the rollover: no stale translation is left anywhere. *)
LEMMA FlushStep ==
    ASSUME IInv, NEW c \in Cpus, flush_all(c)
    PROVE  IInv'
<1>1. /\ pc[c] = "Flush" /\ tlb' = [k \in Cpus |-> {}]
      /\ UNCHANGED <<spaces, active, used, next, job, saved, ttbr0, frames>>
  BY DEF flush_all
<1>2. job[c] = active[c] /\ active[c] # Empty /\ active[c] \in Regimes
  BY <1>1 DEF IInv, JobsOK, TypeOK
<1>3. job[c][2] # 0
  BY <1>2, RegimeParts DEF Reserved
<1>4. pc' = [pc EXCEPT ![c] = "Load"]
  BY <1>3 DEF flush_all
<1>5. /\ pc'[c] = "Load" /\ \A k \in Cpus \ {c} : pc'[k] = pc[k]
      /\ pc' \in [Cpus -> {"Idle", "Flush", "Load", "Release", "FreeFrames", "Panic"}]
  BY <1>4 DEF IInv, TypeOK
<1>6. Registry' = Registry
  BY <1>1 DEF Registry
<1>7. TypeOK'
  BY <1>1, <1>5 DEF IInv, TypeOK
<1>8. LockOK' /\ NeverExhausted'
  BY <1>1, <1>5 DEF IInv, LockOK, HoldsPool, NeverExhausted
<1>9. TagsOK' /\ ActiveOK' /\ FramesOK'
  BY <1>1, <1>6 DEF IInv, TagsOK, ActiveOK, FramesOK
<1>10. RegistersOK'
  BY <1>1, <1>5 DEF IInv, RegistersOK
<1>11. JobsOK'
  BY <1>1, <1>2, <1>5, <1>6 DEF IInv, JobsOK
<1>12. TlbOK'
  BY <1>1 DEF TlbOK
<1> QED BY <1>7, <1>8, <1>9, <1>10, <1>11, <1>12 DEF IInv

(* Writing TTBR0 makes the registers agree with the pool again. *)
LEMMA LoadStep ==
    ASSUME IInv, NEW c \in Cpus, LoadTtbr0(c)
    PROVE  IInv'
<1>1. /\ pc[c] = "Load" /\ UNCHANGED <<spaces, active, used, next, tlb, frames>>
      /\ saved' = [saved EXCEPT ![c] = job[c]]
      /\ ttbr0' = [ttbr0 EXCEPT ![c] = IF SoftwarePan THEN Empty ELSE job[c]]
      /\ pc' = [pc EXCEPT ![c] = "Idle"]
      /\ job' = [job EXCEPT ![c] = Empty]
  BY DEF LoadTtbr0
<1>2. job[c] = active[c] /\ active[c] \in Regimes /\ Empty \in Regimes
  BY <1>1 DEF IInv, JobsOK, TypeOK, Regimes
<1>3. Empty \in (Roots \cup {NoRoot}) \X (0 .. limit)
  BY <1>2, RegimeParts
<1>4. TypeOK'
  BY <1>1, <1>2, <1>3 DEF IInv, TypeOK
<1>5. /\ pc'[c] = "Idle" /\ saved'[c] = active[c] /\ ttbr0'[c] \in {Empty, saved'[c]}
      /\ \A k \in Cpus \ {c} : /\ pc'[k] = pc[k] /\ saved'[k] = saved[k]
                               /\ ttbr0'[k] = ttbr0[k] /\ job'[k] = job[k]
  BY <1>1, <1>2 DEF IInv, TypeOK
<1>6. Registry' = Registry
  BY <1>1 DEF Registry
<1>7. LockOK' /\ NeverExhausted'
  BY <1>5 DEF IInv, LockOK, HoldsPool, NeverExhausted
<1>8. TagsOK' /\ ActiveOK' /\ FramesOK'
  BY <1>1, <1>6 DEF IInv, TagsOK, ActiveOK, FramesOK
<1>10. RegistersOK'
  BY <1>1, <1>5 DEF IInv, RegistersOK, ActiveOK
<1>11. JobsOK'
  <2> SUFFICES ASSUME NEW d \in Cpus, d # c
               PROVE  /\ pc[d] \in {"Flush", "Load"} => job[d] = active[d]
                      /\ pc[d] = "Flush" => job[d] # Empty
                      /\ pc[d] # "Release"
                      /\ pc[d] = "FreeFrames" =>
                          /\ job[d][1] \in frames \ Registry
                          /\ \A k \in Cpus \ {c} :
                                pc[k] = "FreeFrames" /\ job[k][1] = job[d][1] => k = d
    BY <1>1, <1>5, <1>6 DEF JobsOK
  <2> QED BY <1>1 DEF IInv, JobsOK, LockOK, HoldsPool
<1>12. TlbOK'
  <2>1. \A k \in Cpus : pc[k] # "Flush"
    BY <1>1 DEF IInv, LockOK, HoldsPool
  <2> SUFFICES ASSUME NEW d \in Cpus, NEW e \in tlb[d], NEW k \in Cpus
               PROVE  /\ e[2] \in Registry /\ spaces[e[2]] = e[1]
                      /\ e[1] = saved'[k][2] => e[2] = saved'[k][1]
    BY <1>1, <1>6 DEF TlbOK
  <2>2. e \in (Tags \ Reserved) \X Roots /\ e[2] \in Registry /\ spaces[e[2]] = e[1]
    BY <2>1 DEF IInv, TypeOK, TlbOK
  <2>3. CASE k # c
    BY <1>5, <2>2, <2>3 DEF IInv, TlbOK
  <2>4. CASE k = c /\ active[c] = Empty
    BY <1>5, <2>2, <2>4 DEF Empty, Reserved
  <2>5. CASE k = c /\ active[c] # Empty
    <3>1. saved'[c] = active[c] /\ spaces[active[c][1]] = active[c][2]
      BY <1>5, <2>5 DEF IInv, ActiveOK
    <3>2. active[c][1] \in Roots
      BY <1>2, <2>5, RegimeParts
    <3> QED BY <2>2, <2>5, <3>1, <3>2 DEF IInv, TagsOK
  <2> QED BY <2>2, <2>3, <2>4, <2>5
<1> QED BY <1>4, <1>7, <1>8, <1>10, <1>11, <1>12 DEF IInv

(* Software PAN opens only what is saved, and a page walk caches only what *)
(* is loaded: neither reaches a tag that may belong to another space.      *)
LEMMA RegisterStep ==
    ASSUME IInv, NEW c \in Cpus, OpenUser(c) \/ CloseUser(c) \/ Fill(c)
    PROVE  IInv'
<1>1. UNCHANGED <<spaces, active, used, next, pc, job, saved, frames>>
  BY DEF OpenUser, CloseUser, Fill
<1>2. /\ ttbr0 \in [Cpus -> Regimes] /\ saved \in [Cpus -> Regimes]
      /\ tlb \in [Cpus -> SUBSET ((Tags \ Reserved) \X Roots)]
      /\ ttbr0[c] \in {Empty, saved[c]}
  BY DEF IInv, TypeOK, RegistersOK
<1>3. /\ ttbr0' \in [Cpus -> Regimes]
      /\ \A k \in Cpus : ttbr0'[k] \in {ttbr0[k], Empty, saved[k]}
  BY <1>2 DEF OpenUser, CloseUser, Fill, Regimes
<1>4. \A k \in Cpus : \A e \in tlb'[k] :
         e \in tlb[k] \/ (e = <<saved[c][2], saved[c][1]>> /\ saved[c] # Empty)
  BY <1>2 DEF OpenUser, CloseUser, Fill
<1>5. saved[c] # Empty => saved[c][1] \in Roots /\ saved[c][2] \in Tags \ Reserved
  BY <1>2, RegimeParts
<1>6. tlb' \in [Cpus -> SUBSET ((Tags \ Reserved) \X Roots)]
  BY <1>2, <1>5 DEF OpenUser, CloseUser, Fill
<1>7. TypeOK'
  BY <1>1, <1>3, <1>6 DEF IInv, TypeOK
<1>8. Registry' = Registry
  BY <1>1 DEF Registry
<1>9. LockOK' /\ NeverExhausted' /\ TagsOK' /\ ActiveOK' /\ FramesOK'
  BY <1>1, <1>8 DEF IInv, LockOK, HoldsPool, NeverExhausted, TagsOK, ActiveOK, FramesOK
<1>10. RegistersOK'
  BY <1>1, <1>3 DEF IInv, RegistersOK
<1>11. saved[c] # Empty => /\ spaces[saved[c][1]] = saved[c][2]
                          /\ saved[c][1] \in Registry
  BY <1>5, AsidAssumption DEF IInv, RegistersOK, Registry, Unregistered, Tags
<1>12. \A k \in Cpus : saved[k] # Empty =>
         spaces[saved[k][1]] = saved[k][2] /\ saved[k][1] \in Roots
  <2> SUFFICES ASSUME NEW k \in Cpus, saved[k] # Empty
               PROVE  spaces[saved[k][1]] = saved[k][2] /\ saved[k][1] \in Roots
    OBVIOUS
  <2>1. saved[k] \in Regimes
    BY <1>2
  <2> QED BY <2>1, RegimeParts DEF IInv, RegistersOK
<1>13. TlbOK'
  <2> SUFFICES ASSUME NEW d \in Cpus, NEW e \in tlb'[d]
               PROVE  /\ e[2] \in Registry
                      /\ (\A k \in Cpus : pc[k] # "Flush") => spaces[e[2]] = e[1]
                      /\ \A k \in Cpus : e[1] = saved[k][2] => e[2] = saved[k][1]
    BY <1>1, <1>8 DEF TlbOK
  <2>1. CASE e \in tlb[d]
    BY <2>1 DEF IInv, TlbOK
  <2>2. CASE e = <<saved[c][2], saved[c][1]>> /\ saved[c] # Empty
    <3>1. e[1] = saved[c][2] /\ e[2] = saved[c][1] /\ e[1] # 0
      BY <2>2, <1>5 DEF Reserved
    <3>2. \A k \in Cpus : e[1] = saved[k][2] => e[2] = saved[k][1]
      BY <1>5, <1>11, <1>12, <2>2, <3>1 DEF IInv, TagsOK, Empty
    <3> QED BY <1>11, <2>2, <3>1, <3>2
  <2> QED BY <1>4, <2>1, <2>2
<1>14. JobsOK'
  <2>1. ASSUME NEW d \in Cpus, pc[d] = "Release", NEW k \in Cpus, NEW e \in tlb'[k]
        PROVE  e[2] # job[d][1]
    <3>1. saved[c] = active[c]
      BY <2>1 DEF IInv, RegistersOK, LockOK, HoldsPool
    <3>2. saved[c] # Empty => saved[c][1] # job[d][1]
      BY <2>1, <3>1 DEF IInv, JobsOK
    <3>3. CASE e \in tlb[k]
      BY <2>1, <3>3 DEF IInv, JobsOK
    <3>4. CASE e = <<saved[c][2], saved[c][1]>> /\ saved[c] # Empty
      BY <3>2, <3>4
    <3> QED BY <1>4, <2>1, <3>3, <3>4
  <2> QED BY <1>1, <1>8, <2>1 DEF IInv, JobsOK
<1> QED BY <1>7, <1>9, <1>10, <1>13, <1>14 DEF IInv

-----------------------------------------------------------------------------
(* Creation and destruction *)

(* A step that changes nothing. *)
LEMMA StutterStep ==
    ASSUME IInv, UNCHANGED vars
    PROVE  IInv'
<1> USE DEF vars, Registry, HoldsPool
<1>1. TypeOK' /\ LockOK' /\ TagsOK' /\ ActiveOK' /\ RegistersOK'
  BY DEF IInv, TypeOK, LockOK, TagsOK, ActiveOK, RegistersOK
<1>2. JobsOK' /\ TlbOK' /\ FramesOK' /\ NeverExhausted'
  BY DEF IInv, JobsOK, TlbOK, FramesOK, NeverExhausted
<1> QED BY <1>1, <1>2 DEF IInv

(* A loaded or recorded regime is of a registered space.                   *)
LEMMA LoadedRegistered ==
    ASSUME IInv, NEW k \in Cpus
    PROVE  /\ active[k] \in Regimes /\ saved[k] \in Regimes
           /\ active[k] # Empty => active[k][1] \in Registry
           /\ saved[k] # Empty => saved[k][1] \in Registry
<1>1. active[k] \in Regimes /\ saved[k] \in Regimes
  BY DEF IInv, TypeOK
<1>2. active[k] # Empty => spaces[active[k][1]] = active[k][2]
  BY DEF IInv, ActiveOK
<1>3. saved[k] # Empty => spaces[saved[k][1]] = saved[k][2]
  BY DEF IInv, RegistersOK
<1>4. \A t \in Tags \ Reserved : t # Unregistered
  BY AsidAssumption DEF Tags, Unregistered
<1>5. active[k] # Empty => active[k][1] \in Roots /\ active[k][2] \in Tags \ Reserved
  BY <1>1, RegimeParts
<1>6. saved[k] # Empty => saved[k][1] \in Roots /\ saved[k][2] \in Tags \ Reserved
  BY <1>1, RegimeParts
<1> QED BY <1>1, <1>2, <1>3, <1>4, <1>5, <1>6 DEF Registry

(* A new space gets a frame no other space has, and no tag yet. *)
LEMMA NewStep ==
    ASSUME IInv, NEW c \in Cpus, NEW root \in Roots, new_address_space(c, root)
    PROVE  IInv'
<1>1. CASE ~(Cardinality(Registry) < SPACES)
  <2>1. UNCHANGED vars
    BY <1>1 DEF new_address_space, vars
  <2> QED BY <2>1, StutterStep
<1>2. CASE Cardinality(Registry) < SPACES
  <2>1. /\ spaces' = [spaces EXCEPT ![root] = Untagged]
        /\ frames' = frames \cup {root} /\ root \notin frames
        /\ PoolFree
        /\ UNCHANGED <<active, used, next, pc, job, saved, ttbr0, tlb>>
    BY <1>2 DEF new_address_space, MayLock
  <2>2. spaces \in [Roots -> {Unregistered, Untagged} \cup (Tags \ Reserved)]
    BY DEF IInv, TypeOK
  <2>3. /\ spaces'[root] = Untagged
        /\ \A r \in Roots : r # root => spaces'[r] = spaces[r]
        /\ spaces' \in [Roots -> {Unregistered, Untagged} \cup (Tags \ Reserved)]
    BY <2>1, <2>2
  <2>4. root \notin Registry
    BY <2>1 DEF IInv, FramesOK
  <2>5. Registry' = Registry \cup {root}
    BY <2>3 DEF Registry, Untagged, Unregistered
  <2>6. Registry \subseteq Roots /\ Untagged \notin Tags
    BY DEF Registry, Untagged, Tags
  <2>7. TypeOK'
    BY <2>1, <2>3 DEF IInv, TypeOK
  <2>8. LockOK' /\ NeverExhausted' /\ FramesOK'
    BY <2>1, <2>5 DEF IInv, LockOK, HoldsPool, NeverExhausted, FramesOK
  <2>9. TagsOK'
    BY <2>1, <2>3, <2>6 DEF IInv, TagsOK
  <2>10. ActiveOK'
    <3> SUFFICES ASSUME NEW k \in Cpus, active[k] # Empty
                 PROVE  spaces'[active[k][1]] = active[k][2]
      BY <2>1 DEF ActiveOK
    <3>1. active[k][1] \in Registry
      BY LoadedRegistered
    <3> QED BY <2>3, <2>4, <2>6, <3>1 DEF IInv, ActiveOK
  <2>11. RegistersOK'
    <3> SUFFICES ASSUME NEW k \in Cpus, saved[k] # Empty
                 PROVE  spaces'[saved[k][1]] = saved[k][2]
      BY <2>1 DEF IInv, RegistersOK
    <3>1. saved[k][1] \in Registry
      BY LoadedRegistered
    <3> QED BY <2>3, <2>4, <2>6, <3>1 DEF IInv, RegistersOK
  <2>12. JobsOK'
    <3>1. \A k \in Cpus : pc[k] \in {"Idle", "FreeFrames"}
      BY <2>1, PoolFreeFacts
    <3> QED BY <2>1, <2>5, <3>1 DEF IInv, JobsOK
  <2>13. TlbOK'
    <3>1. \A k \in Cpus : pc[k] # "Flush"
      BY <2>1, PoolFreeFacts
    <3> SUFFICES ASSUME NEW d \in Cpus, NEW e \in tlb[d]
                 PROVE  /\ e[2] \in Registry' /\ spaces'[e[2]] = e[1]
                        /\ \A k \in Cpus : e[1] = saved[k][2] => e[2] = saved[k][1]
      BY <2>1 DEF TlbOK
    <3>2. e[2] \in Registry /\ spaces[e[2]] = e[1]
      BY <3>1 DEF IInv, TlbOK
    <3>3. \A k \in Cpus : e[1] = saved[k][2] => e[2] = saved[k][1]
      BY DEF IInv, TlbOK
    <3> QED BY <2>3, <2>4, <2>5, <2>6, <3>2, <3>3
  <2> QED BY <2>7, <2>8, <2>9, <2>10, <2>11, <2>12, <2>13 DEF IInv
<1> QED BY <1>1, <1>2

(* Tearing a space down starts with its tag: after it no TLB holds a       *)
(* translation of the space, also if its tag was of an older generation.   *)
LEMMA FreeStep ==
    ASSUME IInv, NEW c \in Cpus, NEW root \in Roots, free_address_space(c, root)
    PROVE  IInv'
<1>1. /\ PoolFree /\ root \in Registry
      /\ \A k \in Cpus : active[k][1] # root
      /\ job' = [job EXCEPT ![c] = <<root, spaces[root]>>]
      /\ pc' = [pc EXCEPT ![c] = "Release"]
      /\ UNCHANGED <<spaces, active, used, next, saved, ttbr0, frames>>
  BY DEF free_address_space, MayLock
<1>2. /\ spaces \in [Roots -> {Unregistered, Untagged} \cup (Tags \ Reserved)]
      /\ tlb \in [Cpus -> SUBSET ((Tags \ Reserved) \X Roots)]
      /\ job \in [Cpus -> (Roots \cup {NoRoot}) \X (0 .. limit)]
      /\ pc \in [Cpus -> {"Idle", "Flush", "Load", "Release", "FreeFrames", "Panic"}]
  BY DEF IInv, TypeOK
<1>3. \A k \in Cpus : pc[k] \in {"Idle", "FreeFrames"} /\ saved[k] = active[k]
  BY <1>1, PoolFreeFacts
<1>4. /\ tlb' \in [Cpus -> SUBSET ((Tags \ Reserved) \X Roots)]
      /\ \A k \in Cpus : tlb'[k] \subseteq tlb[k]
      /\ spaces[root] # Untagged => \A k \in Cpus : \A e \in tlb'[k] : e[1] # spaces[root]
  BY <1>2 DEF free_address_space, invalidate_tag
<1>5. spaces[root] \in 0 .. limit
  BY <1>1, <1>2, AsidAssumption DEF Registry, Untagged, Tags
<1>6. /\ job' \in [Cpus -> (Roots \cup {NoRoot}) \X (0 .. limit)]
      /\ job'[c][1] = root /\ \A k \in Cpus : k # c => job'[k] = job[k]
  BY <1>1, <1>2, <1>5
<1>7. /\ pc' \in [Cpus -> {"Idle", "Flush", "Load", "Release", "FreeFrames", "Panic"}]
      /\ pc'[c] = "Release" /\ \A k \in Cpus : k # c => pc'[k] = pc[k]
  BY <1>1, <1>2
<1>8. Registry' = Registry
  BY <1>1 DEF Registry
<1>9. TypeOK'
  BY <1>1, <1>4, <1>6, <1>7 DEF IInv, TypeOK
<1>10. LockOK' /\ NeverExhausted' /\ TagsOK' /\ ActiveOK' /\ FramesOK'
  <2>1. LockOK' /\ NeverExhausted'
    BY <1>3, <1>7 DEF LockOK, HoldsPool, NeverExhausted
  <2> QED BY <1>1, <1>8, <2>1 DEF IInv, TagsOK, ActiveOK, FramesOK
<1>11. RegistersOK'
  BY <1>1, <1>3 DEF IInv, RegistersOK
<1>12. TlbOK'
  <2> SUFFICES ASSUME NEW d \in Cpus, NEW e \in tlb[d]
               PROVE  /\ e[2] \in Registry /\ spaces[e[2]] = e[1]
                      /\ \A k \in Cpus : e[1] = saved[k][2] => e[2] = saved[k][1]
    BY <1>1, <1>4, <1>8 DEF TlbOK
  <2> QED BY <1>3 DEF IInv, TlbOK
<1>13. \A k \in Cpus : \A e \in tlb'[k] : e[2] # root
  <2> SUFFICES ASSUME NEW k \in Cpus, NEW e \in tlb'[k], e[2] = root
               PROVE  FALSE
    OBVIOUS
  <2>1. e \in tlb[k] /\ e[1] \in Tags \ Reserved
    BY <1>2, <1>4
  <2>2. spaces[root] = e[1]
    BY <1>3, <2>1 DEF IInv, TlbOK
  <2>3. spaces[root] # Untagged
    BY <2>1, <2>2 DEF Untagged, Reserved
  <2> QED BY <1>4, <2>2, <2>3
<1>14. JobsOK'
  <2>1. \A d \in Cpus : pc'[d] = "FreeFrames" =>
            /\ job'[d][1] \in frames \ Registry
            /\ \A k \in Cpus : pc'[k] = "FreeFrames" /\ job'[k][1] = job'[d][1] => k = d
    BY <1>6, <1>7 DEF IInv, JobsOK
  <2>2. \A d \in Cpus : /\ pc'[d] \notin {"Flush", "Load"}
                        /\ pc'[d] = "Release" => d = c
    BY <1>3, <1>7
  <2>3. \A d \in Cpus : pc'[d] = "Release" =>
            /\ job'[d][1] \in Registry'
            /\ \A k \in Cpus : active'[k][1] # job'[d][1]
            /\ \A k \in Cpus : \A e \in tlb'[k] : e[2] # job'[d][1]
    BY <1>1, <1>6, <1>8, <1>13, <2>2
  <2>4. frames' \ Registry' = frames \ Registry
    BY <1>1, <1>8
  <2> QED BY <2>1, <2>2, <2>3, <2>4 DEF JobsOK
<1> QED BY <1>9, <1>10, <1>11, <1>12, <1>14 DEF IInv

(* Forgetting the space keeps its frames out of every other one until they *)
(* are freed.                                                              *)
LEMMA ReleaseStep ==
    ASSUME IInv, NEW c \in Cpus, release(c)
    PROVE  IInv'
<1> DEFINE r == job[c][1]
<1>1. /\ pc[c] = "Release"
      /\ spaces' = [spaces EXCEPT ![r] = Unregistered]
      /\ pc' = [pc EXCEPT ![c] = "FreeFrames"]
      /\ UNCHANGED <<active, used, next, job, saved, ttbr0, tlb, frames>>
  BY DEF release
<1>2. /\ spaces \in [Roots -> {Unregistered, Untagged} \cup (Tags \ Reserved)]
      /\ pc \in [Cpus -> {"Idle", "Flush", "Load", "Release", "FreeFrames", "Panic"}]
  BY DEF IInv, TypeOK
<1>3. /\ r \in Registry
      /\ \A k \in Cpus : active[k][1] # r
      /\ \A k \in Cpus : \A e \in tlb[k] : e[2] # r
  BY <1>1 DEF IInv, JobsOK
<1>4. \A k \in Cpus : k # c => pc[k] \in {"Idle", "FreeFrames"}
  BY <1>1, <1>2 DEF IInv, LockOK, HoldsPool, NeverExhausted
<1>5. \A k \in Cpus : saved[k] = active[k]
  BY <1>1, <1>4 DEF IInv, RegistersOK
<1> HIDE DEF r
<1>6. r \in Roots
  BY <1>3 DEF Registry
<1>7. /\ spaces' \in [Roots -> {Unregistered, Untagged} \cup (Tags \ Reserved)]
      /\ spaces'[r] = Unregistered
      /\ \A s \in Roots : s # r => spaces'[s] = spaces[s]
  BY <1>1, <1>2, <1>6
<1>8. /\ pc' \in [Cpus -> {"Idle", "Flush", "Load", "Release", "FreeFrames", "Panic"}]
      /\ pc'[c] = "FreeFrames" /\ \A k \in Cpus : k # c => pc'[k] = pc[k]
  BY <1>1, <1>2
<1>9. Registry' = Registry \ {r} /\ Registry \subseteq Roots
  BY <1>7 DEF Registry
<1>10. TypeOK'
  BY <1>1, <1>7, <1>8 DEF IInv, TypeOK
<1>11. LockOK' /\ NeverExhausted' /\ FramesOK'
  <2>1. \A k \in Cpus : pc'[k] \in {"Idle", "FreeFrames"}
    BY <1>4, <1>8
  <2> QED BY <1>1, <1>9, <2>1 DEF IInv, LockOK, HoldsPool, NeverExhausted, FramesOK
<1>12. TagsOK'
  BY <1>1, <1>7, AsidAssumption DEF IInv, TagsOK, Tags, Unregistered
<1>13. ActiveOK' /\ RegistersOK'
  <2>1. \A k \in Cpus : active[k] # Empty => spaces'[active[k][1]] = active[k][2]
    <3> SUFFICES ASSUME NEW k \in Cpus, active[k] # Empty
                 PROVE  spaces'[active[k][1]] = active[k][2]
      OBVIOUS
    <3>1. active[k][1] \in Roots
      BY <1>9, LoadedRegistered
    <3> QED BY <1>3, <1>7, <3>1 DEF IInv, ActiveOK
  <2> QED BY <1>1, <1>5, <2>1 DEF IInv, ActiveOK, RegistersOK
<1>14. TlbOK'
  <2> SUFFICES ASSUME NEW d \in Cpus, NEW e \in tlb[d]
               PROVE  /\ e[2] \in Registry' /\ spaces'[e[2]] = e[1]
                      /\ \A k \in Cpus : e[1] = saved[k][2] => e[2] = saved[k][1]
    BY <1>1 DEF TlbOK
  <2>1. \A k \in Cpus : pc[k] # "Flush"
    BY <1>1, <1>4
  <2>2. e[2] \in Registry /\ spaces[e[2]] = e[1]
    BY <2>1 DEF IInv, TlbOK
  <2>3. \A k \in Cpus : e[1] = saved[k][2] => e[2] = saved[k][1]
    BY DEF IInv, TlbOK
  <2> QED BY <1>3, <1>7, <1>9, <2>2, <2>3
<1>15. JobsOK'
  <2>1. \A d \in Cpus : pc'[d] \in {"Idle", "FreeFrames"}
    BY <1>4, <1>8
  <2>2. \A d \in Cpus : d # c /\ pc'[d] = "FreeFrames" =>
            /\ job[d][1] \in frames \ Registry /\ job[d][1] # r
            /\ \A k \in Cpus : k # c /\ pc'[k] = "FreeFrames" /\ job[k][1] = job[d][1] => k = d
    BY <1>3, <1>8 DEF IInv, JobsOK
  <2>3. r \in frames \ Registry'
    BY <1>3, <1>9 DEF IInv, FramesOK
  <2> QED BY <1>1, <1>9, <2>1, <2>2, <2>3 DEF JobsOK, r
<1> QED BY <1>10, <1>11, <1>12, <1>13, <1>14, <1>15 DEF IInv

(* The frames that go back belong to no registered space. *)
LEMMA FramesStep ==
    ASSUME IInv, NEW c \in Cpus, FreeFrames(c)
    PROVE  IInv'
<1>1. /\ pc[c] = "FreeFrames" /\ frames' = frames \ {job[c][1]}
      /\ pc' = [pc EXCEPT ![c] = "Idle"] /\ job' = [job EXCEPT ![c] = Empty]
      /\ UNCHANGED <<spaces, active, used, next, saved, ttbr0, tlb>>
  BY DEF FreeFrames
<1>2. /\ job \in [Cpus -> (Roots \cup {NoRoot}) \X (0 .. limit)]
      /\ pc \in [Cpus -> {"Idle", "Flush", "Load", "Release", "FreeFrames", "Panic"}]
      /\ Empty \in (Roots \cup {NoRoot}) \X (0 .. limit)
  BY AsidAssumption DEF IInv, TypeOK, Empty
<1>3. /\ job' \in [Cpus -> (Roots \cup {NoRoot}) \X (0 .. limit)]
      /\ pc' \in [Cpus -> {"Idle", "Flush", "Load", "Release", "FreeFrames", "Panic"}]
      /\ pc'[c] = "Idle"
      /\ \A k \in Cpus : k # c => pc'[k] = pc[k] /\ job'[k] = job[k]
  BY <1>1, <1>2
<1>4. Registry' = Registry
  BY <1>1 DEF Registry
<1>5. job[c][1] \notin Registry
  BY <1>1 DEF IInv, JobsOK
<1>6. TypeOK'
  BY <1>1, <1>3 DEF IInv, TypeOK
<1>7. LockOK' /\ NeverExhausted'
  BY <1>3 DEF IInv, LockOK, HoldsPool, NeverExhausted
<1>8. TagsOK' /\ ActiveOK' /\ FramesOK'
  BY <1>1, <1>4, <1>5 DEF IInv, TagsOK, ActiveOK, FramesOK
<1>9. RegistersOK'
  BY <1>1, <1>3 DEF IInv, RegistersOK
<1>10. TlbOK'
  <2>1. (\A k \in Cpus : pc'[k] # "Flush") => \A k \in Cpus : pc[k] # "Flush"
    BY <1>1, <1>3
  <2> QED BY <1>1, <1>4, <2>1 DEF IInv, TlbOK
<1>11. JobsOK'
  <2>1. \A d \in Cpus : d # c /\ pc[d] = "FreeFrames" =>
            /\ job[d][1] \in frames' \ Registry
            /\ \A k \in Cpus : pc[k] = "FreeFrames" /\ job[k][1] = job[d][1] => k = d
    BY <1>1 DEF IInv, JobsOK
  <2>2. \A d \in Cpus : d # c =>
            /\ pc[d] \in {"Flush", "Load"} => job[d] = active[d]
            /\ pc[d] = "Flush" => job[d] # Empty
            /\ pc[d] = "Release" =>
                /\ job[d][1] \in Registry
                /\ \A k \in Cpus : active[k][1] # job[d][1]
                /\ \A k \in Cpus : \A e \in tlb[k] : e[2] # job[d][1]
    BY DEF IInv, JobsOK
  <2> QED BY <1>1, <1>3, <1>4, <2>1, <2>2 DEF JobsOK
<1> QED BY <1>6, <1>7, <1>8, <1>9, <1>10, <1>11 DEF IInv

-----------------------------------------------------------------------------
(* Theorems *)

(* Every step keeps the invariant. *)
LEMMA NextIInv == IInv /\ [Next]_vars => IInv'
<1> SUFFICES ASSUME IInv, [Next]_vars PROVE IInv'
  OBVIOUS
<1>1. CASE UNCHANGED vars
  BY <1>1, StutterStep
<1>2. CASE Next
  <2>1. PICK c \in Cpus :
          \/ \E root \in Roots \cup {NoRoot} : switch_address_space(c, root)
          \/ flush_all(c) \/ LoadTtbr0(c)
          \/ OpenUser(c) \/ CloseUser(c) \/ Fill(c)
          \/ \E root \in Roots : new_address_space(c, root)
          \/ \E root \in Roots : free_address_space(c, root)
          \/ release(c) \/ FreeFrames(c)
    BY <1>2, Zenon DEF Next
  <2> QED BY <2>1, SwitchStep, FlushStep, LoadStep, RegisterStep, NewStep, FreeStep,
             ReleaseStep, FramesStep, Zenon
<1> QED BY <1>1, <1>2

(* The invariant holds for any number of CPUs, roots and tags. *)
THEOREM Invariance == Spec => []IInv
  BY InitIInv, NextIInv, PTL DEF Spec

(* No CPU translates through another space, at any step of a rollover or a *)
(* reuse of a root (switch_address_space, rollover, free_address_space).   *)
THEOREM Isolation == Spec => []OwnTranslations
<1>1. IInv => OwnTranslations
  <2> SUFFICES ASSUME IInv, NEW c \in Cpus, NEW e \in tlb[c], e[1] = ttbr0[c][2]
               PROVE  e[2] = ttbr0[c][1]
    BY DEF OwnTranslations
  <2>1. ttbr0[c] \in {Empty, saved[c]}
    BY DEF IInv, RegistersOK
  <2>2. e[1] # 0
    BY DEF IInv, TypeOK, Reserved
  <2>3. e[1] = saved[c][2] => e[2] = saved[c][1]
    BY DEF IInv, TlbOK
  <2> QED BY <2>1, <2>2, <2>3 DEF Empty
<1> QED BY <1>1, Invariance, PTL

(* free_address_space gives no frame back that a TLB still translates      *)
(* through.                                                                *)
THEOREM NoStaleFrames == Spec => []FreedNotCached
<1>1. IInv => FreedNotCached
  BY DEF IInv, TlbOK, FramesOK, FreedNotCached
<1> QED BY <1>1, Invariance, PTL

(* A loaded tag is not reassigned while it is loaded (rollover). *)
THEOREM LoadedStays == Spec => []LoadedTagKept
<1>1. IInv => LoadedTagKept
  BY DEF IInv, RegistersOK, LoadedTagKept
<1> QED BY <1>1, Invariance, PTL

(* switch_address_space's expect cannot fail: with more tags than CPUs a   *)
(* rollover leaves one.                                                    *)
THEOREM AlwaysATag == Spec => []NeverExhausted
<1>1. IInv => NeverExhausted
  BY DEF IInv
<1> QED BY <1>1, Invariance, PTL

=============================================================================
