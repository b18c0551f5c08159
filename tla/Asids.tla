------------------------------- MODULE Asids -------------------------------
(***************************************************************************)
(* The arm64 ASID pool (src/arch/arm64/asid_pool.rs), the code of mmu.rs   *)
(* that uses it, and the translation caches it keeps apart.                *)
(*                                                                         *)
(* Every user address space is a page-table root.  A CPU that runs in it   *)
(* loads the root into TTBR0 together with a tag (ASID), and its TLB keeps *)
(* translations under that tag across switches.  Tags are few, so they are *)
(* handed out until none is left; then a rollover starts a new generation: *)
(* only the tags some CPU has loaded survive, and all TLBs are flushed     *)
(* before a tag is used again.                                             *)
(*                                                                         *)
(* The pool is guarded by the lock ASIDS, with interrupts off.  The lock   *)
(* covers activate, the flush and the write of TTBR0, but not what the     *)
(* other CPUs' page walkers do meanwhile: Fill may happen at any moment.   *)
(*                                                                         *)
(* A space's generation is only ever compared with the pool's, so a space  *)
(* has a tag of the current generation or is Untagged.                     *)
(***************************************************************************)
EXTENDS Integers, FiniteSets

CONSTANTS
    Cpus,           \* CPUs
    Roots,          \* frames that may hold a page-table root
    NoRoot,         \* root 0, which names no user space
    limit,          \* the largest tag, 2^bits - 1
    IdentityTag,    \* the boot identity map's tag (255 in the code)
    SPACES,         \* size of the registry of spaces (128 in the code)
    SoftwarePan     \* TTBR0 is kept empty while the CPU is in the kernel

Tags == 1 .. limit
Reserved == {0, IdentityTag}

ASSUME AsidAssumption ==
    /\ NoRoot \notin Roots
    /\ limit \in Nat \ {0}
    /\ IdentityTag \in Tags
    /\ SPACES \in Nat \ {0}
    /\ SoftwarePan \in BOOLEAN
    /\ IsFiniteSet(Cpus)
    /\ Cardinality(Tags \ Reserved) > Cardinality(Cpus)

VARIABLES
    spaces,     \* per root: its tag in this generation, Untagged or Unregistered
    active,     \* per CPU <<root, tag>>: the pool's record of what it runs
    used,       \* the bitmap of tags taken in this generation
    next,       \* where the search for a free tag starts
    pc,         \* per CPU: where it is in a pool operation
    job,        \* per CPU: <<root, tag>> of that operation
    saved,      \* SAVED_TTBR0
    ttbr0,      \* the register of each CPU
    tlb,        \* per CPU: the set of <<tag, root>> it holds translations of
    frames      \* the roots whose frames are allocated

vars == <<spaces, active, used, next, pc, job, saved, ttbr0, tlb, frames>>

Unregistered == -1
Untagged == 0

\* The empty translation regime of kernel tasks: no root, tag 0.
Empty == <<NoRoot, 0>>

Init ==
    /\ spaces = [r \in Roots |-> Unregistered]
    /\ active = [c \in Cpus |-> Empty]
    /\ used = Reserved
    /\ next = 1
    /\ pc = [c \in Cpus |-> "Idle"]
    /\ job = [c \in Cpus |-> Empty]
    /\ saved = [c \in Cpus |-> Empty]
    /\ ttbr0 = [c \in Cpus |-> Empty]
    /\ tlb = [c \in Cpus |-> {}]
    /\ frames = {}

\* CPU c is inside a critical section of ASIDS.
HoldsPool(c) == pc[c] \in {"Flush", "Load", "Release"}

\* The roots in the registry.
Registry == {r \in Roots : spaces[r] # Unregistered}

PoolFree == \A c \in Cpus : ~HoldsPool(c)

\* CPU c may start a pool operation.
MayLock(c) == pc[c] = "Idle" /\ PoolFree

-----------------------------------------------------------------------------
(* The pool *)

\* How many steps the search that starts at n takes to reach tag t.
Ahead(t, n) == IF t >= n THEN t - n ELSE t - n + limit

\* allocate: the tag the search finds, if there is one.
allocate(taken, n) ==
    {t \in Tags \ taken : \A u \in Tags \ taken : Ahead(t, n) =< Ahead(u, n)}

\* Where the next search starts once tag t has been found.
NextAfter(t) == IF t = limit THEN 1 ELSE t + 1

(* Mutant: a rollover forgets what the CPUs have loaded. *)
KeptNone == {}

\* What a rollover preserves: each root a CPU runs, with its tag.
Kept == {active[c] : c \in Cpus} \ {Empty}

(* Mutant: a rollover does not clear the bitmap. *)
rollover_used_unchanged == used \cup Reserved \cup {a[2] : a \in Kept}

\* rollover: the bitmap of the new generation.
rollover_used == Reserved \cup {a[2] : a \in Kept}

\* rollover: the spaces' tags in the new generation.
rollover_spaces ==
    [r \in Roots |->
        IF r \notin Registry THEN Unregistered
        ELSE IF \E a \in Kept : a[1] = r THEN (CHOOSE a \in Kept : a[1] = r)[2]
        ELSE Untagged]

(* Mutant: the flush a rollover asks for is skipped. *)
AfterActivateUnflushed(flush) == "Load"

\* What switch_address_space does after activate: flush first if it must.
AfterActivate(flush) == IF flush THEN "Flush" ELSE "Load"

\* The end of activate: the space has its tag, the CPU is recorded in it.
Activated(c, root, tag, flush) ==
    /\ active' = [active EXCEPT ![c] = <<root, tag>>]
    /\ job' = [job EXCEPT ![c] = <<root, tag>>]
    /\ pc' = [pc EXCEPT ![c] = AfterActivate(flush)]

\* activate of the kernel's empty regime.
ActivateKernel(c, root) ==
    /\ root = NoRoot
    /\ Activated(c, NoRoot, 0, FALSE)
    /\ UNCHANGED <<spaces, used, next>>

\* activate of a space that has its tag.
ActivateCurrent(c, root) ==
    /\ root # NoRoot
    /\ spaces[root] # Untagged
    /\ Activated(c, root, spaces[root], FALSE)
    /\ UNCHANGED <<spaces, used, next>>

\* activate of a space without a tag, while tags are left.
ActivateFresh(c, root) ==
    /\ root # NoRoot
    /\ spaces[root] = Untagged
    /\ \E tag \in allocate(used, next) :
        /\ spaces' = [spaces EXCEPT ![root] = tag]
        /\ used' = used \cup {tag}
        /\ next' = NextAfter(tag)
        /\ Activated(c, root, tag, FALSE)

\* activate of a space without a tag when no tag is left.  Without a tag after
\* the rollover either, it returns None (tag 0) and records nothing.
ActivateRollover(c, root) ==
    /\ root # NoRoot
    /\ spaces[root] = Untagged
    /\ Tags \subseteq used
    /\ IF rollover_spaces[root] # Untagged
       THEN /\ spaces' = rollover_spaces
            /\ used' = rollover_used
            /\ next' = 1
            /\ Activated(c, root, rollover_spaces[root], TRUE)
       ELSE IF Tags \subseteq rollover_used
       THEN /\ spaces' = rollover_spaces
            /\ used' = rollover_used
            /\ next' = 1
            /\ job' = [job EXCEPT ![c] = <<root, 0>>]
            /\ pc' = [pc EXCEPT ![c] = AfterActivate(TRUE)]
            /\ UNCHANGED active
       ELSE \E tag \in allocate(rollover_used, 1) :
            /\ spaces' = [rollover_spaces EXCEPT ![root] = tag]
            /\ used' = rollover_used \cup {tag}
            /\ next' = NextAfter(tag)
            /\ Activated(c, root, tag, TRUE)

-----------------------------------------------------------------------------
(* switch_address_space *)

\* Enter: a root that is already active is kept; otherwise activate under the
\* lock.  The scheduler only switches to the space of a live task.
switch_address_space(c, root) ==
    /\ MayLock(c)
    /\ SoftwarePan => ttbr0[c] = Empty
    /\ root \in Registry \cup {NoRoot}
    /\ active[c][1] # root
    /\ \/ ActivateKernel(c, root)
       \/ ActivateCurrent(c, root)
       \/ ActivateFresh(c, root)
       \/ ActivateRollover(c, root)
    /\ UNCHANGED <<saved, ttbr0, tlb, frames>>

\* tlbi vmalle1is: every CPU's TLB is emptied.  Without a tag the kernel panics.
flush_all(c) ==
    /\ pc[c] = "Flush"
    /\ tlb' = [k \in Cpus |-> {}]
    /\ pc' = [pc EXCEPT ![c] = IF job[c][2] = 0 THEN "Panic" ELSE "Load"]
    /\ UNCHANGED <<spaces, active, used, next, job, saved, ttbr0, frames>>

\* The rest: TTBR0 is written and the lock dropped.  Under software PAN the
\* register stays empty until the CPU opens user memory.
LoadTtbr0(c) ==
    /\ pc[c] = "Load"
    /\ saved' = [saved EXCEPT ![c] = job[c]]
    /\ ttbr0' = [ttbr0 EXCEPT ![c] = IF SoftwarePan THEN Empty ELSE job[c]]
    /\ pc' = [pc EXCEPT ![c] = "Idle"]
    /\ job' = [job EXCEPT ![c] = Empty]
    /\ UNCHANGED <<spaces, active, used, next, tlb, frames>>

\* Software PAN: a copy window or the return to user mode loads the saved
\* register, the end of the window or a kernel entry empties it.  Both happen
\* with interrupts off, outside pool operations.
OpenUser(c) ==
    /\ SoftwarePan
    /\ pc[c] = "Idle"
    /\ ttbr0' = [ttbr0 EXCEPT ![c] = saved[c]]
    /\ UNCHANGED <<spaces, active, used, next, pc, job, saved, tlb, frames>>

CloseUser(c) ==
    /\ SoftwarePan
    /\ ttbr0' = [ttbr0 EXCEPT ![c] = Empty]
    /\ UNCHANGED <<spaces, active, used, next, pc, job, saved, tlb, frames>>

\* The page walker of CPU c caches a translation of the space it has loaded.
\* The empty root has none.
Fill(c) ==
    /\ ttbr0[c] # Empty
    /\ tlb' = [tlb EXCEPT ![c] = @ \cup {<<ttbr0[c][2], ttbr0[c][1]>>}]
    /\ UNCHANGED <<spaces, active, used, next, pc, job, saved, ttbr0, frames>>

-----------------------------------------------------------------------------
(* Creation and destruction of address spaces *)

\* new_address_space: a free frame becomes a root if the registry has room,
\* and is freed again if not.
new_address_space(c, root) ==
    /\ MayLock(c)
    /\ root \in Roots \ frames
    /\ IF Cardinality(Registry) < SPACES
       THEN /\ spaces' = [spaces EXCEPT ![root] = Untagged]
            /\ frames' = frames \cup {root}
       ELSE UNCHANGED <<spaces, frames>>
    /\ UNCHANGED <<active, used, next, pc, job, saved, ttbr0, tlb>>

(* Mutant: the space's tag is not invalidated. *)
invalidate_tag_none(tag) == tlb

\* tlbi aside1is: every CPU drops its translations with this tag.
invalidate_tag(tag) == [k \in Cpus |-> {e \in tlb[k] : e[1] # tag}]

\* free_address_space: invalidate the tag the space has in this generation.
\* The reaper calls it once no CPU has the space loaded.
free_address_space(c, root) ==
    /\ MayLock(c)
    /\ root \in Registry
    /\ \A k \in Cpus : active[k][1] # root
    /\ tlb' = IF spaces[root] # Untagged THEN invalidate_tag(spaces[root]) ELSE tlb
    /\ job' = [job EXCEPT ![c] = <<root, spaces[root]>>]
    /\ pc' = [pc EXCEPT ![c] = "Release"]
    /\ UNCHANGED <<spaces, active, used, next, saved, ttbr0, frames>>

\* release: forget the space.  Its tag stays marked until the next rollover.
release(c) ==
    /\ pc[c] = "Release"
    /\ spaces' = [spaces EXCEPT ![job[c][1]] = Unregistered]
    /\ pc' = [pc EXCEPT ![c] = "FreeFrames"]
    /\ UNCHANGED <<active, used, next, job, saved, ttbr0, tlb, frames>>

\* The lock is dropped and the tables go back to the frame allocator.
FreeFrames(c) ==
    /\ pc[c] = "FreeFrames"
    /\ frames' = frames \ {job[c][1]}
    /\ pc' = [pc EXCEPT ![c] = "Idle"]
    /\ job' = [job EXCEPT ![c] = Empty]
    /\ UNCHANGED <<spaces, active, used, next, saved, ttbr0, tlb>>

Next ==
    \E c \in Cpus :
        \/ \E root \in Roots \cup {NoRoot} : switch_address_space(c, root)
        \/ flush_all(c)
        \/ LoadTtbr0(c)
        \/ OpenUser(c)
        \/ CloseUser(c)
        \/ Fill(c)
        \/ \E root \in Roots : new_address_space(c, root)
        \/ \E root \in Roots : free_address_space(c, root)
        \/ release(c)
        \/ FreeFrames(c)

Spec == Init /\ [][Next]_vars

-----------------------------------------------------------------------------
(* Properties *)

\* The registers of a CPU: a root and its tag, or the empty regime.
Regimes == {Empty} \cup (Roots \X (Tags \ Reserved))

\* Every variable has its type; no user space has a reserved tag.
TypeOK ==
    /\ spaces \in [Roots -> {Unregistered, Untagged} \cup (Tags \ Reserved)]
    /\ active \in [Cpus -> Regimes]
    /\ used \subseteq 0 .. limit /\ Reserved \subseteq used
    /\ next \in Tags
    /\ pc \in [Cpus -> {"Idle", "Flush", "Load", "Release", "FreeFrames", "Panic"}]
    /\ job \in [Cpus -> (Roots \cup {NoRoot}) \X (0 .. limit)]
    /\ saved \in [Cpus -> Regimes]
    /\ ttbr0 \in [Cpus -> Regimes]
    /\ tlb \in [Cpus -> SUBSET ((Tags \ Reserved) \X Roots)]
    /\ frames \subseteq Roots

\* No CPU can use another space's translation: what its TLB holds under the tag
\* it has loaded comes from the root it has loaded, at every step of a rollover
\* and of a reuse of roots (switch_address_space, asid_self_test).
OwnTranslations ==
    \A c \in Cpus : \A e \in tlb[c] : e[1] = ttbr0[c][2] => e[2] = ttbr0[c][1]

\* When the frames of a space go back, no TLB holds a translation through them
\* (free_address_space), whichever generation its tag was from.
FreedNotCached == \A c \in Cpus : \A e \in tlb[c] : e[2] \in frames

\* A tag that a CPU has loaded stays its space's tag until the CPU switches,
\* whatever the other CPUs roll over or free ("it cannot be reassigned
\* meanwhile", rollover).
LoadedTagKept ==
    \A c \in Cpus : ttbr0[c] # Empty => spaces[ttbr0[c][1]] = ttbr0[c][2]

\* A rollover always leaves a tag for the space that is being loaded
\* (switch_address_space's expect never fails).
NeverExhausted == \A c \in Cpus : pc[c] # "Panic"

-----------------------------------------------------------------------------
(* The inductive invariant *)

\* At most one CPU is inside a critical section of ASIDS.
LockOK == \A c, k \in Cpus : HoldsPool(c) /\ HoldsPool(k) => c = k

\* A tag of this generation is marked, and belongs to one space.
TagsOK ==
    \A r, s \in Roots : spaces[r] \in Tags =>
        /\ spaces[r] \in used
        /\ spaces[s] = spaces[r] => s = r

\* The space a CPU is recorded in has the recorded tag.
ActiveOK == \A c \in Cpus : active[c] # Empty => spaces[active[c][1]] = active[c][2]

\* Outside a switch the saved register is what the pool has recorded, and even
\* within one its tag is not reassigned.  TTBR0 holds nothing else.
RegistersOK ==
    \A c \in Cpus :
        /\ pc[c] \notin {"Flush", "Load"} => saved[c] = active[c]
        /\ saved[c] # Empty => spaces[saved[c][1]] = saved[c][2]
        /\ ttbr0[c] \in {Empty, saved[c]}

\* What a CPU inside a pool operation works on.
JobsOK ==
    \A c \in Cpus :
        /\ pc[c] \in {"Flush", "Load"} => job[c] = active[c]
        /\ pc[c] = "Flush" => job[c] # Empty
        /\ pc[c] = "Release" =>
            /\ job[c][1] \in Registry
            /\ \A k \in Cpus : active[k][1] # job[c][1]
            /\ \A k \in Cpus : \A e \in tlb[k] : e[2] # job[c][1]
        /\ pc[c] = "FreeFrames" =>
            /\ job[c][1] \in frames \ Registry
            /\ \A k \in Cpus : pc[k] = "FreeFrames" /\ job[k][1] = job[c][1] => k = c

\* Cached translations are of registered spaces, under their tags unless a flush
\* is due, and under no tag that another space may load.
TlbOK ==
    \A c \in Cpus : \A e \in tlb[c] :
        /\ e[2] \in Registry
        /\ (\A k \in Cpus : pc[k] # "Flush") => spaces[e[2]] = e[1]
        /\ \A k \in Cpus : e[1] = saved[k][2] => e[2] = saved[k][1]

\* Registered spaces own their frames.
FramesOK == Registry \subseteq frames

IInv ==
    /\ TypeOK
    /\ LockOK
    /\ TagsOK
    /\ ActiveOK
    /\ RegistersOK
    /\ JobsOK
    /\ TlbOK
    /\ FramesOK
    /\ NeverExhausted
=============================================================================
