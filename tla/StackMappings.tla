--------------------------- MODULE StackMappings ---------------------------
(***************************************************************************)
(* Guarded kernel stacks (src/memory/stacks.rs): mapping, unmapping and    *)
(* the TLB shootdown (src/arch/amd64/wx.rs, src/arch/arm64/stacks.rs).     *)
(*                                                                         *)
(* A stack is a virtual slot that is used once, backed by a frame, in a    *)
(* page table that the slots of a region share.  The last stack of a       *)
(* region takes the table away with it.  Every CPU caches leaf entries     *)
(* (tlb) and table entries (walk) of the kernel's shared tables.  Before   *)
(* frames go back to the allocator, every CPU must have dropped them: by   *)
(* a broadcast instruction on arm64, by interrupts on amd64 (Ipi).         *)
(*                                                                         *)
(* MAPPINGS is held, with interrupts off, from the change of the tables to *)
(* the return of the frames.  Contenders spin with interrupts on, others   *)
(* spin for FRAME_LOCK with interrupts off.  Two more locks are left out:  *)
(* SHOOTDOWN, which only the holder of MAPPINGS takes, and the scheduler's *)
(* lock, which boot_cpu_targets takes and gives back before the first      *)
(* interrupt is sent; its holders wait for none of the other locks.        *)
(***************************************************************************)
EXTENDS Integers, FiniteSets

CONSTANTS
    Cpus, NoCpu,
    Frames, NoFrame,
    LIMIT,          \* the last slot of the stack region
    PerTable,       \* slots that share a page table
    Ipi             \* shootdown by interrupt, not by broadcast

Slots == 1 .. LIMIT
Region(v) == v \div PerTable
Regions == {Region(v) : v \in Slots}

ASSUME StackAssumption ==
    /\ NoCpu \notin Cpus
    /\ NoFrame \notin Frames
    /\ LIMIT \in Nat
    /\ PerTable \in Nat \ {0}
    /\ Ipi \in BOOLEAN

VARIABLES
    NEXT,           \* the next slot
    leaf,           \* per slot: the frame its entry names
    table,          \* per region: the frame of its page table
    free,           \* the frame allocator's free frames
    stacks,         \* slots whose owner may release them
    MAPPINGS,       \* the lock's holder
    FRAME_LOCK,     \* the lock's holder, when held by other code
    pc,             \* per CPU: where it is
    slot,           \* per CPU: the slot it releases
    pages,          \* per CPU: the frames it will give back
    todo,           \* per CPU: CPUs it has still to interrupt
    ipi,            \* per CPU: a shootdown interrupt is pending
    ACK,            \* per CPU: the interrupt has been answered
    handler,        \* per CPU: it is inside tlb_handler, after the flush
    tlb, walk       \* per CPU: cached <<slot, frame>> and <<region, frame>>

tables == <<NEXT, leaf, table, free, stacks>>
locks == <<MAPPINGS, FRAME_LOCK>>
work == <<slot, pages, todo>>
interrupt == <<ipi, ACK, handler>>
caches == <<tlb, walk>>
vars == <<tables, locks, pc, work, interrupt, caches>>

Init ==
    /\ NEXT = 1
    /\ leaf = [v \in Slots |-> NoFrame]
    /\ table = [r \in Regions |-> NoFrame]
    /\ free = Frames
    /\ stacks = {}
    /\ MAPPINGS = NoCpu
    /\ FRAME_LOCK = NoCpu
    /\ pc = [c \in Cpus |-> "Idle"]
    /\ slot = [c \in Cpus |-> 0]
    /\ pages = [c \in Cpus |-> {}]
    /\ todo = [c \in Cpus |-> {}]
    /\ ipi = [c \in Cpus |-> FALSE]
    /\ ACK = [c \in Cpus |-> FALSE]
    /\ handler = [c \in Cpus |-> FALSE]
    /\ tlb = [c \in Cpus |-> {}]
    /\ walk = [c \in Cpus |-> {}]

\* CPU c, at p, executes task code and not the interrupt handler.
At(c, p) == pc[c] = p /\ ~handler[c]

Goto(c, p) == pc' = [pc EXCEPT ![c] = p]

\* Interrupts are on: outside the critical sections, also while spinning for
\* MAPPINGS.
Interruptible(c) == At(c, "Idle") \/ At(c, "TryAllocate") \/ At(c, "TryRelease")

-----------------------------------------------------------------------------
(* with_mappings *)

\* A task wants a stack.  Slots enough for everyone who wants one bound the
\* model; in the code they are 2^23, and running out of them is a panic.
StartAllocate(c) ==
    /\ At(c, "Idle")
    /\ NEXT + Cardinality({k \in Cpus : pc[k] \in {"TryAllocate", "Allocate"}}) =< LIMIT
    /\ Goto(c, "TryAllocate")
    /\ UNCHANGED <<tables, locks, work, interrupt, caches>>

\* The owner of a stack (the reaper) gives it back.
StartRelease(c, v) ==
    /\ At(c, "Idle")
    /\ v \in stacks
    /\ stacks' = stacks \ {v}
    /\ slot' = [slot EXCEPT ![c] = v]
    /\ Goto(c, "TryRelease")
    /\ UNCHANGED <<NEXT, leaf, table, free, locks, pages, todo, interrupt, caches>>

\* with_mappings: try_lock succeeds.  An attempt that fails changes nothing.
with_mappings(c) ==
    /\ MAPPINGS = NoCpu
    /\ MAPPINGS' = c
    /\ \/ At(c, "TryAllocate") /\ Goto(c, "Allocate")
       \/ At(c, "TryRelease") /\ Goto(c, "Unmap")
    /\ UNCHANGED <<tables, FRAME_LOCK, work, interrupt, caches>>

\* The end of the closure: MAPPINGS is dropped.
LeaveMappings(c) ==
    /\ MAPPINGS' = NoCpu
    /\ Goto(c, "Idle")

-----------------------------------------------------------------------------
(* allocate_sized *)

\* A table for the region of v, taken from the frames fs, unless it has one.
\* The operator is the set of choices; NoFrame: none is needed.
TableChoices(v, fs) == IF table[Region(v)] = NoFrame THEN fs ELSE {NoFrame}

\* A fresh slot, a frame and perhaps a table.  Without a frame the code panics.
allocate_sized(c) ==
    /\ At(c, "Allocate")
    /\ FRAME_LOCK = NoCpu
    /\ NEXT =< LIMIT
    /\ NEXT' = NEXT + 1
    /\ \E f \in free : \E t \in TableChoices(NEXT, free \ {f}) :
        /\ leaf' = [leaf EXCEPT ![NEXT] = f]
        /\ table' = IF t = NoFrame THEN table ELSE [table EXCEPT ![Region(NEXT)] = t]
        /\ free' = free \ {f, t}
    /\ stacks' = stacks \cup {NEXT}
    /\ LeaveMappings(c)
    /\ UNCHANGED <<FRAME_LOCK, work, interrupt, caches>>

-----------------------------------------------------------------------------
(* release_sized *)

(* Mutant: the table is taken away whoever still uses it. *)
LastOfRegionAny(v) == TRUE

\* detach_empty: slot v is the last one mapped in its region.
LastOfRegion(v) ==
    \A w \in Slots \ {v} : Region(w) = Region(v) => leaf[w] = NoFrame

\* unmap and detach_empty: the frames stay with the caller.
Unmap(c) ==
    /\ At(c, "Unmap")
    /\ FRAME_LOCK = NoCpu
    /\ LET v == slot[c] IN
        /\ leaf' = [leaf EXCEPT ![v] = NoFrame]
        /\ IF LastOfRegion(v)
           THEN /\ table' = [table EXCEPT ![Region(v)] = NoFrame]
                /\ pages' = [pages EXCEPT ![c] = {leaf[v], table[Region(v)]}]
           ELSE /\ pages' = [pages EXCEPT ![c] = {leaf[v]}]
                /\ UNCHANGED table
    /\ Goto(c, "Invalidate")
    /\ UNCHANGED <<NEXT, free, stacks, locks, slot, todo, interrupt, caches>>

\* The caches when the CPUs in set S have flushed.
Flushed(S) ==
    /\ tlb' = [k \in Cpus |-> IF k \in S THEN {} ELSE tlb[k]]
    /\ walk' = [k \in Cpus |-> IF k \in S THEN {} ELSE walk[k]]

\* invalidate: everywhere at once, or here first and then by interrupt.
invalidate(c) ==
    /\ At(c, "Invalidate")
    /\ Flushed(IF Ipi THEN {c} ELSE Cpus)
    /\ todo' = [todo EXCEPT ![c] = IF Ipi THEN Cpus \ {c} ELSE {}]
    /\ Goto(c, IF Ipi THEN "Send" ELSE "Free")
    /\ UNCHANGED <<tables, locks, slot, pages, interrupt>>

\* invalidate_shared: clear the CPU's flag, send it the interrupt.
SendIpi(c, k) ==
    /\ At(c, "Send")
    /\ k \in todo[c]
    /\ ACK' = [ACK EXCEPT ![k] = FALSE]
    /\ ipi' = [ipi EXCEPT ![k] = TRUE]
    /\ todo' = [todo EXCEPT ![c] = @ \ {k}]
    /\ UNCHANGED <<tables, locks, pc, slot, pages, handler, caches>>

(* Mutant: everyone is interrupted again instead of waited for. *)
AllAckedAgain(c) ==
    /\ At(c, "Send")
    /\ todo[c] = {}
    /\ Goto(c, IF \A k \in Cpus \ {c} : ACK[k] THEN "Free" ELSE "Invalidate")
    /\ UNCHANGED <<tables, locks, work, interrupt, caches>>

(* Mutant: the flags are not waited for. *)
AllAckedUnwaited(c) ==
    /\ At(c, "Send")
    /\ todo[c] = {}
    /\ Goto(c, "Free")
    /\ UNCHANGED <<tables, locks, work, interrupt, caches>>

\* invalidate_shared: wait for everyone's flag.
AllAcked(c) ==
    /\ At(c, "Send")
    /\ todo[c] = {}
    /\ \A k \in Cpus \ {c} : ACK[k]
    /\ Goto(c, "Free")
    /\ UNCHANGED <<tables, locks, work, interrupt, caches>>

\* deallocate_frame for every page and table.
FreeFrames(c) ==
    /\ At(c, "Free")
    /\ FRAME_LOCK = NoCpu
    /\ free' = free \cup pages[c]
    /\ pages' = [pages EXCEPT ![c] = {}]
    /\ LeaveMappings(c)
    /\ UNCHANGED <<NEXT, leaf, table, stacks, FRAME_LOCK, slot, todo, interrupt, caches>>

-----------------------------------------------------------------------------
(* The interrupt, and the rest of the system *)

(* Mutant: the interrupt is answered without a flush. *)
tlb_handler_unflushed(c) ==
    /\ ipi[c]
    /\ Interruptible(c)
    /\ ipi' = [ipi EXCEPT ![c] = FALSE]
    /\ handler' = [handler EXCEPT ![c] = TRUE]
    /\ UNCHANGED <<tables, locks, pc, work, ACK, caches>>

\* tlb_handler: flush.
tlb_handler(c) ==
    /\ ipi[c]
    /\ Interruptible(c)
    /\ ipi' = [ipi EXCEPT ![c] = FALSE]
    /\ handler' = [handler EXCEPT ![c] = TRUE]
    /\ Flushed({c})
    /\ UNCHANGED <<tables, locks, pc, work, ACK>>

\* tlb_handler: answer.
TlbAck(c) ==
    /\ handler[c]
    /\ handler' = [handler EXCEPT ![c] = FALSE]
    /\ ACK' = [ACK EXCEPT ![c] = TRUE]
    /\ UNCHANGED <<tables, locks, pc, work, ipi, caches>>

\* Other code uses the frame allocator: it spins and works with interrupts off.
with_frame_allocator(c) ==
    /\ \/ /\ At(c, "Idle")
          /\ Goto(c, "FrameSpin")
          /\ UNCHANGED FRAME_LOCK
       \/ /\ At(c, "FrameSpin")
          /\ FRAME_LOCK = NoCpu
          /\ FRAME_LOCK' = c
          /\ Goto(c, "InFrames")
       \/ /\ At(c, "InFrames")
          /\ FRAME_LOCK' = NoCpu
          /\ Goto(c, "Idle")
    /\ UNCHANGED <<tables, MAPPINGS, work, interrupt, caches>>

\* The page walker of CPU c looks slot v up, on an access or speculatively.
Fill(c, v) ==
    /\ table[Region(v)] # NoFrame
    /\ walk' = [walk EXCEPT ![c] = @ \cup {<<Region(v), table[Region(v)]>>}]
    /\ tlb' = IF leaf[v] = NoFrame THEN tlb
              ELSE [tlb EXCEPT ![c] = @ \cup {<<v, leaf[v]>>}]
    /\ UNCHANGED <<tables, locks, pc, work, interrupt>>

Next ==
    \E c \in Cpus :
        \/ StartAllocate(c)
        \/ \E v \in Slots : StartRelease(c, v)
        \/ with_mappings(c)
        \/ allocate_sized(c)
        \/ Unmap(c)
        \/ invalidate(c)
        \/ \E k \in Cpus : SendIpi(c, k)
        \/ AllAcked(c)
        \/ FreeFrames(c)
        \/ tlb_handler(c)
        \/ TlbAck(c)
        \/ with_frame_allocator(c)
        \/ \E v \in Slots : Fill(c, v)

Spec == Init /\ [][Next]_vars

\* What CPU c does once it has started a call, outside the interrupt handler.
Proceed(c) ==
    \/ with_mappings(c)
    \/ allocate_sized(c)
    \/ Unmap(c)
    \/ invalidate(c)
    \/ \E k \in Cpus : SendIpi(c, k)
    \/ AllAcked(c)
    \/ FreeFrames(c)
    \/ pc[c] # "Idle" /\ with_frame_allocator(c)

\* A CPU goes on with its code.  A spinning CPU gets a lock that is free again
\* and again, and a pending interrupt gets through when interrupts are enabled
\* again and again (strong fairness).
Fairness ==
    \A c \in Cpus :
        /\ SF_vars(Proceed(c))
        /\ SF_vars(tlb_handler(c))
        /\ WF_vars(TlbAck(c))

FairSpec == Spec /\ Fairness

-----------------------------------------------------------------------------
(* Properties *)

FrameOrNone == Frames \cup {NoFrame}

Places == {"Idle", "TryAllocate", "TryRelease", "Allocate", "Unmap",
           "Invalidate", "Send", "Free", "FrameSpin", "InFrames"}

\* Every variable has its type.
TypeOK ==
    /\ NEXT \in 1 .. LIMIT + 1
    /\ leaf \in [Slots -> FrameOrNone]
    /\ table \in [Regions -> FrameOrNone]
    /\ free \subseteq Frames
    /\ stacks \subseteq Slots
    /\ MAPPINGS \in Cpus \cup {NoCpu}
    /\ FRAME_LOCK \in Cpus \cup {NoCpu}
    /\ pc \in [Cpus -> Places]
    /\ slot \in [Cpus -> Slots \cup {0}]
    /\ pages \in [Cpus -> SUBSET Frames]
    /\ todo \in [Cpus -> SUBSET Cpus]
    /\ ipi \in [Cpus -> BOOLEAN]
    /\ ACK \in [Cpus -> BOOLEAN]
    /\ handler \in [Cpus -> BOOLEAN]
    /\ tlb \in [Cpus -> SUBSET (Slots \X Frames)]
    /\ walk \in [Cpus -> SUBSET (Regions \X Frames)]

\* A frame that is back with the allocator is reached through no CPU's caches,
\* neither as a stack page nor as a page table ("reclaimed only after the old
\* mapping is invalidated on every CPU", stacks.rs).
FreedUnreachable ==
    \A c \in Cpus :
        /\ \A e \in tlb[c] : e[2] \notin free
        /\ \A e \in walk[c] : e[2] \notin free

\* A region's table is replaced only when no CPU caches the detached one ("ARM
\* break-before-make must finish before a later stack recreates a detached
\* table", stacks.rs), and a slot never names two frames.
BreakBeforeMake ==
    \A c \in Cpus :
        /\ \A e \in walk[c] : table[e[1]] \in {NoFrame, e[2]}
        /\ \A e \in tlb[c] : leaf[e[1]] \in {NoFrame, e[2]}

\* A stack that is being used has its pages: its slot is mapped, through a table,
\* whatever is released around it.
StacksMapped == \A v \in stacks : leaf[v] # NoFrame /\ table[Region(v)] # NoFrame

\* A release ends: the shootdown is answered by every CPU, although CPUs spin for
\* MAPPINGS and for FRAME_LOCK meanwhile ("would deadlock", with_mappings).
ReleaseEnds == \A c \in Cpus : pc[c] = "TryRelease" ~> pc[c] = "Idle"

-----------------------------------------------------------------------------
(* The inductive invariant *)

\* CPU c holds MAPPINGS.
InMappings(c) == pc[c] \in {"Allocate", "Unmap", "Invalidate", "Send", "Free"}

LockOK == \A c \in Cpus : InMappings(c) => MAPPINGS = c

\* A frame is free, a stack's page, a page table, or on its way back; it is one
\* of these only.
FramesOK ==
    /\ \A v \in Slots : leaf[v] # NoFrame =>
        /\ leaf[v] \notin free
        /\ \A w \in Slots : leaf[w] = leaf[v] => w = v
        /\ \A r \in Regions : table[r] # leaf[v]
        /\ \A c \in Cpus : leaf[v] \notin pages[c]
    /\ \A r \in Regions : table[r] # NoFrame =>
        /\ table[r] \notin free
        /\ \A q \in Regions : table[q] = table[r] => q = r
        /\ \A c \in Cpus : table[r] \notin pages[c]
    /\ \A c \in Cpus : pages[c] \cap free = {}

\* A slot that was never handed out is not mapped; a mapped one has a table.
SlotsOK ==
    \A v \in Slots :
        /\ v >= NEXT => leaf[v] = NoFrame /\ v \notin stacks
        /\ leaf[v] # NoFrame => table[Region(v)] # NoFrame

\* CPU c has taken a stack from its owner and not unmapped it yet.
Releasing(c) == pc[c] \in {"TryRelease", "Unmap"}

\* Stacks in use and stacks about to be unmapped are mapped, and have one owner.
StacksOK ==
    /\ \A v \in stacks : leaf[v] # NoFrame
    /\ \A c \in Cpus : Releasing(c) =>
        /\ slot[c] \in Slots \ stacks
        /\ leaf[slot[c]] # NoFrame
        /\ \A k \in Cpus : Releasing(k) /\ slot[k] = slot[c] => k = c

\* An interrupt that is pending or being handled belongs to the shootdown under
\* way, which waits for its answer.
InterruptsOK ==
    \A c \in Cpus :
        /\ ipi[c] \/ handler[c] =>
            /\ ~ACK[c]
            /\ \E k \in Cpus \ {c} : pc[k] = "Send" /\ c \notin todo[k]
        /\ ~(ipi[c] /\ handler[c])

\* CPU c may still cache what CPU k has unmapped.
Unflushed(k, c) ==
    \/ pc[k] = "Invalidate"
    \/ pc[k] = "Send" /\ (c \in todo[k] \/ ipi[c])

\* Cached entries are in the tables, or the shootdown under way will remove them
\* before their frames go back.
CachesOK ==
    \A c \in Cpus :
        /\ \A e \in tlb[c] :
            \/ leaf[e[1]] = e[2]
            \/ leaf[e[1]] = NoFrame /\ \E k \in Cpus : e[2] \in pages[k] /\ Unflushed(k, c)
        /\ \A e \in walk[c] :
            \/ table[e[1]] = e[2]
            \/ table[e[1]] = NoFrame /\ \E k \in Cpus : e[2] \in pages[k] /\ Unflushed(k, c)

\* Frames are on their way back, and CPUs to be interrupted, only in a release.
WorkOK ==
    \A c \in Cpus :
        /\ pages[c] # {} => pc[c] \in {"Invalidate", "Send", "Free"}
        /\ todo[c] # {} => pc[c] = "Send"
        /\ c \notin todo[c]
        /\ handler[c] => pc[c] \in {"Idle", "TryAllocate", "TryRelease"}

IInv ==
    /\ TypeOK
    /\ LockOK
    /\ FramesOK
    /\ SlotsOK
    /\ StacksOK
    /\ InterruptsOK
    /\ CachesOK
    /\ WorkOK
=============================================================================
