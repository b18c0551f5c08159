------------------------------- MODULE Memory -------------------------------
(***************************************************************************)
(* The parts of memory management: physical frames, the kernel heap, the   *)
(* guard-page allocator and user address spaces.  Each takes the guarantee *)
(* of the one below as given (a free frame is zero, a mapped page stays    *)
(* mapped), so TLC explores them one after the other: a behaviour is a     *)
(* behaviour of one part.  The parts other than Frames share a1 ... a11.   *)
(***************************************************************************)
EXTENDS Frames

CONSTANTS
    PAGE, MIN_STRIDE, MAX_STRIDE, DOMAINS, MAX_SLABS, Layouts, START, INITIAL, CHUNK, LIMIT, FRAMES,
                                                        \* see Heap
    Cpus, Samples, Reaper, NoCpu,                       \* see Kfence
    USER_BASE, IMAGE_LIMIT, USER_END, MAX_IMAGE, MAX_ALIGN, MAX_RELOCS, MAX_DYNAMIC, MAX_SEGMENTS,
    MAX_FLAT_IMAGE, STACK_PAGES, STACK_GAP, USER_PAGE,
    Scenarios, FANOUT, TOP, Lens, NoFrame               \* see UserMemory

VARIABLES part, a1, a2, a3, a4, a5, a6, a7, a8, a9, a10, a11

H == INSTANCE Heap WITH
    slabs <- a1, lists <- a2, word <- a3, live_bytes <- a4, reserved_bytes <- a5,
    allocations <- a6, next <- a7, end <- a8, tables <- a9, objects <- a10, fatal <- a11

K == INSTANCE Kfence WITH
    state <- a1, mapped <- a2, recorded <- a3, COUNTERS <- a4, counts <- a5, pc <- a6,
    cur <- a7, held <- a8, corrupt <- a9

U == INSTANCE UserMemory WITH
    PAGE <- USER_PAGE, scenario <- a1, free <- a2, SLOTS <- a3, job <- a4, tables <- a5,
    leaf <- a6, mem <- a7, images <- a8, copied <- a9

OtherVars == <<a1, a2, a3, a4, a5, a6, a7, a8, a9, a10, a11>>

NoFrames == /\ map = 0 /\ header = 0 /\ bitmap = {} /\ zeroed = {} /\ total_frames = 0
            /\ free_frames = 0 /\ last_search = 0 /\ held = {} /\ dirty = {}

MemoryInit ==
    \/ /\ part = "frames" /\ Init
       /\ a1 = 0 /\ a2 = 0 /\ a3 = 0 /\ a4 = 0 /\ a5 = 0 /\ a6 = 0 /\ a7 = 0 /\ a8 = 0 /\ a9 = 0
       /\ a10 = 0 /\ a11 = 0
    \/ part = "heap" /\ H!Init /\ NoFrames
    \/ part = "fence" /\ K!Init /\ NoFrames /\ a10 = 0 /\ a11 = 0
    \/ part = "user" /\ U!Init /\ NoFrames /\ a10 = 0 /\ a11 = 0

MemoryNext ==
    /\ UNCHANGED part
    /\ \/ part = "frames" /\ Next /\ UNCHANGED OtherVars
       \/ part = "heap" /\ H!Next /\ UNCHANGED vars
       \/ part = "fence" /\ K!Next /\ UNCHANGED <<vars, a10, a11>>
       \/ part = "user" /\ U!Next /\ UNCHANGED <<vars, a10, a11>>

memory_vars == <<part, vars, OtherVars>>

MemorySpec == MemoryInit /\ [][MemoryNext]_memory_vars

-----------------------------------------------------------------------------
(* Properties *)

\* See OnlyUsableRam and FramesAccounted: the allocator offers only whole frames of
\* usable RAM outside reserved ranges, and its bitmap, counter and zeroed marks agree
\* (frame_allocator.rs).
FramesSound == part = "frames" => OnlyUsableRam /\ FramesAccounted

\* See FramesClean and Heap!ObjectsClean: frames and heap objects are zero when they
\* are handed out, whoever had them before (frame_allocator.rs, slab.rs).
HandedOutZero ==
    [][/\ part = "frames" => FramesClean
       /\ part = "heap" => H!ObjectsClean]_memory_vars

\* See Heap!HeapSound: no sequence of allocations and frees damages a slab, mixes
\* caches or fails half-way through growth (slab.rs, heap.rs).
HeapSound == part = "heap" => H!HeapSound

\* See Kfence!FenceSound: counters, states and mappings of samples agree (fence.rs).
FenceSound == part = "fence" => K!FenceSound

\* See UserMemory!NoFrameLost: loads and releases that overlap or fail keep every
\* frame accounted for (user.rs, free_address_space).
NoFrameLost == part = "user" => U!NoFrameLost

\* See UserMemory!LoadedAsLinked: an accepted program is loaded as it was linked
\* (elf.rs, load_elf, populate).
LoadedAsLinked == part = "user" => U!LoadedAsLinked

\* See UserMemory!CopiesConfined: the kernel touches user memory only where the
\* program may (user_bounds.rs, copy_from_user, copy_to_user).
CopiesConfined == part = "user" => U!CopiesConfined
=============================================================================
