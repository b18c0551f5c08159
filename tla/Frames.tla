------------------------------- MODULE Frames -------------------------------
(***************************************************************************)
(* The physical frame allocator (memory/frame_allocator.rs).  Every call   *)
(* runs under FRAME_LOCK (memory/heap.rs), so each is one step.  Addresses *)
(* count half frames, so that ranges may begin and end inside a frame.     *)
(***************************************************************************)
EXTENDS Integers, FiniteSets, SequencesExt

CONSTANTS
    Maps,        \* the memory maps: [usable, reserved: sequences of [start, end]]
    MIN_ADDR,    \* lowest address for the allocator's own frames
    MAX_FRAMES,  \* frames the bitmap can describe
    META         \* frames the header and the two bitmaps take

ASSUME FramesAssumption == MAX_FRAMES \in Nat /\ META \in Nat \ {0}

FRAME_SIZE == 2

NoHeader == -1

VARIABLES
    map,         \* the memory map handed to init
    header,      \* address of the allocator's own frames
    bitmap,      \* frames marked used
    zeroed,      \* free frames known to be zero
    total_frames, free_frames, last_search,
    held,        \* frames callers hold
    dirty        \* frames that are not all zero

vars == <<map, header, bitmap, zeroed, total_frames, free_frames, last_search, held, dirty>>

Frame == 0 .. MAX_FRAMES - 1

Up(a) == (a + FRAME_SIZE - 1) \div FRAME_SIZE

Capped(a) == Min({a, MAX_FRAMES * FRAME_SIZE})

\* Mutant: a frame that a usable range covers in part is freed too.
InsideOutward(r) == (r.start \div FRAME_SIZE) .. Up(Capped(r.end)) - 1

\* set_range: whole frames inside a range are freed, frames it touches are used.
Inside(r) == Up(r.start) .. (Capped(r.end) \div FRAME_SIZE) - 1

Touched(r) == (r.start \div FRAME_SIZE) .. Up(Capped(r.end)) - 1

\* The frame-aligned places in usable range r, stepping over reserved ranges.
place(m, r) ==
    LET at[start \in 0 .. (MAX_FRAMES + 1) * FRAME_SIZE] ==
            LET end == start + META * FRAME_SIZE
                hit == {i \in DOMAIN m.reserved :
                            start < m.reserved[i].end /\ end > m.reserved[i].start}
                first == m.reserved[CHOOSE i \in hit : \A j \in hit : i =< j]
            IN IF end > Capped(r.end) THEN NoHeader
               ELSE IF hit = {} THEN start
               ELSE at[Up(first.end) * FRAME_SIZE]
    IN at[Up(Max({r.start, MIN_ADDR})) * FRAME_SIZE]

\* The first usable range with room for the header and the bitmaps.
header_addr(m) ==
    LET fits == {i \in DOMAIN m.usable : place(m, m.usable[i]) # NoHeader}
    IN IF fits = {} THEN NoHeader
       ELSE place(m, m.usable[CHOOSE i \in fits : \A j \in fits : i =< j])

Header == [start |-> header, end |-> header + META * FRAME_SIZE]

InitBitmap(m, h) ==
    (Frame \ UNION {Inside(m.usable[i]) : i \in DOMAIN m.usable})
    \cup (Frame \cap (UNION {Touched(m.reserved[i]) : i \in DOMAIN m.reserved}
                      \cup Touched([start |-> h, end |-> h + META * FRAME_SIZE])))

Top(m) == Capped(Max({m.usable[i].end : i \in DOMAIN m.usable})) \div FRAME_SIZE

\* init: firmware leaves anything in RAM; only the metadata is scrubbed.
Init ==
    /\ map \in Maps
    /\ header = header_addr(map) /\ header # NoHeader
    /\ bitmap = InitBitmap(map, header)
    /\ total_frames = Top(map)
    /\ free_frames = Cardinality((0 .. total_frames - 1) \ bitmap)
    /\ zeroed = {}
    /\ last_search = 0
    /\ held = {}
    /\ dirty = Frame \ Touched(Header)

is_free(f) == f \notin bitmap

\* Mutant: frames are handed out as they are.
mark_unscrubbed(S) ==
    /\ dirty' = dirty
    /\ zeroed' = zeroed \ S
    /\ bitmap' = bitmap \cup S
    /\ held' = held \cup S
    /\ free_frames' = free_frames - Cardinality(S)

\* mark: frames not known to be zero are scrubbed as they are handed out.
mark(S) ==
    /\ dirty' = dirty \ (S \ zeroed)
    /\ zeroed' = zeroed \ S
    /\ bitmap' = bitmap \cup S
    /\ held' = held \cup S
    /\ free_frames' = free_frames - Cardinality(S)

\* allocate_zeroed_frame: the first free frame from last_search on, going round.
Searched(i) == (last_search + i) % total_frames

allocate_zeroed_frame ==
    /\ \E i \in 0 .. total_frames - 1 :
        /\ is_free(Searched(i))
        /\ \A j \in 0 .. i - 1 : ~is_free(Searched(j))
        /\ mark({Searched(i)})
        /\ last_search' = Searched(i) + 1
    /\ UNCHANGED <<map, header, total_frames>>

\* allocate_zeroed_contiguous: the lowest run of count free frames.
FreeRun(s, count) == s + count =< total_frames /\ \A f \in s .. s + count - 1 : is_free(f)

allocate_zeroed_contiguous(count) ==
    /\ count > 0
    /\ \E s \in 0 .. total_frames - 1 :
        /\ FreeRun(s, count)
        /\ \A t \in 0 .. s - 1 : ~FreeRun(t, count)
        /\ mark(s .. s + count - 1)
    /\ UNCHANGED <<map, header, total_frames, last_search>>

\* claim_range: these frames or none.
claim_range(first, count) ==
    /\ FreeRun(first, count)
    /\ mark(first .. first + count - 1)
    /\ UNCHANGED <<map, header, total_frames, last_search>>

deallocate_frame(f) ==
    /\ f < total_frames
    /\ ~is_free(f)
    /\ dirty' = dirty \ {f}
    /\ zeroed' = zeroed \cup {f}
    /\ bitmap' = bitmap \ {f}
    /\ held' = held \ {f}
    /\ free_frames' = free_frames + 1
    /\ UNCHANGED <<map, header, total_frames, last_search>>

scrub_free_memory ==
    LET free == {f \in 0 .. total_frames - 1 : is_free(f)}
    IN /\ dirty' = dirty \ free
       /\ zeroed' = zeroed \cup free
       /\ UNCHANGED <<map, header, bitmap, total_frames, free_frames, last_search, held>>

\* A holder writes to its frame.
Use(f) ==
    /\ f \in held
    /\ dirty' = dirty \cup {f}
    /\ UNCHANGED <<map, header, bitmap, zeroed, total_frames, free_frames, last_search, held>>

\* Callers release what they hold.
Next ==
    \/ allocate_zeroed_frame
    \/ \E n \in 1 .. MAX_FRAMES : allocate_zeroed_contiguous(n)
    \/ \E s \in Frame, n \in 1 .. MAX_FRAMES : claim_range(s, n)
    \/ \E f \in held : deallocate_frame(f) \/ Use(f)
    \/ scrub_free_memory

Spec == Init /\ [][Next]_vars

-----------------------------------------------------------------------------
(* Properties *)

Usable(f) ==
    \E i \in DOMAIN map.usable : map.usable[i].start =< f * FRAME_SIZE
                                 /\ (f + 1) * FRAME_SIZE =< map.usable[i].end

Overlaps(f, r) == f * FRAME_SIZE < r.end /\ r.start < (f + 1) * FRAME_SIZE

\* A frame that can be handed out, or is, lies wholly in usable RAM and touches
\* neither a reserved range nor the allocator's own bitmap (init, set_range).
OnlyUsableRam ==
    \A f \in (Frame \ bitmap) \cup held :
        /\ Usable(f)
        /\ \A i \in DOMAIN map.reserved : ~Overlaps(f, map.reserved[i])
        /\ ~Overlaps(f, Header)

\* No frame is both held and free, the free count is the number of free frames
\* whatever sequence of calls was made, and a frame marked zeroed is free and
\* is zero (mark skips the scrub of such frames).
FramesAccounted ==
    /\ held \subseteq bitmap
    /\ free_frames = Cardinality((0 .. total_frames - 1) \ bitmap)
    /\ zeroed \cap (bitmap \cup dirty) = {}

\* A frame is zero when it is handed out, and was nobody's (mark).
FramesClean == (held' \ held) \cap (dirty' \cup bitmap) = {}

HandedOutClean == [][FramesClean]_vars
=============================================================================
