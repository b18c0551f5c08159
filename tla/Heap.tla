-------------------------------- MODULE Heap --------------------------------
(***************************************************************************)
(* The kernel heap: size-class slabs (memory/slab.rs) behind the global    *)
(* allocator (memory/heap.rs), and their growth into the heap's address    *)
(* range (heap_extend of arch/*/memory.rs).  Each call holds the heap lock *)
(* with interrupts off, and growth the frame lock as well, so each is one  *)
(* step.  Addresses and sizes count machine words.                         *)
(***************************************************************************)
EXTENDS Integers, FiniteSets, SequencesExt

CONSTANTS
    PAGE, MIN_STRIDE, MAX_STRIDE,
    DOMAINS,     \* number of allocation domains
    MAX_SLABS,
    Layouts,     \* the [size, align] clients ask for
    START,       \* first address of the heap
    INITIAL,     \* its size at boot
    CHUNK,       \* it grows by multiples of this
    LIMIT,       \* where its address range ends
    FRAMES       \* the rest of the kernel leaves 0 .. FRAMES frames free when the heap grows

VARIABLES
    slabs,       \* [base, span, stride, cache, next, head, free, live]
    lists,       \* cache -> index of its newest slab, or 0
    word,        \* contents of the heap
    live_bytes, reserved_bytes, allocations,
    next, end,   \* first address without a slab, without backing
    tables,      \* translation tables that exist: <<level, index>>
    objects,     \* what clients hold: [ptr, layout, domain]
    fatal        \* an integrity failure or a failed expect

vars == <<slabs, lists, word, live_bytes, reserved_bytes, allocations, next, end, tables,
          objects, fatal>>

Addresses == START .. LIMIT - 1

Domain == 0 .. DOMAINS - 1

DATA == -1       \* any nonzero word a client writes

LINK == 1000     \* a free-list link is hidden with a secret and its address

encode(n) == LINK + n

decode(w) == w - LINK

-----------------------------------------------------------------------------
(* request: layouts to size classes *)

Pow2 == {2 ^ i : i \in 0 .. 10}

stride(l) == Min({p \in Pow2 : p >= Max({l.size, l.align, MIN_STRIDE})})

TooLarge(l) == stride(l) > MAX_STRIDE

span(l) == Max({stride(l), PAGE})

cache(l, d) == <<d, stride(l)>>

Caches == Domain \X Pow2

-----------------------------------------------------------------------------
(* Growth: heap_extend, map_heap, backing_frames *)

Page(a) == a \div PAGE

\* Two entries a table: the index of the table at level i that translates a page.
TableOf(i, p) == <<i, p \div 2 ^ i>>

\* Mutant: the tables are forgotten.
backing_frames_flat(from, bytes) == bytes \div PAGE

backing_frames(from, bytes) ==
    LET first == Page(from)
        last == Page(from + bytes - 1)
        touched(i) == (last \div 2 ^ i) - (first \div 2 ^ i) + 1
    IN (bytes \div PAGE) + touched(1) + touched(2) + touched(3)

NewTables(from, bytes) ==
    {TableOf(i, p) : i \in 1 .. 3, p \in Page(from) .. Page(from + bytes - 1)} \ tables

Chunked(needed) == ((needed + CHUNK - 1) \div CHUNK) * CHUNK

CanExtend(needed, free) ==
    /\ end + Chunked(needed) =< LIMIT
    /\ free >= backing_frames(end, Chunked(needed))

\* The frames that mapping the new pages takes, one by one.
Taken(bytes) == (bytes \div PAGE) + Cardinality(NewTables(end, bytes))

extend(needed) ==
    /\ end' = end + Chunked(needed)
    /\ tables' = tables \cup NewTables(end, Chunked(needed))

\* A frame is missing half-way: map_heap's expect.
RunsDry(needed, free) == Taken(Chunked(needed)) > free

-----------------------------------------------------------------------------
(* Slabs *)

IsSlot(s, p) == p \in s.base .. s.base + s.span - 1 /\ (p - s.base) % s.stride = 0

slot(s, p) == (p - s.base) \div s.stride

validate_free(s, p) == IsSlot(s, p) /\ slot(s, p) \notin s.live

\* The slab of cache c with a free slot that allocate finds, or 0.
Find(c) ==
    LET find[i \in 0 .. Len(slabs)] ==
            IF i = 0 THEN 0 ELSE IF slabs[i].free # 0 THEN i ELSE find[slabs[i].next]
    IN find[lists[c]]

\* The slabs allocate comes by on its way there, and its checks on each of them.
Visited(c) ==
    LET visit[i \in 0 .. Len(slabs)] ==
            IF i = 0 THEN {} ELSE IF slabs[i].free # 0 THEN {i} ELSE {i} \cup visit[slabs[i].next]
    IN visit[lists[c]]

WalkCorrupt(c) == \E i \in Visited(c) : slabs[i].cache # c \/ (slabs[i].free = 0 /\ slabs[i].head # 0)

\* allocate's checks on slab s before it hands out the head of its free list.
TakeCorrupt(s, w) ==
    LET n == decode(w[s.head])
    IN \/ ~validate_free(s, s.head)
       \/ n # 0 /\ (~validate_free(s, n) \/ n = s.head)
       \/ (s.free = 1) # (n = 0)

\* allocate from slab i of the slabs ss over memory w.
TakeFrom(ss, w, i, l, d) ==
    LET s == ss[i]
    IN /\ slabs' = [ss EXCEPT ![i].live = @ \cup {slot(s, s.head)},
                              ![i].head = decode(w[s.head]), ![i].free = @ - 1]
       /\ word' = [w EXCEPT ![s.head] = 0]
       /\ live_bytes' = live_bytes + s.stride
       /\ allocations' = allocations + 1
       /\ objects' = objects \cup {[ptr |-> s.head, layout |-> l, domain |-> d]}

allocate(l, d) ==
    LET i == Find(cache(l, d))
    IN /\ ~TooLarge(l) /\ i # 0
       /\ TakeFrom(slabs, word, i, l, d)
       /\ fatal' = (fatal \/ WalkCorrupt(cache(l, d)) \/ TakeCorrupt(slabs[i], word))
       /\ UNCHANGED <<lists, reserved_bytes, next, end, tables>>

\* add: a slab at base whose free list visits its slots in the given order.
Slab(base, l, d, order) ==
    [base |-> base, span |-> span(l), stride |-> stride(l), cache |-> cache(l, d),
     next |-> lists[cache(l, d)], head |-> base + order[1] * stride(l),
     free |-> Len(order), live |-> {}]

Linked(base, l, order) ==
    [a \in Addresses |->
        IF \E k \in DOMAIN order : a = base + order[k] * stride(l)
        THEN LET k == CHOOSE j \in DOMAIN order : a = base + order[j] * stride(l)
             IN encode(IF k < Len(order) THEN base + order[k + 1] * stride(l) ELSE 0)
        ELSE word[a]]

Orders(count) ==
    {o \in [1 .. count -> 0 .. count - 1] : \A j, k \in 1 .. count : o[j] = o[k] => j = k}

\* allocate_domain when the cache has no free slot: a new slab at the next aligned
\* address, backed first if need be, and the object from it.
AddCorrupt(base) == slabs # <<>> /\ base < Last(slabs).base + Last(slabs).span

Aligned(l) == ((next + span(l) - 1) \div span(l)) * span(l)

allocate_new_slab(l, d) ==
    LET base == Aligned(l)
        top == base + span(l)
    IN /\ ~TooLarge(l) /\ Find(cache(l, d)) = 0
       /\ Len(slabs) < MAX_SLABS
       /\ top =< LIMIT
       /\ \/ top =< end /\ UNCHANGED <<end, tables>>
             /\ fatal' = (fatal \/ WalkCorrupt(cache(l, d)) \/ AddCorrupt(base))
          \/ \E free \in 0 .. FRAMES :
             /\ top > end /\ CanExtend(top - end, free) /\ extend(top - end)
             /\ fatal' = (fatal \/ WalkCorrupt(cache(l, d)) \/ AddCorrupt(base) \/ RunsDry(top - end, free))
       /\ \E order \in Orders(span(l) \div stride(l)) :
            TakeFrom(Append(slabs, Slab(base, l, d, order)), Linked(base, l, order),
                     Len(slabs) + 1, l, d)
       /\ lists' = [lists EXCEPT ![cache(l, d)] = Len(slabs) + 1]
       /\ reserved_bytes' = reserved_bytes + span(l)
       /\ next' = top

\* deallocate: the last slab that begins at or below the pointer, then its checks.
SlabOf(p) == CHOOSE i \in DOMAIN slabs :
                slabs[i].base =< p /\ \A j \in DOMAIN slabs : slabs[j].base =< p => j =< i

FreeCorrupt(s, p, c) ==
    \/ ~IsSlot(s, p)
    \/ s.cache # c
    \/ slot(s, p) \notin s.live
    \/ IF s.free # 0 THEN ~validate_free(s, s.head) ELSE s.head # 0

deallocate(o) ==
    LET i == SlabOf(o.ptr)
        s == slabs[i]
    IN /\ slabs' = [slabs EXCEPT ![i].live = @ \ {slot(s, o.ptr)},
                                 ![i].head = o.ptr, ![i].free = @ + 1]
       /\ word' = [a \in Addresses |->
                    IF a = o.ptr THEN encode(s.head)
                    ELSE IF a \in o.ptr .. o.ptr + s.stride - 1 THEN 0 ELSE word[a]]
       /\ live_bytes' = live_bytes - s.stride
       /\ allocations' = allocations - 1
       /\ objects' = objects \ {o}
       /\ fatal' = (fatal \/ FreeCorrupt(s, o.ptr, cache(o.layout, o.domain)))
       /\ UNCHANGED <<lists, reserved_bytes, next, end, tables>>

Extent(o) == o.ptr .. o.ptr + o.layout.size - 1

\* A client fills its object.
Use(o) ==
    /\ word' = [a \in Addresses |-> IF a \in Extent(o) THEN DATA ELSE word[a]]
    /\ UNCHANGED <<slabs, lists, live_bytes, reserved_bytes, allocations, next, end, tables,
                   objects, fatal>>

\* heap_init and initialize
Init ==
    /\ slabs = <<>>
    /\ lists = [c \in Caches |-> 0]
    /\ word = [a \in Addresses |-> 0]
    /\ live_bytes = 0 /\ reserved_bytes = 0 /\ allocations = 0
    /\ next = START /\ end = START + INITIAL
    /\ tables = {TableOf(i, p) : i \in 1 .. 3, p \in Page(START) .. Page(end - 1)}
    /\ objects = {}
    /\ fatal = FALSE

Next ==
    \/ \E l \in Layouts, d \in Domain : allocate(l, d) \/ allocate_new_slab(l, d)
    \/ \E o \in objects : deallocate(o) \/ Use(o)

Spec == Init /\ [][Next]_vars

-----------------------------------------------------------------------------
(* Properties *)

Slots(s) == 0 .. (s.span \div s.stride) - 1

\* The free list of slab s, as its links stand in memory.
FreeList(s) ==
    LET walk[n \in 0 .. s.free] ==
            IF n = 0 THEN <<>>
            ELSE Append(walk[n - 1], IF n = 1 THEN s.head ELSE decode(word[Last(walk[n - 1])]))
    IN walk[s.free]

\* Clients that free what they allocated never meet an integrity failure or a
\* failed growth: every slab's links visit each free slot once, the slots that
\* are not free are exactly the objects of its cache that clients hold, and the
\* statistics are theirs (Slabs, allocate_domain, heap_extend: "all-or-nothing").
HeapSound ==
    /\ ~fatal
    /\ \A i \in DOMAIN slabs :
        LET s == slabs[i] IN
        /\ s.base + s.span =< end
        /\ Len(FreeList(s)) = Cardinality(ToSet(FreeList(s)))
        /\ {slot(s, p) : p \in ToSet(FreeList(s))} = Slots(s) \ s.live
        /\ s.live = {slot(s, o.ptr) : o \in {x \in objects : IsSlot(s, x.ptr)}}
    /\ \A o \in objects : slabs[SlabOf(o.ptr)].cache = cache(o.layout, o.domain)
    /\ \A o, x \in objects : o # x => Extent(o) \cap Extent(x) = {}
    /\ allocations = Cardinality(objects)

\* An object is all zero when a client gets it, whoever had its memory before
\* (deallocate scrubs, allocate clears the link).
ObjectsClean == \A o \in objects' \ objects : \A a \in Extent(o) : word'[a] = 0
=============================================================================
