----------------------------- MODULE UserMemory -----------------------------
(***************************************************************************)
(* User address spaces: loading programs and releasing them                *)
(* (memory/user.rs), their translation tables (arch/amd64/memory.rs,       *)
(* arch/arm64/mmu.rs) and the kernel's access to user memory.  CPUs load   *)
(* and release at the same time; between two calls on the frame allocator  *)
(* anything may happen.  Below the root there are two levels of tables,    *)
(* of FANOUT entries each, instead of three.                               *)
(***************************************************************************)
EXTENDS Elf, TLC

CONSTANTS
    Scenarios,      \* [frames, slots, words: sets, programs: cpu -> the programs it loads,
                    \*  each once, copies: BOOLEAN]
    FANOUT,
    TOP,            \* addresses are below it: 2^64
    Lens,           \* lengths of user copies
    NoFrame

VARIABLES
    scenario,
    free,           \* free frames; Frames shows that they are zero
    SLOTS,          \* ownership IDs in use
    job,            \* cpu -> the load or release it is in
    tables,         \* <<root, level, index>> -> the frame of a table
    leaf,           \* <<root, page>> -> [frame, w, x]
    mem,            \* frame -> its words
    images,         \* loaded programs: [root, slot, program, layout]
    copied          \* the kernel's last access to user memory

vars == <<scenario, free, SLOTS, job, tables, leaf, mem, images, copied>>

Cpu == DOMAIN scenario.programs

Idle == [pc |-> "idle"]

NoCopy == [done |-> {}]

Init ==
    /\ scenario \in Scenarios
    /\ free = scenario.frames
    /\ SLOTS = {}
    /\ job = [c \in Cpu |-> Idle]
    /\ tables = <<>> /\ leaf = <<>>
    /\ mem = [f \in scenario.frames |-> NoWords]
    /\ images = {}
    /\ copied = NoCopy

Put(f, k, v) == [x \in DOMAIN f \cup {k} |-> IF x = k THEN v ELSE f[x]]

Without(f, K) == [x \in DOMAIN f \ K |-> f[x]]

Set(c, j) == job' = [job EXCEPT ![c] = j]

Step(c, pc) == Set(c, [job[c] EXCEPT !.pc = pc])

\* allocate_zeroed_frame fails only when no frame is free; frames are alike, so
\* which one it finds does not matter.
Allocate(f) == f = Min(free) /\ free' = free \ {f}

\* deallocate_frame scrubs.
Free(f) == free' = free \cup {f} /\ mem' = [mem EXCEPT ![f] = NoWords]

-----------------------------------------------------------------------------
(* Loading *)

\* load_program and load_elf up to the first allocation: bad programs are refused.
Accepted(p) ==
    IF p.kind = "elf" THEN parse(p)
    ELSE p.code # <<>> /\ CodePages(p.code) * PAGE =< MAX_FLAT_IMAGE

LoadSteps(p, layout) == IF p.kind = "elf" THEN ElfSteps(p, layout) ELSE FlatSteps(p.code, layout)

load(c) ==
    \E p \in scenario.programs[c], layout \in Placements(scenario.words) :
        /\ job[c] = Idle /\ Accepted(p)
        /\ Set(c, [pc |-> "slot", program |-> p, layout |-> layout, slot |-> 0, root |-> NoFrame,
                   frame |-> NoFrame, todo |-> LoadSteps(p, layout), bad |-> FALSE])
        /\ scenario' = [scenario EXCEPT !.programs[c] = @ \ {p}]
        /\ UNCHANGED <<free, SLOTS, tables, leaf, mem, images, copied>>

\* alloc_slot: a free ID, from a random one on.
alloc_slot(c) ==
    /\ job[c].pc = "slot"
    /\ \/ \E s \in scenario.slots \ SLOTS :
            /\ SLOTS' = SLOTS \cup {s}
            /\ Set(c, [job[c] EXCEPT !.pc = "root", !.slot = s])
       \/ SLOTS = scenario.slots /\ Set(c, Idle) /\ UNCHANGED SLOTS
    /\ UNCHANGED <<scenario, free, tables, leaf, mem, images, copied>>

\* new_address_space.  On arm64 the memory may begin with frame 0, which is no root: it is
\* kept until another frame is found, and freed.
new_address_space(c) ==
    /\ job[c].pc = "root"
    /\ \/ \E f \in free :
            /\ Allocate(f)
            /\ Set(c, IF f = 0 THEN [job[c] EXCEPT !.pc = "zero", !.frame = 0]
                      ELSE [job[c] EXCEPT !.pc = "step", !.root = f])
            /\ UNCHANGED SLOTS
       \/ free = {} /\ SLOTS' = SLOTS \ {job[c].slot} /\ Set(c, Idle) /\ UNCHANGED free
    /\ UNCHANGED <<scenario, tables, leaf, mem, images, copied>>

SecondRoot(c) ==
    /\ job[c].pc = "zero"
    /\ \/ \E f \in free :
            /\ Allocate(f)
            /\ Set(c, [job[c] EXCEPT !.pc = "free zero", !.root = f])
       \/ free = {} /\ Step(c, "free zero") /\ UNCHANGED free
    /\ UNCHANGED <<scenario, SLOTS, tables, leaf, mem, images, copied>>

FreeZero(c) ==
    /\ job[c].pc = "free zero"
    /\ Free(0)
    /\ Set(c, [job[c] EXCEPT !.pc = IF job[c].root = NoFrame THEN "slotless" ELSE "step", !.frame = NoFrame])
    /\ UNCHANGED <<scenario, SLOTS, tables, leaf, images, copied>>

\* map_fresh, load_elf: a zeroed frame, and the page's bytes into it.
Fresh(c) ==
    /\ job[c].pc = "step" /\ job[c].todo # <<>> /\ Head(job[c].todo).op = "map"
    /\ \/ \E f \in free :
            /\ Allocate(f)
            /\ mem' = [mem EXCEPT ![f] = Head(job[c].todo).words]
            /\ Set(c, [job[c] EXCEPT !.pc = "map", !.frame = f])
       \/ free = {} /\ Step(c, "release") /\ UNCHANGED <<free, mem>>
    /\ UNCHANGED <<scenario, SLOTS, tables, leaf, images, copied>>

Page(va) == va \div PAGE

\* The tables from the root to a page's leaf, top first.
Path(root, page) == <<<<root, 1, 0>>, <<root, 2, page \div FANOUT>>>>

Missing(root, page) == SelectSeq(Path(root, page), LAMBDA t : t \notin DOMAIN tables)

\* walk_create, walk: the next missing table.
walk_create(c) ==
    LET missing == Missing(job[c].root, Page(Head(job[c].todo).va)) IN
    /\ job[c].pc = "map" /\ missing # <<>>
    /\ \/ \E f \in free :
            /\ Allocate(f)
            /\ tables' = Put(tables, Head(missing), f)
            /\ UNCHANGED job
       \/ free = {} /\ Step(c, "unmapped") /\ UNCHANGED <<free, tables>>
    /\ UNCHANGED <<scenario, SLOTS, leaf, mem, images, copied>>

\* The leaf's descriptor, unless there is one already.
PutLeaf(c, at, step) ==
    IF at \in DOMAIN leaf
    THEN Set(c, [job[c] EXCEPT !.pc = "unmapped", !.bad = TRUE]) /\ UNCHANGED leaf
    ELSE /\ leaf' = Put(leaf, at, [frame |-> job[c].frame, w |-> step.w, x |-> step.x])
         /\ Set(c, [job[c] EXCEPT !.pc = "step", !.frame = NoFrame, !.todo = Tail(@)])

map_user_page(c) ==
    LET step == Head(job[c].todo)
    IN /\ job[c].pc = "map" /\ Missing(job[c].root, Page(step.va)) = <<>>
       /\ PutLeaf(c, <<job[c].root, Page(step.va)>>, step)
       /\ UNCHANGED <<scenario, free, SLOTS, tables, mem, images, copied>>

\* Mutant: the page's frame is forgotten when its tables cannot be made.
unmapped_leak(c) ==
    /\ job[c].pc = "unmapped"
    /\ Set(c, [job[c] EXCEPT !.pc = "release", !.frame = NoFrame])
    /\ UNCHANGED <<scenario, free, SLOTS, tables, leaf, mem, images, copied>>

\* map_fresh, load_elf: the frame goes back when the page cannot be mapped.
unmapped(c) ==
    /\ job[c].pc = "unmapped"
    /\ Free(job[c].frame)
    /\ Set(c, [job[c] EXCEPT !.pc = "release", !.frame = NoFrame])
    /\ UNCHANGED <<scenario, SLOTS, tables, leaf, images, copied>>

\* A relocation goes through the frame of NX user data.
Relocatable(root, va) ==
    /\ va >= USER_BASE /\ va < USER_END
    /\ <<root, Page(va)>> \in DOMAIN leaf /\ ~leaf[<<root, Page(va)>>].x

relocate_private_data(c) ==
    LET step == Head(job[c].todo)
        at == <<job[c].root, Page(step.va)>>
    IN /\ job[c].pc = "step" /\ job[c].todo # <<>> /\ step.op = "relocate"
       /\ IF Relocatable(job[c].root, step.va)
          THEN /\ mem' = [mem EXCEPT ![leaf[at].frame][step.va % PAGE] = step.value]
               /\ Set(c, [job[c] EXCEPT !.todo = Tail(@)])
          ELSE Set(c, [job[c] EXCEPT !.pc = "release", !.bad = TRUE]) /\ UNCHANGED mem
       /\ UNCHANGED <<scenario, free, SLOTS, tables, leaf, images, copied>>

\* The image is returned, and becomes a task.
Loaded(c) ==
    /\ job[c].pc = "step" /\ job[c].todo = <<>>
    /\ images' = images \cup {[root |-> job[c].root, slot |-> job[c].slot,
                               program |-> job[c].program, layout |-> job[c].layout]}
    /\ Set(c, Idle)
    /\ UNCHANGED <<scenario, free, SLOTS, tables, leaf, mem, copied>>

-----------------------------------------------------------------------------
(* Release *)

\* The task has exited and no CPU has its space loaded (Scheduler, NeverUnderReports).
Reap(c) ==
    \E i \in images :
        /\ job[c] = Idle /\ copied = NoCopy
        /\ images' = images \ {i}
        /\ Set(c, [pc |-> "release", slot |-> i.slot, root |-> i.root, frame |-> NoFrame, bad |-> FALSE])
        /\ UNCHANGED <<scenario, free, SLOTS, tables, leaf, mem, copied>>

Of(f, root) == {k \in DOMAIN f : k[1] = root}

\* The entry free_level comes to: the leaves of a table before the table, and the
\* tables below before those above.
Leaves(t) == {k \in Of(leaf, t[1]) : k[2] \div FANOUT = t[3]}

LowTables(root) == {t \in Of(tables, root) : t[2] = 2}

FirstLow(root) == CHOOSE t \in LowTables(root) : \A u \in LowTables(root) : t[3] =< u[3]

FirstLeaf(t) == CHOOSE k \in Leaves(t) : \A m \in Leaves(t) : k[2] =< m[2]

\* A freed table is scrubbed, and what it pointed at is out of reach.
FreeTable(t) ==
    /\ Free(tables[t])
    /\ tables' = Without(tables, {t} \cup (IF t[2] = 1 THEN Of(tables, t[1]) ELSE {}))
    /\ leaf' = Without(leaf, IF t[2] = 1 THEN Of(leaf, t[1]) ELSE Leaves(t))

FreeLeaf(k) == Free(leaf[k].frame) /\ leaf' = Without(leaf, {k}) /\ UNCHANGED tables

free_level(c) ==
    LET root == job[c].root IN
    /\ job[c].pc = "release" /\ Of(tables, root) # {}
    /\ IF LowTables(root) = {} THEN FreeTable(<<root, 1, 0>>)
       ELSE IF Leaves(FirstLow(root)) = {} THEN FreeTable(FirstLow(root))
       ELSE FreeLeaf(FirstLeaf(FirstLow(root)))
    /\ UNCHANGED <<scenario, SLOTS, job, images, copied>>

\* free_address_space: the root last; then release frees the slot.
free_root(c) ==
    /\ job[c].pc = "release" /\ Of(tables, job[c].root) = {}
    /\ Free(job[c].root)
    /\ Step(c, "slotless")
    /\ UNCHANGED <<scenario, SLOTS, tables, leaf, images, copied>>

free_slot(c) ==
    /\ job[c].pc = "slotless"
    /\ SLOTS' = SLOTS \ {job[c].slot}
    /\ Set(c, Idle)
    /\ UNCHANGED <<scenario, free, tables, leaf, mem, images, copied>>

-----------------------------------------------------------------------------
(* The kernel's access to user memory: user_bounds.rs, copy_from_user, copy_to_user *)

bounds_ok(ptr, len) == len = 0 \/ (ptr >= USER_BASE /\ ptr < USER_END /\ len =< USER_END - ptr)

wrapping(n) == n % TOP

\* All bits when index < size; the code gets it without a branch.
array_index_mask(index, size) == index < size

\* Mutant: a range that ends with the window is taken for one beyond it.
mask_user_ptr_strict(ptr, len) ==
    IF /\ array_index_mask(wrapping(ptr - USER_BASE), USER_END - USER_BASE)
       /\ array_index_mask(len, wrapping(USER_END - ptr))
    THEN ptr ELSE USER_END

mask_user_ptr(ptr, len) ==
    IF /\ array_index_mask(wrapping(ptr - USER_BASE), USER_END - USER_BASE)
       /\ array_index_mask(len, wrapping(wrapping(USER_END - ptr) + 1))
    THEN ptr ELSE USER_END

\* query_page, and the hardware: what the tables of root say of an address.
query_page(root, a, write) ==
    <<root, Page(a)>> \in DOMAIN leaf /\ (write => leaf[<<root, Page(a)>>].w)

\* A copy goes word by word up to the first fault, which ends it with an error.
Copy(i, ptr, len, write) ==
    LET at == mask_user_ptr(ptr, len)
        fault == {n \in 0 .. len - 1 : ~query_page(i.root, at + n, write)}
        n == IF fault = {} THEN len ELSE Min(fault)
    IN IF ~bounds_ok(ptr, len) THEN [ok |-> FALSE, done |-> {}]
       ELSE [ok |-> fault = {}, done |-> at .. at + n - 1]

copy_user(i, ptr, len, write) ==
    /\ scenario.copies /\ i \in images /\ copied = NoCopy
    /\ copied' = [root |-> i.root, ptr |-> ptr, len |-> len, write |-> write] @@ Copy(i, ptr, len, write)
    /\ UNCHANGED <<scenario, free, SLOTS, job, tables, leaf, mem, images>>

\* range_ok: every page of the range is mapped for the user.
range_ok(root, ptr, len, write) ==
    \/ len = 0
    \/ /\ ptr + len < TOP /\ ptr >= USER_BASE /\ ptr + len =< USER_END
       /\ \A p \in Page(mask_user_ptr(ptr, len)) .. Page(ptr + len - 1) :
            query_page(root, p * PAGE, write)

\* The call returns.
CopyDone ==
    /\ copied # NoCopy /\ copied' = NoCopy
    /\ UNCHANGED <<scenario, free, SLOTS, job, tables, leaf, mem, images>>

Next ==
    \/ \E c \in Cpu :
        \/ load(c) \/ alloc_slot(c) \/ new_address_space(c) \/ SecondRoot(c) \/ FreeZero(c)
        \/ Fresh(c) \/ walk_create(c) \/ map_user_page(c) \/ unmapped(c)
        \/ relocate_private_data(c) \/ Loaded(c)
        \/ Reap(c) \/ free_level(c) \/ free_root(c) \/ free_slot(c)
    \/ \E i \in images, ptr \in 0 .. TOP - 1, len \in Lens, write \in BOOLEAN :
        copy_user(i, ptr, len, write)
    \/ CopyDone

Spec == Init /\ [][Next]_vars

-----------------------------------------------------------------------------
(* Properties *)

Busy == {c \in Cpu : job[c] # Idle}

InFlight == {job[c].frame : c \in Busy} \ {NoFrame}

Roots == {i.root : i \in images}
         \cup ({job[c].root : c \in {d \in Busy : job[d].pc # "slotless"}} \ {NoFrame})

Owned == {tables[t] : t \in DOMAIN tables} \cup {leaf[k].frame : k \in DOMAIN leaf}

\* Whatever loads and releases overlap, and wherever one of them runs out of frames
\* or IDs: every frame is free or has exactly one use, and an ID is taken exactly
\* while its program is being loaded, runs or is being released (map_fresh,
\* walk_create, release, free_address_space).
NoFrameLost ==
    /\ free \cup Roots \cup Owned \cup InFlight = scenario.frames
    /\ Cardinality(free) + Cardinality(Roots) + Cardinality(DOMAIN tables)
       + Cardinality(DOMAIN leaf) + Cardinality(InFlight) = Cardinality(scenario.frames)
    /\ SLOTS = ({i.slot : i \in images} \cup {job[c].slot : c \in Busy}) \ {0}
    /\ \A i, k \in images : i.slot = k.slot => i = k

Bias(i) ==
    IF i.program.kind = "flat" THEN i.layout.bias + PAGE
    ELSE IF i.program.pie THEN image_bias(i.layout, alignment(i.program)) ELSE 0

Mapped(i) == {k[2] : k \in Of(leaf, i.root)}

Leaf(i, a) == leaf[<<i.root, Page(a)>>]

Word(i, a) == mem[Leaf(i, a).frame][a % PAGE]

\* What an ELF image asks for at address a of segment h.
Wanted(i, h, a) ==
    LET p == i.program
        here == {r \in DOMAIN relocations(p) : p.rela[r].target = a}
    IN IF here # {} THEN Bias(i) + p.rela[Max(here)].addend
       ELSE IF a < h.vaddr + h.filesz THEN p.file[h.offset + a - h.vaddr + 1] ELSE 0

\* A loaded program sees its segments as the file has them, zero beyond, relocated
\* by one bias; its entry can be executed; nothing is writable and executable, RELRO
\* pages are read-only; its stack stands between unmapped pages.
AsLinked(i) ==
    LET p == i.program
        edge == Page(i.layout.stack_edge)
    IN /\ \A k \in Of(leaf, i.root) : ~(leaf[k].w /\ leaf[k].x)
       /\ edge - STACK_PAGES .. edge - 1 \subseteq Mapped(i)
       /\ edge \notin Mapped(i) /\ edge - STACK_PAGES - 1 \notin Mapped(i)
       /\ p.kind = "flat" => \A n \in DOMAIN p.code :
            Word(i, Bias(i) + n - 1) = p.code[n] /\ Leaf(i, Bias(i) + n - 1).x
       /\ p.kind = "elf" =>
            /\ Page(Bias(i) + p.entry) \in Mapped(i) /\ Leaf(i, Bias(i) + p.entry).x
            /\ \A h \in ToSet(Loads(p)) : \A a \in h.vaddr .. End(h) - 1 :
                /\ Word(i, Bias(i) + a) = Wanted(i, h, a)
                /\ Leaf(i, Bias(i) + a).w => "W" \in h.flags
                /\ Leaf(i, Bias(i) + a).w = ("W" \in h.flags /\ ~(\E r \in ToSet(Relro(p)) :
                                                a \in r.vaddr .. End(r) - 1))

\* A program that validation accepts is loaded as it was linked, or the load fails
\* for lack of frames or IDs and for no other reason (parse, load_elf, populate).
LoadedAsLinked ==
    /\ \A i \in images : AsLinked(i)
    /\ \A c \in Busy : ~job[c].bad

\* The kernel touches user memory only inside the range it was given and the user
\* window, where the program itself may; it reports success exactly if the whole
\* range is so, for any pointer and length up to the top of the address space.
CopiesConfined ==
    copied # NoCopy =>
        /\ \A a \in copied.done : /\ a \in USER_BASE .. USER_END - 1
                                  /\ a \in copied.ptr .. copied.ptr + copied.len - 1
                                  /\ query_page(copied.root, a, copied.write)
        /\ copied.ok <=> range_ok(copied.root, copied.ptr, copied.len, copied.write)
        /\ copied.ok => Cardinality(copied.done) = copied.len
=============================================================================
