------------------------------- MODULE Kfence -------------------------------
(***************************************************************************)
(* Sampled allocations with guard pages (memory/fence.rs).  CPUs allocate  *)
(* and free samples, the reaper task unmaps them, and nothing but the      *)
(* states' compare-exchanges and the lock COUNTERS orders them.            *)
(***************************************************************************)
EXTENDS Naturals, FiniteSets

CONSTANTS
    Cpus,        \* with one thread of execution each; one of them runs the reaper
    Samples,     \* indices of SAMPLES
    Reaper,
    NoCpu

VARIABLES
    state,       \* sample -> EMPTY ... FREED
    mapped,      \* samples whose page is mapped
    recorded,    \* samples whose pointer, size and owner fields are written
    COUNTERS,    \* the CPU that holds it, or NoCpu
    counts,      \* <<live objects, mapped samples>>
    pc, cur,     \* what each CPU does, and to which sample
    held,        \* objects that clients may use and free
    corrupt      \* integrity_failure was called

vars == <<state, mapped, recorded, COUNTERS, counts, pc, cur, held, corrupt>>

EMPTY == 0
RESERVED == 1
LIVE == 2
QUEUED == 3
UNMAPPING == 4
SCRUBBING == 5
FREED == 6

Init ==
    /\ state = [s \in Samples |-> EMPTY]
    /\ mapped = {} /\ recorded = {}
    /\ COUNTERS = NoCpu
    /\ counts = <<0, 0>>
    /\ pc = [c \in Cpus |-> "idle"]
    /\ cur \in [Cpus -> Samples]
    /\ held = {}
    /\ corrupt = FALSE

Goto(c, from, to) == pc[c] = from /\ pc' = [pc EXCEPT ![c] = to]

\* compare_exchange
Exchange(s, from, to) == state[s] = from /\ state' = [state EXCEPT ![s] = to]

\* allocate: the first empty sample is reserved.
allocate(c) ==
    \E s \in Samples :
        /\ Goto(c, "idle", "map")
        /\ \A t \in Samples : t < s => state[t] # EMPTY
        /\ Exchange(s, EMPTY, RESERVED)
        /\ cur' = [cur EXCEPT ![c] = s]
        /\ UNCHANGED <<mapped, recorded, COUNTERS, counts, held, corrupt>>

\* allocate: its page is mapped and its fields are stored.
allocate_sample_page(c) ==
    /\ Goto(c, "map", "publish")
    /\ mapped' = mapped \cup {cur[c]}
    /\ recorded' = recorded \cup {cur[c]}
    /\ UNCHANGED <<state, COUNTERS, counts, cur, held, corrupt>>

\* COUNTERS.lock() and the changes of the counters, which come before the change
\* of the state.
Count(c, from, to, objects, pages) ==
    /\ COUNTERS = NoCpu
    /\ Goto(c, from, to)
    /\ COUNTERS' = c
    /\ counts' = <<counts[1] + objects, counts[2] + pages>>
    /\ UNCHANGED <<state, mapped, recorded, cur, held, corrupt>>

Discount(c, from, to, objects, pages) ==
    /\ COUNTERS = NoCpu
    /\ Goto(c, from, to)
    /\ COUNTERS' = c
    /\ counts' = <<counts[1] - objects, counts[2] - pages>>
    /\ UNCHANGED <<state, mapped, recorded, cur, held, corrupt>>

\* The state is stored, still under the lock.
Store(c, from, to, new) ==
    /\ Goto(c, from, to)
    /\ state' = [state EXCEPT ![cur[c]] = new]
    /\ UNCHANGED <<mapped, recorded, COUNTERS, counts, cur, held, corrupt>>

Unlock(c, from, h) ==
    /\ Goto(c, from, "idle")
    /\ COUNTERS' = NoCpu
    /\ held' = h
    /\ UNCHANGED <<state, mapped, recorded, counts, cur, corrupt>>

\* deallocate finds the sample of the pointer among those that were ever live.
deallocate(c, s) ==
    /\ s \in held
    /\ Goto(c, "idle", "scrub")
    /\ cur' = [cur EXCEPT ![c] = s]
    /\ held' = held \ {s}
    /\ corrupt' = (corrupt \/ state[s] # LIVE)
    /\ state' = [state EXCEPT ![s] = IF @ = LIVE THEN SCRUBBING ELSE @]
    /\ UNCHANGED <<mapped, recorded, COUNTERS, counts>>

\* deallocate: the object is scrubbed, through its mapping.
Scrub(c) ==
    /\ Goto(c, "scrub", "queue")
    /\ corrupt' = (corrupt \/ cur[c] \notin mapped)
    /\ UNCHANGED <<state, mapped, recorded, COUNTERS, counts, cur, held>>

\* Mutant: every freed sample is taken, whether its scrub is over or not.
reap_scrubbing(c) ==
    \E s \in Samples :
        /\ c = Reaper
        /\ Goto(c, "idle", "unmap")
        /\ state[s] \in {QUEUED, SCRUBBING}
        /\ state' = [state EXCEPT ![s] = UNMAPPING]
        /\ cur' = [cur EXCEPT ![c] = s]
        /\ UNCHANGED <<mapped, recorded, COUNTERS, counts, held, corrupt>>

\* reap: a queued sample is taken.
reap(c) ==
    \E s \in Samples :
        /\ c = Reaper
        /\ Goto(c, "idle", "unmap")
        /\ Exchange(s, QUEUED, UNMAPPING)
        /\ cur' = [cur EXCEPT ![c] = s]
        /\ UNCHANGED <<mapped, recorded, COUNTERS, counts, held, corrupt>>

\* reap: its page is unmapped on every CPU (StackMappings).
release_sample_page(c) ==
    /\ Goto(c, "unmap", "free")
    /\ mapped' = mapped \ {cur[c]}
    /\ UNCHANGED <<state, recorded, COUNTERS, counts, cur, held, corrupt>>

Next ==
    \E c \in Cpus :
        \/ allocate(c) \/ allocate_sample_page(c)
        \/ Count(c, "publish", "published", 1, 1) \/ Store(c, "published", "allocated", LIVE)
        \/ Unlock(c, "allocated", held \cup {cur[c]})
        \/ \E s \in Samples : deallocate(c, s)
        \/ Scrub(c)
        \/ Discount(c, "queue", "queued", 1, 0) \/ Store(c, "queued", "deallocated", QUEUED)
        \/ reap(c) \/ release_sample_page(c)
        \/ Discount(c, "free", "freed", 0, 1) \/ Store(c, "freed", "reaped", FREED)
        \/ Unlock(c, "deallocated", held) \/ Unlock(c, "reaped", held)

Spec == Init /\ [][Next]_vars

-----------------------------------------------------------------------------
(* Properties *)

In(states) == {s \in Samples : state[s] \in states}

\* Whatever CPUs allocate, free and reap at the same time: whoever takes COUNTERS
\* finds in them exactly the live objects and the mapped samples ("including
\* queue"); an object that a client may use is mapped, recorded and LIVE until the
\* client frees it; and no page goes before its scrub is over.
FenceSound ==
    /\ COUNTERS = NoCpu =>
        /\ counts[1] = Cardinality(In({LIVE, SCRUBBING}))
        /\ counts[2] = Cardinality(In({LIVE, SCRUBBING, QUEUED, UNMAPPING}))
    /\ held \subseteq mapped \cap recorded \cap In({LIVE})
    /\ In({LIVE, SCRUBBING, QUEUED}) \subseteq mapped
    /\ mapped \cap In({EMPTY, FREED}) = {}
    /\ ~corrupt
=============================================================================
