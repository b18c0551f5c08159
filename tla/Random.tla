-------------------------------- MODULE Random --------------------------------
(***************************************************************************)
(* The entropy pool and the per-CPU generators (random/mod.rs), seeded     *)
(* from the processor (arch/*/entropy.rs) and virtio-rng while other CPUs  *)
(* draw.  Hashes are ideal: the pool's key is the set of inputs absorbed   *)
(* and the number of derivations, a generator's key what it was derived    *)
(* from.  POOL is locked; READY and EPOCH are read without the lock.       *)
(***************************************************************************)
EXTENDS Integers, Sequences, FiniteSets, FiniteSetsExt

CONSTANTS
    Cpus,
    Samples,    \* seed samples, as sequences of 64-bit words
    Fixed,      \* the words 0 and u64::MAX
    MaxMix,     \* bound: inputs mixed
    MaxFill     \* bound: derivations and draws

VARIABLES
    POOL,       \* [absorbed, serial, bits, locked]
    READY,
    EPOCH,
    Local,      \* LOCAL, per CPU: the generator, if any, and its epoch
    cpu,        \* per CPU: the call under way
    mixed,      \* inputs so far, the strong ones among them, and those whose mix returned
    drawn       \* number of draws, and what the last one came from

vars == <<POOL, READY, EPOCH, Local, cpu, mixed, drawn>>

None == [key |-> <<>>, epoch |-> 0]
Free == [pc |-> "idle", credit |-> 0, epoch |-> 0, after |-> {}, key |-> <<>>]

Init ==
    /\ POOL = [absorbed |-> {}, serial |-> 0, bits |-> 0, locked |-> FALSE]
    /\ READY = FALSE
    /\ EPOCH = 1
    /\ Local = [c \in Cpus |-> None]
    /\ cpu = [c \in Cpus |-> Free]
    /\ mixed = [n |-> 0, strong |-> {}, done |-> {}]
    /\ drawn = [n |-> 0, last |-> <<>>, after |-> {}]

-----------------------------------------------------------------------------
(* Seeding *)

\* healthy: no constants and no word twice in a row
healthy(bytes) ==
    /\ bytes # <<>>
    /\ \A i \in DOMAIN bytes : bytes[i] \notin Fixed /\ (i > 1 => bytes[i] # bytes[i - 1])

\* seed_quiet: credit for a healthy sample, by its length.
seed_quiet(bytes, bits) == IF healthy(bytes) THEN Min({bits, Len(bytes) * 64, 256}) ELSE 0

\* The sources: an incomplete sample is mixed without credit.
collect_credit(complete, bits) == IF complete THEN bits ELSE 0
rng_seed(bytes) == seed_quiet(bytes, 256)

\* mix: locked, it rekeys the pool, then READY, then EPOCH.
Begin(c, credit) ==
    /\ cpu[c].pc = "idle" /\ mixed.n < MaxMix
    /\ cpu' = [cpu EXCEPT ![c] = [Free EXCEPT !.pc = "mix", !.credit = credit]]
    /\ UNCHANGED <<POOL, READY, EPOCH, Local, mixed, drawn>>

collect(c) ==
    \E bytes \in Samples, complete \in BOOLEAN, bits \in {128, 256} :
       Begin(c, seed_quiet(bytes, collect_credit(complete, bits)))

virtio_rng(c) == \E bytes \in Samples : Begin(c, rng_seed(bytes))

\* Timing and public data
uncredited(c) == Begin(c, 0)

mix_key(c) ==
    /\ cpu[c].pc = "mix" /\ ~POOL.locked
    /\ LET id == mixed.n + 1
       IN /\ POOL' = [POOL EXCEPT !.locked = TRUE, !.absorbed = @ \cup {id},
                                  !.bits = Max({@, Min({cpu[c].credit, 256})})]
          /\ mixed' = [mixed EXCEPT !.n = id, !.strong = IF cpu[c].credit >= 128 THEN @ \cup {id} ELSE @]
          /\ cpu' = [cpu EXCEPT ![c] = [@ EXCEPT !.pc = "ready", !.after = {id}]]
    /\ UNCHANGED <<READY, EPOCH, Local, drawn>>

mix_ready(c) ==
    /\ cpu[c].pc = "ready"
    /\ READY' = (POOL.bits >= 128)
    /\ cpu' = [cpu EXCEPT ![c].pc = "epoch"]
    /\ UNCHANGED <<POOL, EPOCH, Local, mixed, drawn>>

mix_epoch(c) ==
    /\ cpu[c].pc = "epoch"
    /\ EPOCH' = EPOCH + 1
    /\ POOL' = [POOL EXCEPT !.locked = FALSE]
    /\ mixed' = [mixed EXCEPT !.done = @ \cup cpu[c].after]
    /\ cpu' = [cpu EXCEPT ![c] = Free]
    /\ UNCHANGED <<READY, Local, drawn>>

-----------------------------------------------------------------------------
(* Drawing *)

\* derive: a key of its own from the pool, which is ratcheted.
derived == <<POOL.absorbed, POOL.serial + 1>>

fill_ready(c) ==
    /\ cpu[c].pc = "idle" /\ drawn.n < MaxFill
    /\ READY
    /\ cpu' = [cpu EXCEPT ![c] = [Free EXCEPT !.pc = "load", !.after = mixed.done]]
    /\ UNCHANGED <<POOL, READY, EPOCH, Local, mixed, drawn>>

fill_epoch(c) ==
    /\ cpu[c].pc = "load"
    /\ cpu' = [cpu EXCEPT ![c] = [@ EXCEPT !.epoch = EPOCH, !.key = Local[c].key,
                  !.pc = IF Local[c].key = <<>> \/ Local[c].epoch # EPOCH THEN "derive" ELSE "draw"]]
    /\ UNCHANGED <<POOL, READY, EPOCH, Local, mixed, drawn>>

fill_derive(c) ==
    /\ cpu[c].pc = "derive" /\ ~POOL.locked
    /\ POOL' = [POOL EXCEPT !.serial = @ + 1]
    /\ cpu' = [cpu EXCEPT ![c] = [@ EXCEPT !.pc = "draw", !.key = derived]]
    /\ UNCHANGED <<READY, EPOCH, Local, mixed, drawn>>

\* Generator::fill replaces the generator's key by the half it does not return.
Draw(c, epoch) ==
    /\ cpu[c].pc = "draw"
    /\ Local' = [Local EXCEPT ![c] = [key |-> cpu[c].key, epoch |-> epoch]]
    /\ drawn' = [n |-> drawn.n + 1, last |-> cpu[c].key, after |-> cpu[c].after]
    /\ cpu' = [cpu EXCEPT ![c] = Free]
    /\ UNCHANGED <<POOL, READY, EPOCH, mixed>>

\* Mutant: the epoch is read again when the generator is stored.
fill_reread(c) == Draw(c, EPOCH)
fill(c) == Draw(c, cpu[c].epoch)

\* early_u64: a generator for one draw, ready or not
early_u64(c) ==
    /\ cpu[c].pc = "idle" /\ drawn.n < MaxFill /\ ~POOL.locked
    /\ POOL' = [POOL EXCEPT !.serial = @ + 1]
    /\ drawn' = [drawn EXCEPT !.n = @ + 1]
    /\ UNCHANGED <<READY, EPOCH, Local, cpu, mixed>>

Next ==
    \E c \in Cpus :
       \/ collect(c) \/ virtio_rng(c) \/ uncredited(c) \/ mix_key(c) \/ mix_ready(c) \/ mix_epoch(c)
       \/ fill_ready(c) \/ fill_epoch(c) \/ fill_derive(c) \/ fill(c) \/ early_u64(c)

Spec == Init /\ [][Next]_vars

-----------------------------------------------------------------------------
\* What fill returns is keyed with every input whose mix had returned when fill was
\* called, on whichever CPU, and with a healthy sample of at least 128 bits; and no two
\* CPUs' generators have the same key (random/mod.rs mix, derive, fill).
RandomFresh ==
    /\ drawn.last # <<>> =>
          /\ drawn.after \subseteq drawn.last[1]
          /\ drawn.last[1] \cap mixed.strong # {}
    /\ \A c, d \in Cpus : c # d /\ Local[c].key # <<>> => Local[c].key # Local[d].key
=============================================================================
