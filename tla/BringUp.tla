------------------------------ MODULE BringUp ------------------------------
(***************************************************************************)
(* Bring-up of the other processors (arch/amd64/smp.rs, arch/arm64/smp.rs),*)
(* their admission under one lock (security/mod.rs, topology/), the        *)
(* microcode update inside it (arch/amd64/microcode.rs) and the policies   *)
(* the boot CPU fixes afterwards (protection.rs, wx.rs).  A processor that *)
(* does not answer in time may still start later, at any moment.           *)
(***************************************************************************)
EXTENDS Integers, Sequences, FiniteSets, FiniteSetsExt, SequencesExt, TLC

CONSTANTS
    Machines,       \* [arch, bsp, ids, spin, args, mode, cpu: [id -> [shift, known, caps, fits, rev]], blob]
    MAX_CPUS,
    STACKS          \* numbers of boot stacks

VARIABLES
    machine,        \* the machine that boots
    bsp,            \* [pc, work, deferred, second, cpu_num, target]: boot_aps, or boot_secondaries
    box,            \* [ready, late, release, mapped, cpu, stack, free]: flags, mailbox, stacks
    gate,           \* [lock, sealed, closed, admitted, caps, initialized, common, access]
    records,        \* topology's Admission::records
    ap              \* id -> [pc, cpu, stack, gates, rev, cr4, cached]

vars == <<machine, bsp, box, gate, records, ap>>

Ids == Range(machine.ids)
Nobody == -1
Pending == {"pending"}
SMAP == "SMAP"
LASS == "LASS"

-----------------------------------------------------------------------------
(* Topology (topology/policy.rs).  A mask is 2^shift - 1. *)

Core(id) ==
    LET c == machine.cpu[id]
    IN [base |-> IF c.known THEN id - (id % 2^c.shift) ELSE id,
        shift |-> IF c.known THEN c.shift ELSE 0, known |-> c.known]

Empty == [core |-> [base |-> 0, shift |-> 0, known |-> FALSE], reason |-> "Empty"]

overlaps(a, b) == LET w == 2^Max({a.shift, b.shift}) IN a.base \div w = b.base \div w

disable_smt(args, mode) ==
    LET Step(s, arg) ==
            CASE arg = "on"    -> [s EXCEPT !.disable = TRUE]
              [] arg = "off"   -> [s EXCEPT !.disable = FALSE]
              [] arg = "auto"  -> [s EXCEPT !.disable = mode # "off"]
              [] arg = "force" -> [disable |-> TRUE, forced |-> TRUE]
        s == FoldLeft(Step, [disable |-> mode # "off", forced |-> mode = "auto,nosmt"], args)
    IN "invalid" \in Range(args) \/ s.forced \/ s.disable

isolating == disable_smt(machine.args, machine.mode)

Online(r) == {n \in DOMAIN r : r[n].reason = "Online"}

covered_candidate(id) ==
    /\ isolating
    /\ \E n \in Online(records) :
          LET core == records[n].core
          IN core.known /\ id \div 2^core.shift = core.base \div 2^core.shift

Reason(core) ==
    CASE ~isolating -> "Online"
      [] isolating /\ (~core.known \/ ~records[0].core.known) -> "Unknown"
      [] OTHER -> IF \E n \in Online(records) : overlaps(core, records[n].core)
                  THEN "Sibling" ELSE "Online"

\* Admission::admit: the records afterwards
admit(n, core) ==
    IF n = 0 \/ n >= MAX_CPUS \/ records[n].reason # "Empty" THEN records
    ELSE [records EXCEPT ![n] = [core |-> core, reason |-> Reason(core)]]

-----------------------------------------------------------------------------
(* Microcode (microcode/mod.rs, arch/amd64/microcode.rs): a container is a *)
(* sequence of patches [ok, sig, rev]; one malformed patch refuses all.    *)

Newest(patches, before) ==
    LET newer == {p.rev : p \in {q \in Range(patches) : q.rev > before}}
    IN IF newer = {} THEN before ELSE Max(newer)

select(blob, sig, before) ==
    IF \E i \in DOMAIN blob : ~blob[i].ok THEN before
    ELSE Newest(SelectSeq(blob, LAMBDA p : p.sig = sig), before)

\* The revisions apply_locked can leave: the buffer or the register may be refused.
apply_locked(id) ==
    LET before == machine.cpu[id].rev
    IN {before, select(machine.blob, machine.cpu[id].sig, before)}

-----------------------------------------------------------------------------
Init ==
    /\ machine \in Machines
    /\ bsp = [pc |-> "boot", work |-> machine.ids, deferred |-> <<>>, second |-> FALSE, cpu_num |-> 1, target |-> Nobody]
    /\ box = [ready |-> FALSE, late |-> FALSE, release |-> FALSE, mapped |-> machine.arch = "amd64",
              cpu |-> 0, stack |-> 0, free |-> STACKS]
    /\ gate = [lock |-> Nobody, sealed |-> FALSE, closed |-> FALSE, admitted |-> {0},
               caps |-> [n \in {0} |-> machine.cpu[machine.bsp].caps], initialized |-> {0},
               common |-> Pending, access |-> Pending]
    /\ records = [n \in 0..(MAX_CPUS - 1) |->
                     IF n = 0 THEN [core |-> Core(machine.bsp), reason |-> "Online"] ELSE Empty]
    /\ ap = [id \in Ids \ {machine.bsp} |->
                [pc |-> "off", cpu |-> 0, stack |-> 0, gates |-> FALSE, rev |-> machine.cpu[id].rev,
                 cr4 |-> {}, cached |-> FALSE]]

-----------------------------------------------------------------------------
(* The boot CPU *)

\* boot_one_ap up to the first SIPI: stack and number go into the one mailbox.
boot_one_ap(id) ==
    /\ box' = [box EXCEPT !.ready = FALSE, !.cpu = bsp.cpu_num, !.stack = Min(box.free),
                          !.free = @ \ {Min(box.free)}]
    /\ ap' = [ap EXCEPT ![id].pc = "sipi"]

\* One turn of boot_aps' loops over the MADT: siblings are deferred, and no number
\* beyond the scheduler's is given out.
boot_aps ==
    /\ machine.arch = "amd64" /\ bsp.pc = "boot" /\ bsp.work # <<>>
    /\ LET id == Head(bsp.work)
           rest == [bsp EXCEPT !.work = Tail(@)]
       IN \/ /\ id = machine.bsp
             /\ bsp' = rest
             /\ UNCHANGED <<box, ap>>
          \/ /\ id # machine.bsp /\ ~bsp.second /\ covered_candidate(id)
             /\ bsp' = [rest EXCEPT !.deferred = Append(@, id)]
             /\ UNCHANGED <<box, ap>>
          \/ /\ id # machine.bsp /\ (bsp.second \/ ~covered_candidate(id))
             /\ \/ /\ bsp.cpu_num >= MAX_CPUS
                   /\ bsp' = [bsp EXCEPT !.pc = "seal"]
                   /\ UNCHANGED <<box, ap>>
                \/ /\ bsp.cpu_num < MAX_CPUS
                   /\ bsp' = [rest EXCEPT !.pc = "wait", !.target = id]
                   /\ boot_one_ap(id)
    /\ UNCHANGED <<machine, gate, records>>

\* The first list is done: boot the deferred processors, then seal.
BootDeferred ==
    /\ bsp.pc = "boot" /\ bsp.work = <<>>
    /\ bsp' = IF bsp.deferred = <<>> THEN [bsp EXCEPT !.pc = "seal"]
              ELSE [bsp EXCEPT !.work = bsp.deferred, !.deferred = <<>>, !.second = TRUE]
    /\ UNCHANGED <<machine, box, gate, records, ap>>

\* Mutant of wait_for_ap: a timeout goes on to the next processor.
wait_retry ==
    /\ machine.arch = "amd64" /\ bsp.pc = "wait"
    /\ bsp' = [bsp EXCEPT !.pc = "boot", !.cpu_num = IF box.ready THEN @ + 1 ELSE @]
    /\ box' = [box EXCEPT !.late = @ \/ ~box.ready]
    /\ UNCHANGED <<machine, gate, records, ap>>

\* wait_for_ap sees AP_READY; or it times out, and nothing is booted after that.
wait_for_ap ==
    /\ machine.arch = "amd64" /\ bsp.pc = "wait"
    /\ \/ /\ box.ready
          /\ bsp' = [bsp EXCEPT !.pc = "boot", !.cpu_num = @ + 1]
          /\ UNCHANGED box
       \/ /\ ~box.ready
          /\ bsp' = [bsp EXCEPT !.pc = "seal"]
          /\ box' = [box EXCEPT !.late = TRUE]
    /\ UNCHANGED <<machine, gate, records, ap>>

\* One turn of boot_secondaries: a context of its own for each processor, handed over
\* by PSCI or through the one spin-table word.  A refused CPU_ON gives both stacks back.
boot_secondaries ==
    /\ machine.arch = "arm64" /\ bsp.pc = "boot" /\ bsp.work # <<>>
    /\ LET id == Head(bsp.work)
           rest == [bsp EXCEPT !.work = Tail(@)]
       IN \/ /\ id = machine.bsp
             /\ bsp' = rest
             /\ UNCHANGED <<box, ap>>
          \/ /\ id # machine.bsp /\ bsp.cpu_num >= MAX_CPUS
             /\ bsp' = [bsp EXCEPT !.pc = "seal"]
             /\ UNCHANGED <<box, ap>>
          \/ /\ id # machine.bsp /\ bsp.cpu_num < MAX_CPUS /\ ~machine.spin   \* CPU_ON fails
             /\ bsp' = rest
             /\ box' = [box EXCEPT !.ready = FALSE]
             /\ UNCHANGED ap
          \/ /\ id # machine.bsp /\ bsp.cpu_num < MAX_CPUS
             /\ bsp' = [rest EXCEPT !.pc = "wait", !.target = id]
             /\ LET stack == Min(box.free)
                IN /\ box' = [box EXCEPT !.ready = FALSE, !.cpu = bsp.cpu_num, !.stack = stack,
                                         !.free = @ \ {stack}]
                   /\ ap' = [ap EXCEPT ![id] = IF machine.spin THEN [@ EXCEPT !.pc = "sipi"]
                                ELSE [@ EXCEPT !.pc = "entry", !.cpu = bsp.cpu_num, !.stack = stack]]
    /\ UNCHANGED <<machine, gate, records>>

wait_secondary ==
    /\ machine.arch = "arm64" /\ bsp.pc = "wait"
    /\ bsp' = IF box.ready THEN [bsp EXCEPT !.pc = "boot", !.cpu_num = @ + 1]
              ELSE [bsp EXCEPT !.pc = "seal"]
    /\ UNCHANGED <<machine, box, gate, records, ap>>

\* microcode::seal, then BOOT_RELEASE (arm64 has neither).
seal ==
    /\ bsp.pc = "seal"
    /\ gate' = [gate EXCEPT !.closed = machine.arch = "amd64"]
    /\ box' = [box EXCEPT !.release = TRUE]
    /\ bsp' = [bsp EXCEPT !.pc = IF machine.arch = "amd64" THEN "protect" ELSE "finalize"]
    /\ UNCHANGED <<machine, records, ap>>

freeze == [gate EXCEPT !.sealed = TRUE]

CapsOf(cpus) == {gate.caps[n] : n \in cpus}

\* x86_access::common and shared_entries
access_common(sets) ==
    LET all == IF sets = {} THEN {} ELSE {f \in UNION sets : \A s \in sets : f \in s}
    IN IF SMAP \in all THEN all ELSE all \ {LASS}

\* Mutant of shared_entries: parked CPUs are forgotten.
shared_active(active, initialized) == active

shared_entries(active, initialized) ==
    access_common({IF \E s \in initialized : SMAP \notin s THEN active \ {SMAP} ELSE active})

\* protection::finalize: the control bits every running CPU sets.
protection_finalize ==
    /\ bsp.pc = "protect" /\ gate.lock = Nobody
    /\ gate' = [freeze EXCEPT !.access = shared_entries(access_common(CapsOf(gate.admitted)),
                                                        CapsOf(gate.initialized))]
    /\ bsp' = [bsp EXCEPT !.pc = "tramp"]
    /\ UNCHANGED <<machine, box, records, ap>>

\* wx::finalize_trampoline: the identity mapping goes unless a late processor may need
\* it, and every registered CPU drops its cached copy before the boot CPU goes on.
finalize_trampoline ==
    /\ bsp.pc = "tramp"
    /\ box' = [box EXCEPT !.mapped = box.late]
    /\ bsp' = [bsp EXCEPT !.pc = "shootdown"]
    /\ UNCHANGED <<machine, gate, records, ap>>

Acknowledged ==
    /\ bsp.pc = "shootdown"
    /\ \A id \in DOMAIN ap : ap[id].cpu \in gate.admitted \ {0} => ~ap[id].cached
    /\ bsp' = [bsp EXCEPT !.pc = "finalize"]
    /\ UNCHANGED <<machine, box, gate, records, ap>>

\* security::finalize: CommonCaps::intersection over the admitted CPUs.
finalize ==
    /\ bsp.pc = "finalize" /\ gate.lock = Nobody
    /\ gate' = [freeze EXCEPT !.common =
                   {f \in UNION CapsOf(gate.admitted) : \A s \in CapsOf(gate.admitted) : f \in s}]
    /\ bsp' = [bsp EXCEPT !.pc = "topology"]
    /\ UNCHANGED <<machine, box, records, ap>>

\* topology::report asserts that its records are the admitted CPUs,
\* security::report that a requested isolation is in force.
topology_report ==
    /\ bsp.pc = "topology" /\ gate.lock = Nobody
    /\ bsp' = [bsp EXCEPT !.pc = IF Online(records) = gate.admitted THEN "report" ELSE "panic"]
    /\ UNCHANGED <<machine, box, gate, records, ap>>

report ==
    /\ bsp.pc = "report" /\ gate.lock = Nobody
    /\ bsp' = [bsp EXCEPT !.pc = IF machine.mode = "auto,nosmt" /\ ~isolating THEN "panic" ELSE "up"]
    /\ UNCHANGED <<machine, box, gate, records, ap>>

-----------------------------------------------------------------------------
(* The other processors *)

\* The trampoline (or the spin-table stub) reads stack and number from the mailbox.
Trampoline(id) ==
    /\ ap[id].pc = "sipi"
    /\ ap' = [ap EXCEPT ![id] = [@ EXCEPT !.pc = "entry", !.cpu = box.cpu, !.stack = box.stack,
                                          !.cached = machine.arch = "amd64"]]
    /\ UNCHANGED <<machine, bsp, box, gate, records>>

\* admit_cpu_prepared takes ADMISSION and turns a processor away once it is sealed.
admit_cpu_prepared(id) ==
    /\ ap[id].pc = "entry" /\ gate.lock = Nobody
    /\ \/ /\ gate.sealed
          /\ ap' = [ap EXCEPT ![id].pc = "reject"]
          /\ UNCHANGED gate
       \/ /\ ~gate.sealed
          /\ gate' = [gate EXCEPT !.lock = id]
          /\ ap' = [ap EXCEPT ![id].pc = IF machine.arch = "amd64" THEN "apply" ELSE "prepare"]
    /\ UNCHANGED <<machine, bsp, box, records>>

\* microcode::apply: nothing once closed; else the gates are loaded and the update made.
apply(id) ==
    /\ ap[id].pc = "apply"
    /\ \/ /\ gate.closed
          /\ ap' = [ap EXCEPT ![id].pc = "reject"]
          /\ gate' = [gate EXCEPT !.lock = Nobody]
       \/ /\ ~gate.closed
          /\ \E rev \in apply_locked(id) :
                ap' = [ap EXCEPT ![id] = [@ EXCEPT !.pc = "prepare", !.gates = TRUE, !.rev = rev]]
          /\ UNCHANGED gate
    /\ UNCHANGED <<machine, bsp, box, records>>

\* The rest of ap_entry's closures: capabilities, return backend, topology; then
\* register_ap and ADMITTED, still under the lock.
ap_entry(id) ==
    /\ machine.arch = "amd64" /\ ap[id].pc = "prepare"
    /\ LET n == ap[id].cpu
           caps == machine.cpu[id].caps
           fits == machine.cpu[id].fits
           enters == fits /\ records'[n].reason = "Online" /\ records[n].reason = "Empty"
       IN /\ records' = IF fits THEN admit(n, Core(id)) ELSE records
          /\ gate' = [gate EXCEPT !.lock = Nobody, !.caps = (n :> caps) @@ @, !.initialized = @ \cup {n},
                                  !.admitted = IF enters THEN @ \cup {n} ELSE @]
          /\ ap' = [ap EXCEPT ![id].pc = IF enters THEN "online" ELSE "reject"]
    /\ UNCHANGED <<machine, bsp, box>>

\* arm64_secondary_main: the key's algorithm, topology, then capabilities.
arm64_secondary_main(id) ==
    /\ machine.arch = "arm64" /\ ap[id].pc = "prepare"
    /\ LET n == ap[id].cpu
           fits == machine.cpu[id].fits
           enters == fits /\ records'[n].reason = "Online" /\ records[n].reason = "Empty"
       IN /\ records' = IF fits THEN admit(n, Core(id)) ELSE records
          /\ gate' = [gate EXCEPT !.lock = Nobody,
                                  !.caps = IF enters THEN (n :> machine.cpu[id].caps) @@ @ ELSE @,
                                  !.admitted = IF enters THEN @ \cup {n} ELSE @]
          /\ ap' = [ap EXCEPT ![id].pc = IF enters THEN "online" ELSE "reject"]
    /\ UNCHANGED <<machine, bsp, box>>

\* AP_READY is set by processors that joined and by those that park.
Ready(id) ==
    /\ ap[id].pc \in {"online", "reject"}
    /\ box' = [box EXCEPT !.ready = TRUE]
    /\ ap' = [ap EXCEPT ![id].pc = IF @ = "reject" THEN "parked"
                                   ELSE IF machine.arch = "amd64" THEN "held" ELSE "running"]
    /\ UNCHANGED <<machine, bsp, gate, records>>

Released(id) ==
    /\ ap[id].pc = "held" /\ box.release
    /\ ap' = [ap EXCEPT ![id].pc = "running"]
    /\ UNCHANGED <<machine, bsp, box, gate, records>>

\* wx::tlb_handler
tlb_handler(id) ==
    /\ bsp.pc = "shootdown" /\ ap[id].pc = "running" /\ ap[id].cached
    /\ ap' = [ap EXCEPT ![id].cached = FALSE]
    /\ UNCHANGED <<machine, bsp, box, gate, records>>

\* protection::apply_current, on a CPU's first entry to the scheduler after READY
apply_current(id) ==
    /\ machine.arch = "amd64" /\ ap[id].pc = "running" /\ gate.access # Pending
    /\ ap[id].cr4 # gate.access
    /\ ap' = [ap EXCEPT ![id].cr4 = gate.access]
    /\ UNCHANGED <<machine, bsp, box, gate, records>>

Next ==
    \/ boot_aps \/ BootDeferred \/ wait_for_ap \/ boot_secondaries \/ wait_secondary \/ seal
    \/ protection_finalize \/ finalize_trampoline \/ Acknowledged \/ finalize
    \/ topology_report \/ report
    \/ \E id \in DOMAIN ap :
          \/ Trampoline(id) \/ admit_cpu_prepared(id) \/ apply(id) \/ ap_entry(id)
          \/ arm64_secondary_main(id) \/ Ready(id) \/ Released(id) \/ tlb_handler(id) \/ apply_current(id)

Spec == Init /\ [][Next]_vars

-----------------------------------------------------------------------------
(* Properties *)

Started == {id \in DOMAIN ap : ap[id].pc \notin {"off", "sipi"}}

\* A processor that starts late, after the boot CPU gave up on it, never shares its
\* stack or its CPU number with another, and finds the trampoline still mapped
\* (boot_aps and boot_secondaries stop at the first timeout; finalize_trampoline).
BootOwnership ==
    /\ \A a, b \in Started : a # b => ap[a].stack # ap[b].stack /\ ap[a].cpu # ap[b].cpu
    /\ \A id \in Started : ap[id].stack \notin box.free /\ ap[id].cpu \in 1..(MAX_CPUS - 1)
    /\ \A id \in DOMAIN ap : ap[id].pc = "sipi" /\ machine.arch = "amd64" => box.mapped
    /\ bsp.pc \notin {"shootdown"} /\ ~box.mapped =>
          \A id \in DOMAIN ap : ap[id].pc = "running" => ~ap[id].cached

\* Once a policy is fixed it stays right: the common capabilities are those of every CPU
\* that runs tasks, control bits set on a CPU and the entry code all CPUs share (parked
\* ones keep their interrupt gates) use only what that CPU has, at most one thread of a
\* core runs when isolation is on, no boot assertion fires and no CPU's microcode goes
\* back (security/mod.rs, protection.rs, topology/policy.rs, microcode.rs).
AdmissionSound ==
    /\ bsp.pc # "panic"
    /\ gate.common # Pending =>
          \A f \in gate.common : \A id \in DOMAIN ap :
             ap[id].pc \in {"online", "held", "running"} => f \in machine.cpu[id].caps
    /\ gate.access # Pending => \A id \in DOMAIN ap :
          /\ ap[id].pc \in {"online", "held", "running"} => gate.access \subseteq machine.cpu[id].caps
          /\ ap[id].gates /\ SMAP \in gate.access => SMAP \in machine.cpu[id].caps
          /\ LASS \in gate.access => SMAP \in gate.access
    /\ isolating => \A m, n \in Online(records) :
          m # n => ~overlaps(records[m].core, records[n].core)
    /\ \A id \in DOMAIN ap : ap[id].rev >= machine.cpu[id].rev
=============================================================================
