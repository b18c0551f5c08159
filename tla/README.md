# A verification of MMURTL/RS in TLA+

MMURTL/RS is a small SMP kernel in Rust for amd64 and arm64. Its design is
message passing: tasks exchange fixed-size request blocks (RQBs) with blocking
send, receive and reply, and everything else (services, user programs, drivers)
is built around that. This directory holds TLA+ modules that model the kernel's
parts, the TLC configurations that check them on small instances, and TLAPS
proofs that hold for every instance. Paths below are relative to the kernel's
source directory `src/`; `PROJECT.json` gives, for each definition, the lines it
models, and the hazards each property is there to catch.

## The system and its parts

| Part | Source | Module |
|---|---|---|
| Scheduler, context switch, IPC, sleep, exit, reaper | `scheduler/` | `Scheduler` (proofs: `SchedulerIpcProofs`, `SchedulerTaskProofs`, `SchedulerSwitchProofs`, `SchedulerProofs`, `SchedulerActionProofs`) |
| ASID pool and address-space switch | `arch/arm64/{asid_pool,mmu,pan}.rs` | `Asids` (proofs: `AsidProofs`) |
| Kernel stacks and TLB shootdown | `memory/stacks.rs`, `arch/*/{stacks,wx}.rs` | `StackMappings` (proofs: `StackStepProofs`, `StackProofs`) |
| Virtqueues, block and network driver | `virtio/` | `Virtqueue`, `VirtioBlk`, `VirtioNet`, together `Devices` |
| FAT and exFAT | `fs/` | `Fat`, `ExFat`, together `FileSystems`, which implements `FileStore` |
| Frame allocator, heap, guard-page allocator, user address spaces, executables | `memory/`, `arch/*/{memory,mmu}.rs` | `Frames`, `Heap`, `Kfence`, `Elf`, `UserMemory`, together `Memory` |
| CPU bring-up, admission, topology policy, microcode | `arch/*/smp.rs`, `security/mod.rs`, `topology/`, `microcode/` | `BringUp` |
| System calls, trap entry, run-time mitigations, user programs, services | `syscall.rs`, `userspace.rs`, `ipc/`, `arch/` | `UserPrograms`, `UserTasks` |
| Console input | `keyboard.rs`, `arch/*/serial.rs`, `shell/mod.rs` | `Console` |
| Random pool | `random/`, `arch/*/entropy.rs` | `Random`; with the three above `Platform` |

How they interact: interrupts (timer, reschedule IPI) and the yield stub enter
the scheduler, which owns the task table and hands CPUs from task to task. Tasks
enter it through `with_scheduler` for IPC, sleep, creation and exit. The reaper
is a task that takes exited tasks out of the table and gives their stacks and
address spaces back to the memory managers. Memory managers, drivers and file
systems have locks of their own and are called by tasks; the lock order is
scheduler, heap, frame allocator, serial.

The models meet at these interfaces. `Asids` assumes that no CPU runs in a space
that is freed, and `StackMappings` that a released stack is not in use: both are
`InUseNotFreed` of `Scheduler`. `Heap` and `UserMemory` take frames that are free
and zero: `FramesSound` and `HandedOutZero`. The exFAT model's faults, an error
now or a device that is gone for good, are those `VirtioBlk` can return. `Platform`
includes `Devices`.
`UserTasks` takes a context switch as one step, which `NoSharedStack` justifies.

`Memory`, `Devices` and `Platform` combine parts that share no state (beyond such
an interface). Exploring the product of parts that cannot influence one another
would show nothing more, so the variable `part` picks one, and the parts lie on
the same variables; each keeps its own specification.

## Scheduler

### State

`tasks`, `cpus`, `rr_cursor` are the fields of `struct Scheduler`. `lock` is the
CPU that holds `SCHEDULER` across its stack switch (`SWITCH_LOCK_HELD`), `stack`
is the task on whose kernel stack each CPU executes, `space` the task whose
address space it has loaded. `next_id` is `NEXT_TASK_ID`. `batch`, `REAPING` and
`freed` are the reaper's local batch, its counter, and the tasks whose resources
are back. A task control block keeps the fields the properties need plus `pc`,
the place of the task between two scheduler calls.

### Actions

Every `with_scheduler` closure masks interrupts and holds the spinlock, so it is
one action, enabled while no CPU is inside a switch (`Locked`). A context switch
is not atomic: `on_tick` (in `Interrupt` or `Yield`) chooses the next task under
the lock and leaves the lock held, `SwitchStack` is the assembly's move to the
new stack, `scheduler_unlock` ends it. Between any two actions of one CPU the
other CPUs may act, and a timer tick or reschedule IPI may hit. Code that runs
without the lock is a separate action: the two reads of `JIFFIES` in `sleep_ms`,
and the reaper's releases.

| Code | Action or operator |
|---|---|
| `register_ap`, `start`, `create_task`, `add_task` | same names |
| `on_tick`, `pick_next` | `on_tick` with `Saved`, `Woken`, `SwitchedOut`, `SwitchedIn`, `pick_next` |
| timer and IPI handlers, the yield stub | `Interrupt`, `Yield` |
| `yield_now` of a task that has nothing to wait for | `yield_now` |
| assembly tail, `scheduler_unlock` | `SwitchStack`, `scheduler_unlock` |
| `send_rqb` | `send_rqb` (post), `YieldNow`, `send_rqb_resume` (loop body); refusals `send_rqb_refused` |
| `receive_rqb`, `try_receive_rqb`, `reply_rqb` | same names, `reply_rqb_refused` |
| `sleep_ms` | `sleep_ms`, `SleepTest`, `sleep_until`, `YieldNow` |
| `exit_current` | `exit_current` with `mark_exited`, then `YieldNow` for ever |
| `reaper_task` | sleep, `collect_exited`, `release` per task, `release_done` |

Abstractions: a request is its sender's id and a reply is who answered and
whether it is the kernel's `Aborted`, since no kernel decision depends on the
payload. Time is relative (`wake_tick` counts the jiffies still to go). Sending
a reschedule IPI changes no kernel state, so an IPI may arrive at any time. Ids
stand for the resources they own. `reaped` is set when `collect_exited` takes the
resources out of the slot; its doc (`scheduler/task.rs:131`) says they are "already
released", which `release` does a little later. `create_task` takes its id before it takes the
lock; ids are only compared for equality, so both are one step.

### Runs

| Run | Instance | Shows |
|---|---|---|
| `scheduler_ipc` | 2 CPUs, ids up to 4, inbox of 1; send, receive, try_receive, reply, exit (458 493 states) | no two CPUs are on one stack (`NoSharedStack`), no wakeup is lost (`NoLostWakeup`), a blocked sender's receiver is alive (`ReceiverAlive`), a resumed sender has its receiver's reply (`ReplyWhenResumed`), a reply is never overwritten (`ReplyKept`) |
| `scheduler_life` | 2 CPUs, ids up to 6, batch of 1; create, exit, reaper (219 198 states) | the reaper frees nothing in use (`InUseNotFreed`), `unreaped_tasks` never reports too little (`NeverUnderReports`), an exited task stays off every CPU and its slot is reused only after the reaper took it (`ExitedStaysOff`) |
| `scheduler_live` | 2 CPUs, ids up to 4; sleep, yield, exit, reaper (37 439 states) | a ready task runs (`WatchedReadyRuns`), a sleeper wakes (`WatchedSleeperWakes`), an exited task is reaped (`WatchedExitedReaped`), for the last task created |

Why the bounds are enough to be interesting: with two CPUs registered there are
two tasks besides the idle ones, and with one CPU registered three, so a third
task can interfere with a sender and its receiver; an inbox of one is full after
one request; a batch of one is full while a second task waits to be reaped; six
ids let a slot be reused while the previous owner's id is still remembered.

### Fairness

`scheduler_live` assumes that a CPU inside a switch finishes it (straight-line
code with interrupts off: weak fairness), that CPU timers keep ticking and that
a task which is given a CPU again and again gets through its kernel code. The
last two need strong fairness: `SCHEDULER` is an unfair spinlock, which other
CPUs' switches make unavailable for a moment again and again, and a spinning CPU
is assumed to get it eventually. Strong fairness is on `KernelStep`, the code of a
call that has begun and the reaper's loop; the actions by which a task begins a call,
yields of its own accord included (`TaskCall`), have none. So a task may compute for
ever and keep its CPU until the timer takes it away.

### Proofs

`SchedulerProofs` proves `Spec => []IInv` for any set of CPUs, any capacity,
batch size and number of tasks, from `CpusAssumption` and `BoundsAssumption`.
Theorems: `TypeCorrect`, `ExclusiveExecution`, `ExclusiveStacks`, `ReaperSafe`,
`BlockedForAReason`, `NoOrphanedSender`, `ResumedWithReply`, `HonestCount`.

None of the properties is inductive alone. `IInv` adds: what state, program
counter, CPU and reply slot say about one another in each task (`TaskOK`: e.g. a
task that is on a CPU and not in `Running` is on its way into a yield); that ids
are unique (`IdsOK`); that each CPU's idle slot holds its own pinned task
(`IdleOK`, needed because `pick_next` falls back to it without looking); that a
CPU is on its current task's stack unless it holds the lock, and never on the
stack of another CPU's current task (`StackOK`: this is where the lock across
the switch is needed); that the reaper's ids belong to slots it has taken and no
CPU is on (`FreedOK`); and that there is one reaper whose batch `REAPING` counts
(`ReaperOK`). The proof has one lemma per action, in four modules that extend one
another: IPC, sleep and exit; CPU registration and creation; the tick; the reaper
and the theorems. Lemmas `TableStep`,
`OnlyTasksStep` and `MeStep` carry the shape most actions share: they change only
the task table, and often only the current task.

`SchedulerActionProofs` proves the two action properties from `IInv`: `ExitIsFinal`
(`ExitedStaysOff`) and `ReplyNotOverwritten` (`ReplyKept`). Both speak of one slot
before and after a step (`Kept`), and one lemma per kind of step shows that every
slot is kept: the current task is on its CPU, so it is no task that has left it; a
task outside `send_rqb` has no reply; replies and aborts go to tasks without one;
`pick_next` returns a runnable slot; and `add_task` reuses only reaped ones.

Only model-checked: liveness (TLAPS proves neither fairness nor `ENABLED` facts).

## ASIDs

`Asids` models the pool of address-space tags of arm64, the part of `mmu.rs` that
uses it, and what each CPU's TLB holds. `spaces`, `active`, `used` and `next` are
the pool's fields. A space's generation is only compared with the pool's, so
`spaces` maps a root to its tag in this generation, `Untagged` or `Unregistered`.
`saved` and `ttbr0` are `SAVED_TTBR0` and the register; `tlb` is a set of (tag,
root) pairs per CPU; `frames` are the roots that are allocated.

`switch_address_space` is three actions in one critical section of `ASIDS`:
activate (four cases: kernel regime, tag of this generation, fresh tag, rollover),
`flush_all` if it rolled over, and the write of TTBR0. `Fill` is the hardware: at
any moment a CPU may cache a translation of what it has loaded. With software PAN
(`SoftwarePan`) TTBR0 is empty in the kernel and loaded from `saved` for a copy or
a return to user mode. `free_address_space` is invalidate, `release`, and, outside
the lock, `FreeFrames`; that no CPU runs in the space is `InUseNotFreed` of
`Scheduler`.

| Run | Instance | Shows |
|---|---|---|
| `asids` | 2 CPUs, 4 roots, 3 usable tags, room for 3 spaces, software PAN | a CPU's TLB has nothing of another space under the tag it has loaded (`OwnTranslations`), frames go back only when no TLB translates through them (`FreedNotCached`), a loaded tag is not reassigned (`LoadedTagKept`), a rollover leaves a tag (`NeverExhausted`) |

Three usable tags for four spaces make a fresh tag, a rollover with one and with
two preserved tags, and the reuse of a tag and of a root all happen. Software PAN is
the harder case, as a saved TTBR0 can be reloaded later; the theorems hold for both.

`AsidProofs` proves `Spec => []IInv` and from it `Isolation`, `NoStaleFrames`,
`LoadedStays`, `AlwaysATag`, for any number of CPUs, roots and tags with more
usable tags than CPUs (`AsidAssumption`; 254 tags at least, at most 64 CPUs). `IInv`
adds that tags of this generation are marked and unique (`TagsOK`), that records,
registers and saved registers agree outside a switch (`ActiveOK`, `RegistersOK`),
and that cached translations are of registered spaces, under their present tag
unless a flush is due, and never under a tag some CPU may reload (`TlbOK`). The
last part is stated over `saved` because a CPU may open user memory while another
has rolled over and not flushed yet.

## Kernel stacks and TLB shootdown

`StackMappings` models `allocate_sized` and `release_sized`. A stack is a slot of
the stack region, used once (`NEXT`), with one frame (`leaf`) and a page table that
the slots of a region share (`table`); the code's eight pages and two table levels
behave alike, since they are changed and given back together. `tlb` and `walk` are
the leaf and table entries each CPU caches; `Fill` may add to them at any moment.
`pages` are the frames between the tables and the allocator.

`with_mappings` takes `MAPPINGS` and masks interrupts; a contender whose `try_lock`
fails keeps interrupts on (`Interruptible`). A release is `Unmap` (with
`detach_empty`), `invalidate`, and `FreeFrames`; on amd64 (`Ipi`) the invalidation
is a flush here, one `SendIpi` per other CPU, and `AllAcked`, and the other CPUs
answer in `tlb_handler` (flush) and `TlbAck` (the store to `ACK`). Other users of
the frame allocator are `with_frame_allocator`: they spin and work with interrupts
off. `SHOOTDOWN` is taken only inside `MAPPINGS` and left out. So is the scheduler's
lock, which `boot_cpu_targets` takes and gives back before the first interrupt is sent,
and whose holders wait for none of the others. The set of CPUs is
fixed: stacks are released by the reaper, after bring-up. Running out of slots or
frames is a panic in the code and excluded by the bounds; so is the assertion after
a second without an answer, since `ReleaseEnds` has no clock.

| Run | Instance | Shows |
|---|---|---|
| `stacks` | 2 CPUs, 3 frames, 2 slots, interrupts | no frame is free while a CPU's caches lead to it (`FreedUnreachable`), a region's table is replaced only when no CPU caches the old one (`BreakBeforeMake`), stacks in use stay mapped (`StacksMapped`), a release ends (`ReleaseEnds`), no deadlock |

Two slots make two releases follow one another, so that a flag or an interrupt of the
first could be mistaken for one of the second. `ReleaseEnds` assumes that a CPU goes on
with its straight-line code, that a spinning CPU gets a lock that is free again and
again, and that a pending interrupt is taken when interrupts are on again and again:
strong fairness, as both locks are unfair spinlocks. Invalidation by broadcast (arm64)
and more CPUs are covered by the theorems.

`StackProofs` proves `Spec => []IInv` for any CPUs, frames, slots and table size and
either kind of invalidation, and from it `ReclaimSafe`, `BreakBeforeMakeHolds` and
`LiveStacksMapped`. `IInv` adds: whoever is past `with_mappings` holds the lock
(`LockOK`); a frame has one role (`FramesOK`); slots are used once and have a table
when mapped (`SlotsOK`); a stack has one owner (`StacksOK`); a pending or running
interrupt belongs to the present shootdown and its flag is down (`InterruptsOK`:
this is why one flag per CPU is enough); what a CPU caches is in the tables, or will
be flushed before its frame is given back (`CachesOK`).

## Virtqueues and drivers

`Virtqueue` is the driver's half of a split virtqueue as operators on a record: the
free list and its length, which descriptor heads a chain that is out (`reserve`,
`complete`, `poison` of `ownership.rs`), the available and used rings with indices
modulo `IdxMod` (2^16 in the code), `submit`, `pop_used`. `VirtioBlk` and `VirtioNet`
put their drivers around it, one action per stretch of code between two looks at
memory the device writes. The device is external: it takes chains, executes them
late and in any order, and may fail them.

`VirtioBlk` keeps, for each request, what the device did with the buffers it was
given; a timeout poisons the queue and the device may still write afterwards.
`VirtioNet` tags frames so that a received frame can be compared with the one that
arrived. `DeviceFault` posts ids that head no chain that is out, or lets the used
index jump; it does not complete a chain twice, which the driver cannot tell from a
completion of the next request that reuses the descriptors.

| Property of run `platform` | Shows |
|---|---|
| `SuccessIsReal` | success is reported only for a request the device executed |
| `BuffersNotReused` | the shared buffers are rewritten only when the device owns no chain; it is this that keeps a late completion from being taken for a later request's |
| `DescriptorsPartitioned` | descriptors are never owned twice and all come back |
| `FramesDelivered` | frames are received as completed and sent as given, once and in order |
| `BuffersStayPosted` | receive buffers stay posted |

The instance: 4 descriptors, 10 block requests, 3 receive buffers, 5 frames.
`IdxMod` is 8 with a queue of 4, so every index wraps within a run. `QueueAssumption`
has the size divide `IdxMod`, as powers of two do. Deadlock is not
checked: a driver whose queue is poisoned stops for good. These modules are only
model-checked: the free list is a linked list through the descriptors, and what a
walk of it returns needs induction over its length.

## File systems

`FileStore` is what the interface in `fs/mod.rs` promises: a map from paths to files
and directories, which each call changes at one instant or not at all, with failing
disk requests and power loss included. `Fat` and `ExFat` model the two drivers as the
sequence of sector writes each call makes. Calls that change a volume do not overlap: a
FAT call holds `VOLUME` throughout, and exFAT's `write_file` and `append_file`, which
release it and take it again, are called only by the demonstration at boot and then by
the one shell task. So what interleaves with a call is the disk: any read or write may
fail, and power may go between two writes, after which the volume is mounted from what
the disk holds. `todo` is the
rest of the call under way; operators with the driver's function names compute it.

| Code | `Fat` | `ExFat` |
|---|---|---|
| state on disk | table copies, hint sectors, clusters with directory entries or data | bitmap, table, clusters |
| state in memory | `VOLUME`: cached table, hint, free count, whether the hint sectors are invalidated, whether a write failed | none: every call reads the disk |
| after a failure | a failed write ends all writing until the next mount; a failed read ends the call, which gives new clusters back | the undo list runs, itself subject to failures |

Names, dates, checksums and hashes are data; a cluster is one sector; lengths count
clusters; a FAT sector has two entries and an exFAT sector two to four, so that
directories grow and entry sets cross sectors. An exFAT bitmap has one or two sectors. An
entry of a FAT12 table may lie across two sectors (`straddle`): it is then written in two
steps, and between them it reads as any cluster, a value that is none, or the old or the
new value.

| Run | Instance | Shows |
|---|---|---|
| `files` | 6 FAT volumes (FAT32 with mirrors, hints and stale entries; FAT16; FAT12 with entries across sectors) and 5 exFAT volumes, of 2 to 4 clusters (470 731 states) | both drivers implement the file store (`ImplementsStore`), no fault makes files share clusters or entries name free ones, and without faults no cluster is lost (`SpaceSound`), the cached table and hints are those of the disk (`FatCacheCoherent`) |
| `exfat_append` | an exFAT volume, look-ups may fail | violated: `AppendKeeps` (see Findings) |
| `exfat_entry_update` | exFAT volumes with two entries per sector, or with writes that are done although they are answered with an error | violated: `FailedWriteKeeps` (see Findings) |
| `fat12_torn` | a FAT12 volume where the entry of a directory's cluster lies across two sectors | violated: `SpaceSound` (see Findings) |

The refinement maps the store's files to what a mount of the present disk would show,
so it says at every moment what a power loss would leave. Kept out of `files` is what the
code does not provide for, and the violation runs are about it: a failing look-up in
`append_file` (`LookupFails`); on volumes whose entry sets cross sectors the failure of a
single request (`transient`); a write that reached its sector although it was answered
with an error (`lands`: in `files` an errored exFAT write did not happen); and a directory
that grows from a FAT12 entry across two sectors. The FAT12 volume of `files` holds files
in its fixed root directory, whose chains are new while they are written, so a torn link
is not yet reachable from any entry. When a bitmap update fails after its first sector,
`ExFat` counts the bits set by then as lost (`leaked`), which `SpaceSound` allows; the
comment that "no bitmap bits stay set" after a failure (`fs/exfat.rs:912`) does not hold
there.
Deadlock is not checked: a driver without its disk stops.

## Memory

`Frames` is the frame allocator: placing its bitmaps at boot, the search from a hint,
contiguous runs, claims, releases and the scrub before reuse. Addresses count half
frames, so that the firmware's ranges begin and end inside frames. `Heap` has the
size-class slabs with free lists kept in the objects, the per-domain caches and the
growth of the heap, which must have all frames it needs before it starts. `Kfence` has
the sampled allocations with guard pages, in the steps between two atomic operations,
since only compare-exchanges and `COUNTERS` order its CPUs. `Elf` is validation as a
predicate on an image; `UserMemory` loads and releases programs frame by frame on
several CPUs, and copies from and to user memory. On arm64 memory may begin with frame 0,
which cannot be a root, and `new_address_space` exchanges it for another; its registry
of roots is in `Asids` and is never full here. `Heap` repeats the consistency checks
of `allocate` on every slab it passes.

| Property of run `memory` | Shows |
|---|---|
| `FramesSound` | only whole frames of usable memory outside reserved ranges are offered; bitmap, counter and zeroed marks agree |
| `HandedOutZero` | frames and heap objects are zero when handed out |
| `HeapSound` | slabs, free lists, caches and statistics account for the objects clients hold, and growth never fails half-way |
| `FenceSound` | counters, states and mappings of samples agree whenever `COUNTERS` is free; what a client may use is mapped |
| `NoFrameLost` | loads and releases that overlap or fail keep each frame free or in one use |
| `LoadedAsLinked` | an accepted program is loaded as it was linked, or fails only for lack of frames or IDs |
| `CopiesConfined` | the kernel touches user memory only where the program may, and reports success exactly then, up to the top of the address space |

The instance (324 265 states): 3 memory maps of up to 8 frames; 3 object layouts, a
heap that can grow twice and 8 frames; 3 CPUs and 3 samples; about 2000 executables
whose segments overlap, share pages or stick out of the file or the window, alone, with
too few frames, and two loads at once. Tables have two levels of two entries below the
root instead of three of 512, and relocation targets are word-aligned. Deadlock is not
checked: clients may hold all there is.

## Platform

`BringUp` starts the other CPUs through one mailbox (amd64) or one argument block
(arm64). A CPU may answer, answer after the boot CPU gave up, or never answer; it is
admitted under one lock, after its microcode is updated, until the boot CPU seals
admission and derives the policies all CPUs share. `UserPrograms` holds the programs
started at boot, both architectures, and the kernel tasks that serve and check them, as
sequences of instructions; `UserTasks` runs them: system calls with user copies that
can be preempted, faults and kills, trap entry and exit, and the registers that must
follow a task from CPU to CPU. `Console` takes bytes from UART or keyboard over the
bounded queue to the shell's line editor. `Random` seeds the pool while CPUs draw.

| Property of run `platform` | Shows |
|---|---|
| `BootOwnership` | a CPU that starts late never shares its stack or number with another and finds the trampoline mapped |
| `AdmissionSound` | the CPUs that run, and the parked ones' handlers, use only what they all have; thread isolation holds; no microcode goes back |
| `ProgramsBehave` | whatever the schedule, programs that try what they may not are killed and recorded first, all others and all checks succeed |
| `EntrySound` | user code runs with its own task's settings, kernel code with user access open in the copy routines, also after a preemption, and closed elsewhere, and with its own keys |
| `CommandsWhole` | a command that is executed is one line as it was typed, also after overruns and damaged bytes |
| `RandomFresh` | a draw is keyed with all input mixed in before it and with at least 128 healthy bits, and no two CPUs share a key |

The run has 1 532 977 states, the devices' included. The instance: 18 machines with 4 processors, 2 of them threads of one
core, for 3 CPU slots; 27 pairs or triples of programs on 2 CPUs over the backends and
modes of the store-bypass policy; a queue and a line of 2 bytes, a FIFO of 1, 5 bytes
typed; 2 mixes and 3 draws. Queue and line are full after two bytes, so overflow,
recovery and a second line fit in five.

Abstractions: any ready task may run next (round robin is in `Scheduler`), sleeps last
one tick, and the time limits of `wait_until` never expire. Entry and exit code is
atomic, as it runs with interrupts off on its own CPU; a non-maskable interrupt inside
it is not modelled. Machines not affected by store bypass are taken to have no SSBS.
The full registry of arm64 and a failing `copy_to_user` are not reached by these
programs. `KILLED_LEN` is 3 instead of 16, with fewer kills in proportion: a boot of
amd64 kills 11 programs at most. Input comes from one source at a time; a UART's
flush, the clearing of its errors and the queue's invalidation are one step, as the FIFO
cannot fill up again in between. `platform` has the 16550's interrupt on the CPU that
writes (`SMP` is `FALSE`): a status read and the store of its error bits are then not
interrupted by the handler. Of the predictor controls at entry, those of `SPEC_CTRL` are
modelled; AutoIBRS, branch-history clearing and return-stack filling keep no state of a
task. Of the virtio entropy driver only the seeding is modelled. Hashes are ideal. Deadlock is not
checked: programs end.

Run `console_smp` has the console alone, with `SMP`, and violates `CommandsWhole` (see
Findings).

## Fairness

Only `scheduler_live` and `stacks` state fairness, described in their sections. All
other properties are safety properties and hold without any.

## Proved and model-checked

| Module | Theorems, for every value of the constants | Assumptions |
|---|---|---|
| `SchedulerProofs` | `TypeCorrect`, `ExclusiveExecution`, `ExclusiveStacks`, `ReaperSafe`, `BlockedForAReason`, `NoOrphanedSender`, `ResumedWithReply`, `HonestCount` | `CpusAssumption`, `BoundsAssumption` |
| `SchedulerActionProofs` | `ExitIsFinal`, `ReplyNotOverwritten` | `CpusAssumption`, `BoundsAssumption` |
| `AsidProofs` | `Isolation`, `NoStaleFrames`, `LoadedStays`, `AlwaysATag` | `AsidAssumption` |
| `StackProofs` | `ReclaimSafe`, `BreakBeforeMakeHolds`, `LiveStacksMapped` | `StackAssumption` |

Only model-checked are: liveness, as TLAPS has neither fairness nor `ENABLED`; and
everything in `Devices`,
`FileSystems`, `Memory` and `Platform`. Many of the last rest on walks of linked lists,
cluster chains and tables, whose results need induction over data, which is out of the
prover's reach.

## Findings

* `append_file` of exFAT documents that a file which cannot be read is not taken for an
  absent one, but a look-up that fails to read the directory is: the file is then
  replaced by the appended bytes (`exfat_append`, `fs/exfat.rs:1018`).
* A failed entry update is documented to leave the old file. But when the entry set
  crosses a sector and only its second write fails, or when a write reported as failed
  reached the disk, the entry names clusters that are then freed (`exfat_entry_update`,
  `fs/exfat.rs:897`).
* An interrupted write is documented to leave lost clusters at worst (`fs/fat.rs:6`). An
  interrupted update of a FAT12 entry across two sectors leaves a mixture of the old and
  the new value; when a directory was growing, its chain is then broken or leads to
  another's cluster (`fat12_torn`, `fs/fat.rs:195`).
* Error bits of the 16550 are documented to be kept until the receive path has flushed
  the damaged input (`arch/amd64/serial.rs:14`). A writer's read of LSR clears them and
  its store of `RX_ERROR` comes later; the handler on another CPU can look in between
  and accept damaged input (`console_smp`, `arch/amd64/serial.rs:17`).
* Without a run: `MAX_TASKS` is documented as the maximum number of tasks
  (`scheduler/mod.rs:37`), but `add_task` never compares the table with it.
* Without a run: `sleep_ms` is documented to sleep "at least `ms` milliseconds"
  (`scheduler/mod.rs:821`); it counts whole ticks from the middle of one, so it can be
  up to a tick short. `Scheduler` counts in ticks and does not have the milliseconds.

## Not modelled

* Boot, firmware tables, PCI and device discovery: sequential, run once, over tables
  the firmware supplies. So are mounting a volume and scanning partitions, which only
  read.
* Interrupt controllers, timers, virtio transports, serial output: register accesses
  without state that the kernel relies on afterwards. The virtio entropy driver makes
  one request at boot; what it delivers is an input of `Random`.
* USB: the xHCI driver stops after the controller's start, and `send_command`, the only
  operation on a ring, has no caller.
* Mitigations fixed at build or boot time (control-flow integrity, return thunks,
  KASLR, feature decoding), and the parsing of microcode containers.
* Shell commands and their parser: calls into the file systems, printing, and pure
  functions over text.
* Boot-time self tests, the handlers that only report and panic, and the erasure and
  offsets of kernel stacks.
