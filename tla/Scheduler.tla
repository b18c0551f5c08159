------------------------------ MODULE Scheduler ------------------------------
(***************************************************************************)
(* The kernel core of MMURTL/RS: the SMP round-robin scheduler with its    *)
(* lock-across-the-stack-switch protocol, the blocking Request/Respond IPC *)
(* built on task states, sleeping, task exit and the reaper                *)
(* (src/scheduler/mod.rs, task.rs, rqb.rs).                                *)
(*                                                                         *)
(* A `with_scheduler` closure runs with interrupts masked and SCHEDULER    *)
(* held, so each closure is one step, enabled while no CPU is inside a     *)
(* context switch.  A context switch is three steps: on_tick under the     *)
(* lock, the move to the new stack, scheduler_unlock.  What a task does    *)
(* between two closures is its program counter `pc`.                       *)
(*                                                                         *)
(* Abstractions.  A request is its sender's id; a reply is who answered    *)
(* and whether it is an answer or the kernel's Aborted.  Task ids name the *)
(* resources (kernel stack, address space) of a task.  Time is relative:   *)
(* wake_tick is the number of JIFFIES still to pass, and stands both for   *)
(* the TCB field and for the local `until` of sleep_ms that it is a copy   *)
(* of.  A reschedule IPI changes no kernel state, so sending one is left   *)
(* out and Interrupt(c, FALSE) may happen at any time.  All callers of     *)
(* create_task pass PRIORITY_DEFAULT, so PRIORITY_IDLE is the same as      *)
(* pinned.  create_task takes its id a little before it takes the lock; no *)
(* code compares ids by age, so the two are one step.                      *)
(***************************************************************************)
EXTENDS Naturals, Sequences, FiniteSets

CONSTANTS
    Cpus,           \* CPU indexes
    BootCpu,        \* CPU 0, whose timer advances JIFFIES
    NoCpu,          \* None, for on_cpu, pinned_cpu and the lock
    INBOX_CAPACITY, \* queued requests per task
    BatchSize,      \* capacity of the reaper's batch (16 in the code)
    MaxSleep,       \* bound: longest sleep, in ticks
    MaxId,          \* bound: last task id handed out
    Entries,        \* the kinds of task that are created
    Calls           \* the kernel entry points that tasks use

ASSUME CpusAssumption == BootCpu \in Cpus /\ NoCpu \notin Cpus

ASSUME BoundsAssumption ==
    /\ INBOX_CAPACITY \in Nat \ {0}
    /\ BatchSize \in Nat \ {0}
    /\ MaxSleep \in Nat
    /\ MaxId \in Nat
    /\ Entries \subseteq {"reaper", "kernel", "user"}
    /\ Calls \subseteq {"send", "receive", "try_receive", "reply", "sleep",
                        "yield", "create", "exit"}

VARIABLES
    tasks,      \* Scheduler::tasks, a vector of task control blocks
    cpus,       \* Scheduler::cpus
    rr_cursor,  \* Scheduler::rr_cursor
    lock,       \* the CPU that holds SCHEDULER across its stack switch
    stack,      \* per CPU, the task whose kernel stack it executes on
    space,      \* per CPU, the task whose address space is loaded (0: kernel)
    next_id,    \* NEXT_TASK_ID
    STARTED,
    batch,      \* the reaper's local batch: ids collected, not yet accounted
    REAPING,
    freed       \* ids whose stack and address space went back to the pools

vars == <<tasks, cpus, rr_cursor, lock, stack, space, next_id, STARTED,
          batch, REAPING, freed>>

-----------------------------------------------------------------------------
(* State *)

TaskState == {"Ready", "Running", "WaitingRqb", "Sleeping", "Exited",
              "WaitingReply"}

Entry == {"idle", "reaper", "kernel", "user"}

(* Where a task is between two kernel steps: `boot` and `idle` are an      *)
(* adopted context before and after scheduler::start; `run` is code that   *)
(* makes no scheduler call; the others are places inside send_rqb,         *)
(* receive_rqb, sleep_ms, exit_current and reaper_task.                    *)
Pc == {"boot", "idle", "run", "send_yield", "send_check", "receive",
       "receive_yield", "sleep_test", "sleep", "sleep_yield", "exit_yield",
       "collect", "release"}

NoReply == [from |-> 0, status |-> "None"]

Reply == [from : Nat, status : {"None", "Answer", "Aborted"}]

OptCpu == Cpus \cup {NoCpu}

TaskControlBlock ==
    [id : Nat \ {0}, state : TaskState, entry : Entry, pinned_cpu : OptCpu,
     on_cpu : OptCpu, inbox : Seq(Nat), reply : Reply, wait_for : Nat,
     wake_tick : Nat, reaped : BOOLEAN, pc : Pc]

PerCpu == [registered : BOOLEAN, current : Nat, idle_idx : Nat]

new(id, entry) ==
    [id |-> id, state |-> "Ready", entry |-> entry, pinned_cpu |-> NoCpu,
     on_cpu |-> NoCpu, inbox |-> <<>>, reply |-> NoReply, wait_for |-> 0,
     wake_tick |-> 0, reaped |-> FALSE, pc |-> "run"]

adopt_current(id, c, pc) ==
    [id |-> id, state |-> "Running", entry |-> "idle", pinned_cpu |-> c,
     on_cpu |-> c, inbox |-> <<>>, reply |-> NoReply, wait_for |-> 0,
     wake_tick |-> 0, reaped |-> FALSE, pc |-> pc]

Slots == DOMAIN tasks

Registered == {c \in Cpus : cpus[c].registered}

(* Scheduler::current_idx and the task it names. *)
current_idx(c) == cpus[c].current

Me(c) == tasks[current_idx(c)]

(* The CPU executes its current task, rather than the tail of a switch. *)
Executing(c) == c \in Registered /\ lock # c /\ stack[c] = Me(c).id

(* with_scheduler on CPU c can take SCHEDULER. *)
Locked(c) == Executing(c) /\ lock = NoCpu

At(c, pc) == Me(c).pc = pc

(* The current task of c is a worker or a user program about to call f. *)
CallsKernel(c, f) ==
    f \in Calls /\ At(c, "run") /\ Me(c).entry \in {"kernel", "user"}

-----------------------------------------------------------------------------
(* Boot: CPU registration and scheduler::start *)

register_cpu(c, pc) ==
    /\ tasks' = Append(tasks, adopt_current(next_id, c, pc))
    /\ cpus' = [cpus EXCEPT ![c] = [registered |-> TRUE,
                                    current |-> Len(tasks) + 1,
                                    idle_idx |-> Len(tasks) + 1]]
    /\ stack' = [stack EXCEPT ![c] = next_id]
    /\ next_id' = next_id + 1

Init ==
    /\ tasks = <<adopt_current(1, BootCpu, "boot")>>
    /\ cpus = [c \in Cpus |-> IF c = BootCpu
                 THEN [registered |-> TRUE, current |-> 1, idle_idx |-> 1]
                 ELSE [registered |-> FALSE, current |-> 0, idle_idx |-> 0]]
    /\ rr_cursor = 1
    /\ lock = NoCpu
    /\ stack = [c \in Cpus |-> IF c = BootCpu THEN 1 ELSE 0]
    /\ space = [c \in Cpus |-> 0]
    /\ next_id = 2
    /\ STARTED = FALSE
    /\ batch = {}
    /\ REAPING = 0
    /\ freed = {}

(* Secondary CPUs register before kernel_run creates the first task. *)
register_ap(c) ==
    /\ c \notin Registered
    /\ lock = NoCpu
    /\ \A i \in Slots : tasks[i].entry = "idle"
    /\ register_cpu(c, "idle")
    /\ UNCHANGED <<rr_cursor, lock, space, STARTED, batch, REAPING, freed>>

(* The boot context starts the scheduler and becomes CPU 0's idle loop. *)
start(c) ==
    /\ Executing(c)
    /\ At(c, "boot")
    /\ STARTED' = TRUE
    /\ tasks' = [tasks EXCEPT ![current_idx(c)].pc = "idle"]
    /\ UNCHANGED <<cpus, rr_cursor, lock, stack, space, next_id, batch,
                   REAPING, freed>>

-----------------------------------------------------------------------------
(* Task creation *)

(* Mutant: a slot is reused as soon as its task has exited. *)
ReusableUnreaped == {i \in Slots : tasks[i].state = "Exited"}

(* add_task: the first slot the reaper has released, else a new one. *)
Reusable == {i \in Slots : tasks[i].state = "Exited" /\ tasks[i].reaped}

add_task(t) ==
    IF Reusable = {}
    THEN tasks' = Append(tasks, t)
    ELSE \E i \in Reusable :
            /\ \A j \in Reusable : i <= j
            /\ tasks' = [tasks EXCEPT ![i] = t]

create_task(c, entry) ==
    /\ Locked(c)
    /\ \/ At(c, "boot")
       \/ CallsKernel(c, "create") /\ entry # "reaper"
    /\ entry = "reaper" => \A i \in Slots : tasks[i].entry # "reaper"
    /\ next_id <= MaxId
    /\ add_task(new(next_id, entry))
    /\ next_id' = next_id + 1
    /\ UNCHANGED <<cpus, rr_cursor, lock, stack, space, STARTED, batch,
                   REAPING, freed>>

-----------------------------------------------------------------------------
(* Context switch *)

(* One more jiffy: a deadline is one tick nearer. *)
Aged(t) ==
    [t EXCEPT !.wake_tick = IF t.wake_tick = 0 THEN 0 ELSE t.wake_tick - 1]

Woken(t) ==
    IF t.state = "Sleeping" /\ t.wake_tick = 0
    THEN [t EXCEPT !.state = "Ready"]
    ELSE t

(* Mutant: on_cpu is cleared for a runnable task only. *)
SwitchedOutRunnable(t, pc) ==
    [t EXCEPT !.on_cpu = IF t.state = "Running" THEN NoCpu ELSE t.on_cpu,
              !.pc = pc,
              !.state = IF t.state = "Running" THEN "Ready" ELSE t.state]

(* The current task is saved; its code goes on at pc when it is next       *)
(* picked.                                                                 *)
SwitchedOut(t, pc) ==
    [t EXCEPT !.on_cpu = NoCpu, !.pc = pc,
              !.state = IF t.state = "Running" THEN "Ready" ELSE t.state]

SwitchedIn(t, c) == [t EXCEPT !.state = "Running", !.on_cpu = c]

(* Mutant: a sleeper is woken only by the very tick that reaches its       *)
(* deadline, not by one that comes later.                                  *)
SavedExact(c, timer, pc) ==
    [i \in Slots |->
        LET aged == IF timer /\ c = BootCpu THEN Aged(tasks[i]) ELSE tasks[i]
            t == IF aged.wake_tick # tasks[i].wake_tick THEN Woken(aged) ELSE aged
        IN  IF i = current_idx(c) THEN SwitchedOut(t, pc) ELSE t]

(* The table when pick_next looks at it. *)
Saved(c, timer, pc) ==
    [i \in Slots |->
        LET t == Woken(IF timer /\ c = BootCpu THEN Aged(tasks[i]) ELSE tasks[i])
        IN  IF i = current_idx(c) THEN SwitchedOut(t, pc) ELSE t]

(* Mutant: a task that was woken on its way into a yield may be picked     *)
(* while it still executes.                                                *)
EligibleExecuting(t) == t.state = "Ready" /\ t.pinned_cpu = NoCpu

Eligible(t) ==
    t.state = "Ready" /\ t.on_cpu = NoCpu /\ t.pinned_cpu = NoCpu

(* Mutant: the search always starts at the first slot. *)
DistanceFromFirst(i, n) == i

(* Slots from the one after rr_cursor round to rr_cursor itself. *)
Distance(i, n) == IF i > rr_cursor THEN i - rr_cursor ELSE i + n - rr_cursor

(* The one slot pick_next returns: the first eligible one after the        *)
(* cursor, or the CPU's idle task.                                         *)
pick_next(ts, c) ==
    LET ready == {i \in DOMAIN ts : Eligible(ts[i])}
    IN  IF ready = {}
        THEN {cpus[c].idle_idx}
        ELSE {i \in ready : \A j \in ready :
                 Distance(i, Len(ts)) <= Distance(j, Len(ts))}

(* on_tick: wakes sleepers, saves the current task and makes the picked    *)
(* one current.  The lock stays with the CPU, which is still on the        *)
(* outgoing task's stack.                                                  *)
on_tick(c, timer, pc) ==
    LET saved == Saved(c, timer, pc)
    IN  \E next \in pick_next(saved, c) :
          /\ tasks' = [saved EXCEPT ![next] = SwitchedIn(@, c)]
          /\ cpus' = [cpus EXCEPT ![c].current = next]
          /\ space' = [space EXCEPT ![c] =
                         IF saved[next].entry = "user" THEN saved[next].id ELSE 0]
          /\ rr_cursor' = IF next = cpus[c].idle_idx THEN rr_cursor ELSE next
          /\ lock' = c
          /\ UNCHANGED <<stack, next_id, STARTED, batch, REAPING, freed>>

(* A timer tick or a reschedule IPI (switch_from_interrupt). *)
Interrupt(c, timer) ==
    /\ STARTED
    /\ Locked(c)
    /\ on_tick(c, timer, Me(c).pc)

(* yield_now from code that goes on at pc. *)
Yield(c, pc) ==
    /\ STARTED
    /\ Locked(c)
    /\ on_tick(c, FALSE, pc)

(* The assembly tail: onto the new task's stack, then scheduler_unlock. *)
SwitchStack(c) ==
    /\ c \in Registered
    /\ stack[c] # Me(c).id
    /\ stack' = [stack EXCEPT ![c] = Me(c).id]
    /\ UNCHANGED <<tasks, cpus, rr_cursor, lock, space, next_id, STARTED,
                   batch, REAPING, freed>>

scheduler_unlock(c) ==
    /\ lock = c
    /\ stack[c] = Me(c).id
    /\ lock' = NoCpu
    /\ UNCHANGED <<tasks, cpus, rr_cursor, stack, space, next_id, STARTED,
                   batch, REAPING, freed>>

-----------------------------------------------------------------------------
(* Request/Respond IPC *)

(* A step of CPU c's current task that changes only the task table. *)
OnlyTasks == UNCHANGED <<cpus, rr_cursor, lock, stack, space, next_id,
                         STARTED, batch, REAPING, freed>>

find_live(tid) == {i \in Slots : tasks[i].id = tid /\ tasks[i].state # "Exited"}

Queued(t, sender) == [t EXCEPT !.inbox = Append(t.inbox, sender)]

(* Mutant: only a task that has been switched out is woken. *)
make_ready_saved(t, from) ==
    IF t.state = from /\ t.on_cpu = NoCpu THEN [t EXCEPT !.state = "Ready"] ELSE t

make_ready(t, from) == IF t.state = from THEN [t EXCEPT !.state = "Ready"] ELSE t

(* post_request: refused for oneself (InvalidParam), an unknown or exited  *)
(* receiver (NotFound) or a full inbox (Busy); otherwise queued, and the   *)
(* sender is blocked before it yields.                                     *)
post_request(c, receiver) ==
    LET me == current_idx(c)
    IN  \E ri \in find_live(receiver) :
          /\ receiver # Me(c).id
          /\ Len(tasks[ri].inbox) < INBOX_CAPACITY
          /\ tasks' =
               [tasks EXCEPT
                  ![ri] = make_ready(Queued(@, Me(c).id), "WaitingRqb"),
                  ![me] = [@ EXCEPT !.state = "WaitingReply",
                                    !.wait_for = receiver,
                                    !.reply = NoReply,
                                    !.pc = "send_yield"]]

PostRefused(c, receiver) ==
    \/ receiver = Me(c).id
    \/ \A ri \in find_live(receiver) : Len(tasks[ri].inbox) >= INBOX_CAPACITY

send_rqb(c, receiver) ==
    /\ Locked(c)
    /\ CallsKernel(c, "send")
    /\ post_request(c, receiver)
    /\ OnlyTasks

send_rqb_refused(c, receiver) ==
    /\ Locked(c)
    /\ CallsKernel(c, "send")
    /\ PostRefused(c, receiver)
    /\ UNCHANGED vars

(* send_rqb after its yield: take the reply, or block again without one. *)
send_rqb_resume(c) ==
    /\ Locked(c)
    /\ At(c, "send_check")
    /\ tasks' = [tasks EXCEPT ![current_idx(c)] =
                   IF @.reply = NoReply
                   THEN [@ EXCEPT !.state = "WaitingReply", !.pc = "send_yield"]
                   ELSE [@ EXCEPT !.reply = NoReply, !.pc = "run"]]
    /\ OnlyTasks

(* take_request: the oldest request, or `block` in WaitingRqb. *)
take_request(c, block) ==
    tasks' = [tasks EXCEPT ![current_idx(c)] =
                IF @.inbox # <<>>
                THEN [@ EXCEPT !.inbox = Tail(Me(c).inbox), !.pc = "run"]
                ELSE IF block
                THEN [@ EXCEPT !.state = "WaitingRqb", !.pc = "receive_yield"]
                ELSE @]

receive_rqb(c) ==
    /\ Locked(c)
    /\ CallsKernel(c, "receive") \/ At(c, "receive")
    /\ take_request(c, TRUE)
    /\ OnlyTasks

try_receive_rqb(c) ==
    /\ Locked(c)
    /\ CallsKernel(c, "try_receive")
    /\ take_request(c, FALSE)
    /\ OnlyTasks

(* Mutants: a reply is accepted from anybody, or once too often. *)
AwaitsReplyFromAny(t, tid) == t.state = "WaitingReply" /\ t.reply = NoReply

AwaitsReplyAgain(t, tid) == t.wait_for = tid

(* post_reply: only to a live task that is blocked on the caller and has   *)
(* no reply yet.                                                           *)
AwaitsReplyFrom(t, tid) ==
    t.state = "WaitingReply" /\ t.wait_for = tid /\ t.reply = NoReply

Replied(t, from, status) == [t EXCEPT !.reply = [from |-> from, status |-> status]]

post_reply(c, sender) ==
    \E si \in find_live(sender) :
        /\ AwaitsReplyFrom(tasks[si], Me(c).id)
        /\ tasks' =
             [tasks EXCEPT ![si] =
                make_ready(Replied(@, Me(c).id, "Answer"), "WaitingReply")]

reply_rqb(c, sender) ==
    /\ Locked(c)
    /\ CallsKernel(c, "reply")
    /\ post_reply(c, sender)
    /\ OnlyTasks

reply_rqb_refused(c, sender) ==
    /\ Locked(c)
    /\ CallsKernel(c, "reply")
    /\ \A si \in find_live(sender) : ~AwaitsReplyFrom(tasks[si], Me(c).id)
    /\ UNCHANGED vars

-----------------------------------------------------------------------------
(* Sleeping *)

(* sleep_ms computes its deadline from an unlocked read of JIFFIES. *)
sleep_ms(c, ticks) ==
    /\ Executing(c)
    /\ \/ CallsKernel(c, "sleep")
       \/ At(c, "run") /\ Me(c).entry = "reaper"
    /\ tasks' = [tasks EXCEPT ![current_idx(c)] =
                   [@ EXCEPT !.wake_tick = ticks, !.pc = "sleep_test"]]
    /\ OnlyTasks

(* The loop condition, also an unlocked read: the deadline may pass before *)
(* the task reaches sleep_until.                                           *)
SleepTest(c) ==
    /\ Executing(c)
    /\ At(c, "sleep_test")
    /\ tasks' = [tasks EXCEPT ![current_idx(c)].pc =
                   IF Me(c).wake_tick > 0 THEN "sleep"
                   ELSE IF Me(c).entry = "reaper" THEN "collect"
                   ELSE "run"]
    /\ OnlyTasks

sleep_until(c) ==
    /\ Locked(c)
    /\ At(c, "sleep")
    /\ tasks' = [tasks EXCEPT ![current_idx(c)] =
                   [@ EXCEPT !.state = "Sleeping", !.pc = "sleep_yield"]]
    /\ OnlyTasks

-----------------------------------------------------------------------------
(* Exit and the reaper *)

(* Mutant: the exiting task forgets who waits on it. *)
mark_exited_silent(c) ==
    tasks' = [tasks EXCEPT ![current_idx(c)] =
                [@ EXCEPT !.state = "Exited", !.inbox = <<>>, !.pc = "exit_yield"]]

(* mark_exited: every task blocked on the caller gets an Aborted reply. *)
mark_exited(c) ==
    LET me == current_idx(c)
    IN  tasks' = [i \in Slots |->
            IF i = me
            THEN [tasks[i] EXCEPT !.state = "Exited", !.inbox = <<>>,
                                  !.pc = "exit_yield"]
            ELSE IF AwaitsReplyFrom(tasks[i], Me(c).id)
            THEN make_ready(Replied(tasks[i], Me(c).id, "Aborted"), "WaitingReply")
            ELSE tasks[i]]

exit_current(c) ==
    /\ Locked(c)
    /\ CallsKernel(c, "exit")
    /\ mark_exited(c)
    /\ OnlyTasks

(* Mutant: the reaper does not wait for the task to leave its CPU. *)
CollectableOnCpu ==
    {i \in Slots : tasks[i].state = "Exited" /\ ~tasks[i].reaped}

(* The tasks one collect_exited takes: exited ones that no CPU is still    *)
(* running, in table order, until the batch is full.                       *)
Collectable ==
    {i \in Slots : tasks[i].state = "Exited" /\ ~tasks[i].reaped
                   /\ tasks[i].on_cpu = NoCpu}

Collected ==
    {i \in Collectable :
        Cardinality({j \in Collectable : j < i}) < BatchSize}

collect_exited(c) ==
    /\ Locked(c)
    /\ At(c, "collect")
    /\ tasks' = [i \in Slots |->
                   IF i \in Collected THEN [tasks[i] EXCEPT !.reaped = TRUE]
                   ELSE IF i = current_idx(c)
                   THEN [tasks[i] EXCEPT !.pc = "release"]
                   ELSE tasks[i]]
    /\ REAPING' = REAPING + Cardinality(Collected)
    /\ batch' = {tasks[i].id : i \in Collected}
    /\ UNCHANGED <<cpus, rr_cursor, lock, stack, space, next_id, STARTED, freed>>

(* The reaper returns one task's stack and address space, outside the      *)
(* scheduler lock.                                                         *)
release(c, id) ==
    /\ Executing(c)
    /\ At(c, "release")
    /\ id \in batch \ freed
    /\ freed' = freed \cup {id}
    /\ UNCHANGED <<tasks, cpus, rr_cursor, lock, stack, space, next_id,
                   STARTED, batch, REAPING>>

release_done(c) ==
    /\ Executing(c)
    /\ At(c, "release")
    /\ batch \subseteq freed
    /\ REAPING' = REAPING - Cardinality(batch)
    /\ batch' = {}
    /\ tasks' = [tasks EXCEPT ![current_idx(c)].pc = "run"]
    /\ UNCHANGED <<cpus, rr_cursor, lock, stack, space, next_id, STARTED, freed>>

(* Mutant: tasks in the reaper's batch are not counted. *)
unreaped_uncollected ==
    Cardinality({i \in Slots : tasks[i].state = "Exited" /\ ~tasks[i].reaped})

(* Exited tasks the reaper has not finished releasing. *)
unreaped_tasks ==
    Cardinality({i \in Slots : tasks[i].state = "Exited" /\ ~tasks[i].reaped})
    + REAPING

-----------------------------------------------------------------------------
(* Specification *)

(* A task gives up its CPU of its own accord. *)
yield_now(c) == CallsKernel(c, "yield") /\ Yield(c, "run")

(* Where each blocking call goes on after its yield. *)
YieldNow(c) ==
    \/ At(c, "send_yield")         /\ Yield(c, "send_check")
    \/ At(c, "receive_yield")      /\ Yield(c, "receive")
    \/ At(c, "sleep_yield")        /\ Yield(c, "sleep_test")
    \/ At(c, "exit_yield")         /\ Yield(c, "exit_yield")

(* A step of kernel code that its task is committed to. *)
KernelStep(c) ==
    \/ YieldNow(c)
    \/ send_rqb_resume(c)
    \/ At(c, "receive") /\ receive_rqb(c)
    \/ Me(c).entry = "reaper" /\ \E ticks \in 1..MaxSleep : sleep_ms(c, ticks)
    \/ SleepTest(c)
    \/ sleep_until(c)
    \/ collect_exited(c)
    \/ \E id \in batch : release(c, id)
    \/ release_done(c)

(* A call a task chooses to make; ids nobody has are tried as well. *)
TaskCall(c) ==
    \/ yield_now(c)
    \/ \E entry \in Entries : create_task(c, entry)
    \/ \E tid \in 0..next_id : \/ send_rqb(c, tid)
                               \/ send_rqb_refused(c, tid)
                               \/ reply_rqb(c, tid)
                               \/ reply_rqb_refused(c, tid)
    \/ receive_rqb(c)
    \/ try_receive_rqb(c)
    \/ \E ticks \in 1..MaxSleep : sleep_ms(c, ticks)
    \/ exit_current(c)

CpuStep(c) ==
    \/ start(c)
    \/ \E timer \in BOOLEAN : Interrupt(c, timer)
    \/ SwitchStack(c)
    \/ scheduler_unlock(c)
    \/ KernelStep(c)
    \/ TaskCall(c)

Next ==
    \/ \E c \in Cpus : register_ap(c)
    \/ \E c \in Registered : CpuStep(c)

Spec == Init /\ [][Next]_vars

(* The timer keeps ticking, a switch in progress finishes, and a task that *)
(* is given a CPU again and again gets through the kernel code it is in.   *)
(* Nothing makes a task call the kernel or yield: it may keep its CPU      *)
(* until the timer takes it away.  Strong fairness: another CPU's switch   *)
(* makes SCHEDULER unavailable for a while, and a spinning CPU is assumed  *)
(* to get it eventually.                                                   *)
Fairness ==
    /\ \A c \in Cpus :
         /\ WF_vars(c \in Registered /\ (SwitchStack(c) \/ scheduler_unlock(c)))
         /\ WF_vars(c \in Registered /\ start(c))
         /\ SF_vars(c \in Registered /\ Interrupt(c, TRUE))
    /\ \A tid \in 1..MaxId :
         SF_vars(\E c \in Registered : Me(c).id = tid /\ KernelStep(c))

FairSpec == Spec /\ Fairness

-----------------------------------------------------------------------------
(* Properties *)

TypeOK ==
    /\ tasks \in Seq(TaskControlBlock)
    /\ cpus \in [Cpus -> PerCpu]
    /\ \A c \in Registered : current_idx(c) \in Slots /\ cpus[c].idle_idx \in Slots
    /\ rr_cursor \in Slots
    /\ lock \in OptCpu
    /\ stack \in [Cpus -> Nat]
    /\ space \in [Cpus -> Nat]
    /\ next_id \in Nat \ {0}
    /\ STARTED \in BOOLEAN
    /\ batch \in SUBSET Nat
    /\ REAPING \in Nat
    /\ freed \in SUBSET Nat

(* on_cpu and cpus[].current agree: a task runs on one CPU at most, also   *)
(* when a wakeup made it Ready while it was on its way into a yield (the   *)
(* doc of TaskControlBlock::on_cpu).                                       *)
OneCpuPerTask ==
    /\ \A c \in Registered : Me(c).on_cpu = c
    /\ \A i \in Slots : tasks[i].on_cpu # NoCpu =>
          /\ tasks[i].on_cpu \in Registered
          /\ current_idx(tasks[i].on_cpu) = i

(* No two CPUs ever execute on the same kernel stack, although on_tick     *)
(* makes the outgoing task available before its CPU has left its stack     *)
(* (switch_from_interrupt keeps the lock until scheduler_unlock).          *)
NoSharedStack ==
    \A c, d \in Registered : c # d => stack[c] # stack[d]

(* What the reaper releases is in use nowhere: not the stack a CPU is on,  *)
(* not the one it is about to move to, not the address space it has        *)
(* loaded (the comments of collect_exited and on_tick).                    *)
InUseNotFreed ==
    \A c \in Registered : {stack[c], Me(c).id, space[c]} \cap freed = {}

(* No wakeup is lost between a task's decision to block and its yield: a   *)
(* task blocked in receive has nothing to receive, and one blocked in send *)
(* has no reply.                                                           *)
NoLostWakeup ==
    \A i \in Slots :
        /\ tasks[i].state = "WaitingRqb" => tasks[i].inbox = <<>>
        /\ tasks[i].state = "WaitingReply" => tasks[i].reply = NoReply

(* A task blocked in send waits on a task that has not exited, so somebody *)
(* can still answer it (mark_exited fails every request it owes).          *)
ReceiverAlive ==
    \A i \in Slots :
        tasks[i].state = "WaitingReply" => find_live(tasks[i].wait_for) # {}

(* send_rqb runs again only once a reply is in its slot (the comment in    *)
(* its loop), and the reply is from the task the request was sent to.      *)
ReplyWhenResumed ==
    \A i \in Slots :
        /\ /\ tasks[i].pc = "send_check"
           /\ tasks[i].state \in {"Ready", "Running"}
           => tasks[i].reply # NoReply
        /\ tasks[i].reply # NoReply => tasks[i].reply.from = tasks[i].wait_for

(* Ids handed out to tasks that are gone or exited. *)
DeadIds == {id \in 1..(next_id - 1) : find_live(id) = {}}

(* unreaped_tasks counts at least the dead tasks whose resources are not   *)
(* back yet, whatever the reaper is in the middle of: a caller that sees 0 *)
(* may compare frame counts.                                               *)
NeverUnderReports == unreaped_tasks >= Cardinality(DeadIds \ freed)

(* A task that has exited and left its CPU is never picked again, and its  *)
(* slot is reused only after the reaper has taken its resources out of it  *)
(* (collect_exited sets `reaped` then, before it releases them).           *)
ExitedStaysOff ==
    [][\A i \in Slots :
         tasks[i].state = "Exited" /\ tasks[i].on_cpu = NoCpu =>
           \/ /\ tasks'[i].id = tasks[i].id
              /\ tasks'[i].state = "Exited"
              /\ tasks'[i].on_cpu = NoCpu
           \/ tasks[i].reaped /\ tasks'[i].id = next_id]_vars

(* A reply stays in its slot, unchanged, until the sender takes it: no     *)
(* second reply_rqb and no exiting receiver overwrites it.                 *)
ReplyKept ==
    [][\A i \in Slots :
         tasks[i].reply # NoReply =>
           \/ tasks'[i].reply = tasks[i].reply
           \/ /\ tasks[i].pc = "send_check"
              /\ tasks[i].state = "Running"
              /\ tasks'[i].pc = "run"]_vars

Holds(id, states) == \E i \in Slots : tasks[i].id = id /\ tasks[i].state \in states

(* Round-robin starves nobody: a Ready task gets a CPU. *)
ReadyRuns(id) ==
    (\E i \in Slots : tasks[i].id = id /\ Eligible(tasks[i]))
        ~> Holds(id, {"Running"})

(* Every sleeper wakes and runs again, also when its deadline passed       *)
(* between the test in sleep_ms and sleep_until.                           *)
SleeperWakes(id) == Holds(id, {"Sleeping"}) ~> Holds(id, {"Running"})

(* Every exited task's stack and address space are released eventually,    *)
(* once a reaper exists.                                                   *)
ExitedReaped(id) ==
    Holds(id, {"Exited"}) /\ (\E i \in Slots : tasks[i].entry = "reaper")
        ~> id \in freed

-----------------------------------------------------------------------------
(* The inductive invariant *)

(* A task on its way into a yield: it may be Ready, blocked or exited      *)
(* while it still executes.                                                *)
Yielding == {"send_yield", "receive_yield", "sleep_yield", "exit_yield"}

(* What each task's state, program counter, CPU and reply slot say about   *)
(* one another.                                                            *)
TaskOK(t) ==
    /\ (t.entry = "idle") <=> (t.pinned_cpu # NoCpu)
    /\ (t.entry = "idle") <=> (t.pc \in {"boot", "idle"})
    /\ t.entry = "idle" => /\ t.state \in {"Ready", "Running"}
                           /\ t.on_cpu \in {NoCpu, t.pinned_cpu}
    /\ t.pc \in {"collect", "release"} => t.entry = "reaper"
    /\ t.reaped => t.state = "Exited" /\ t.on_cpu = NoCpu
    /\ (t.state = "Exited") <=> (t.pc = "exit_yield")
    /\ t.state = "Running" => t.on_cpu # NoCpu
    /\ t.on_cpu # NoCpu /\ t.pc \notin Yielding => t.state = "Running"
    /\ t.state = "WaitingRqb" => /\ t.pc \in {"receive_yield", "receive"}
                                 /\ t.inbox = <<>>
    /\ t.state = "WaitingReply" => /\ t.pc \in {"send_yield", "send_check"}
                                   /\ t.reply = NoReply
    /\ t.state = "Sleeping" => t.pc \in {"sleep_yield", "sleep_test"}
    /\ /\ t.pc \in {"send_yield", "send_check"}
       /\ t.state \in {"Ready", "Running"}
       => t.reply # NoReply
    /\ t.reply # NoReply => /\ t.pc \in {"send_yield", "send_check"}
                            /\ t.reply.from = t.wait_for

TasksOK == \A i \in Slots : TaskOK(tasks[i])

(* Ids are never handed out twice. *)
IdsOK ==
    /\ \A i \in Slots : tasks[i].id < next_id
    /\ \A i, j \in Slots : tasks[i].id = tasks[j].id => i = j

IdleOK == \A c \in Registered : tasks[cpus[c].idle_idx].pinned_cpu = c

(* A CPU is on its current task's stack unless it is inside a switch, and  *)
(* never on the stack of another CPU's current task.                       *)
StackOK ==
    /\ lock # NoCpu => lock \in Registered
    /\ \A c \in Cpus \ Registered : space[c] = 0
    /\ \A c \in Registered :
         /\ stack[c] \in 1..(next_id - 1)
         /\ stack[c] = Me(c).id \/ lock = c
         /\ space[c] \in {0, Me(c).id}
         /\ \A d \in Registered : c # d => stack[c] # Me(d).id
    /\ NoSharedStack

(* What the reaper holds belongs to tasks whose slots it has taken, and    *)
(* which no CPU is on.                                                     *)
FreedOK ==
    /\ freed \cup batch \subseteq 1..(next_id - 1)
    /\ \A i \in Slots : tasks[i].id \in freed \cup batch => tasks[i].reaped
    /\ \A c \in Registered : stack[c] \notin freed \cup batch
    /\ \A id \in 1..(next_id - 1) :
         id \notin freed \cup batch =>
            \E i \in Slots : tasks[i].id = id /\ ~tasks[i].reaped

(* There is one reaper, its batch is empty except while it releases, and   *)
(* REAPING counts the batch.                                               *)
ReaperOK ==
    /\ \A i, j \in Slots :
         tasks[i].entry = "reaper" /\ tasks[j].entry = "reaper" => i = j
    /\ batch # {} => \E i \in Slots : tasks[i].pc = "release"
    /\ IsFiniteSet(batch)
    /\ REAPING = Cardinality(batch)

IInv ==
    /\ TypeOK
    /\ TasksOK
    /\ IdsOK
    /\ IdleOK
    /\ OneCpuPerTask
    /\ StackOK
    /\ FreedOK
    /\ ReaperOK
    /\ ReceiverAlive

=============================================================================
