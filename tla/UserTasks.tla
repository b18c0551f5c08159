------------------------------ MODULE UserTasks ------------------------------
(***************************************************************************)
(* Tasks crossing between user mode and the kernel: trap entry and exit    *)
(* (amd64/syscall.rs, amd64/interrupts.rs, arm64/exceptions.rs), the       *)
(* system calls (syscall.rs), and the processor settings that belong to a  *)
(* task and have to follow it from CPU to CPU (store_bypass.rs,            *)
(* spec_ctrl.rs, predictor.rs, pan.rs, pac.rs).  The tasks run the boot    *)
(* programs of UserPrograms.  Entry and exit code runs with interrupts off *)
(* and touches only its CPU, so each is part of the step that traps or     *)
(* returns; the system call in between can be preempted and can migrate.   *)
(*                                                                         *)
(* Scheduler models the run queue in detail; here a switch is one step and *)
(* the next task is any that is ready.  A sleep lasts until CPU 0's next   *)
(* tick.                                                                   *)
(***************************************************************************)
EXTENDS UserPrograms, FiniteSets, FiniteSetsExt, TLC

CONSTANTS
    Cpus,           \* CPU numbers; 0 advances the clock
    Scenarios,      \* [arch, mode, backend, psfd, set, legacy, ibpb, smap, umip, erase, testable, names]
    INBOX_CAPACITY,
    KILLED_LEN      \* length of the KILLED ring (16 in the code)

VARIABLES
    m,          \* the scenario: machine, policies and the names of the programs
    hw,         \* per CPU: its mode and settings, and what the kernel caches of them
    task,       \* the tasks
    KILLED,     \* the ring of killed tasks
    services    \* the registry of ipc/mod.rs: name -> task

vars == <<m, hw, task, KILLED, services>>

Idle == 0
NoCpu == -1
Tasks == DOMAIN m.names
user(t) == t # Idle /\ m.names[t] \notin KernelTasks
amd64 == m.arch = "amd64"
None == [from |-> 0, service |-> "", data |-> <<>>, status |-> 0]

-----------------------------------------------------------------------------
(* Store-bypass policy (security/store_bypass.rs) *)

supported == m.backend # "Unavailable"
desired(flag) == CASE m.mode = "Off" -> FALSE [] m.mode = "On" -> TRUE [] OTHER -> flag

\* The error of a refused change, or 0.
change(requested) ==
    IF (m.mode = "On" /\ ~requested) \/ (m.mode = "Off" /\ requested) THEN EPERM
    ELSE IF requested /\ ~supported THEN EOPNOTSUPP ELSE 0

query(flag) ==
    IF desired(flag) /\ ~supported THEN EOPNOTSUPP ELSE IF desired(flag) THEN 1 ELSE 0

merge_control(old, clear, set) == (old \ clear) \cup set

\* spec_ctrl::update writes the register only when its cached value changes.
update(h, clear, set) ==
    LET new == merge_control(h.value, clear, set)
    IN [h EXCEPT !.spec_ctrl = IF h.value = new THEN @ ELSE new, !.value = new]

Bit(b) == IF b THEN 1 ELSE 0

\* A control with a cached copy of its own (2: not read yet): VIRT_SPEC_CTRL, or the
\* firmware call.
cached_control(h, new) == [h EXCEPT !.ssbd = IF h.ssbd_cache = new THEN @ ELSE new, !.ssbd_cache = new]

amd64_apply_current(h, flag) ==
    LET psfd == IF m.psfd THEN {"PSFD"} ELSE {}
        mask == IF m.backend = "SpecCtrl" THEN {"SSBD"} \cup psfd ELSE psfd
        set == IF desired(flag) THEN mask ELSE {}
    IN CASE m.backend = "SpecCtrl" -> update(h, mask, set)
         [] m.backend = "VirtualSpecCtrl" -> update(cached_control(h, Bit(desired(flag))), mask, set)
         [] OTHER -> h

arm64_apply_current(h, flag) ==
    IF m.backend = "Firmware" THEN cached_control(h, Bit(desired(flag))) ELSE h

apply_current(h, flag) == IF amd64 THEN amd64_apply_current(h, flag) ELSE arm64_apply_current(h, flag)

\* ssbs_frame: the bit of a saved frame, clear where the machine has none.
ssbs_frame(flag) == m.backend = "Ssbs" /\ ~desired(flag)

-----------------------------------------------------------------------------
(* Entry and exit.  `h` is a CPU, `t` the task it runs. *)

\* x86_predictor_enter: the bits kernel code needs, on every entry.
x86_predictor_enter(h) == [h EXCEPT !.spec_ctrl = @ \cup m.set]

\* The stubs' clac; then no user register reaches the handler.
x86_enter(h) ==
    [x86_predictor_enter(h) EXCEPT !.mode = "kernel", !.regs = {},
                                   !.open = IF m.smap THEN FALSE ELSE @ \/ "AC" \in h.regs]

\* pan and arm64_restore_kernel_pac on entry; SCTLR's DSSBS gives the kernel's SSBS.
arm64_restore_kernel_pac(h) == [h EXCEPT !.pac = TRUE]
exception_enter(h) ==
    [arm64_restore_kernel_pac(h) EXCEPT !.mode = "kernel", !.regs = {}, !.open = FALSE,
                                        !.ssbs = m.backend = "Ssbs" /\ m.mode = "Off"]

enter(h) == IF amd64 THEN x86_enter(h) ELSE exception_enter(h)

\* The tail of the amd64 stubs: back to user mode without IBRS, or to the kernel frame
\* with the AC flag saved in it.
x86_leave(h, t) ==
    IF t # Idle /\ task'[t].k = "none"
    THEN [h EXCEPT !.mode = "user", !.regs = task'[t].regs, !.predictor = @ \cup {t},
                   !.spec_ctrl = IF m.legacy THEN @ \ {"IBRS"} ELSE @]
    ELSE [h EXCEPT !.open = IF t = Idle THEN FALSE ELSE task'[t].open]

\* arm64_user_return_policy: on every return to EL0, not only after a switch.
arm64_user_return_policy(h, t) == [apply_current(h, task'[t].ssb) EXCEPT !.ssbs = ssbs_frame(task'[t].ssb)]
arm64_clear_user_pac(h) == [h EXCEPT !.pac = FALSE]

\* The tail of exception_common.  A kernel frame always has user access closed.
exception_leave(h, t) ==
    IF t # Idle /\ task'[t].k = "none"
    THEN [arm64_clear_user_pac(arm64_user_return_policy(h, t))
             EXCEPT !.mode = "user", !.regs = task'[t].regs, !.predictor = @ \cup {t}]
    ELSE [h EXCEPT !.open = FALSE]

leave(h, t) == IF amd64 THEN x86_leave(h, t) ELSE exception_leave(h, t)

\* kernel_stack_erase_bottom: what a return to user mode leaves on the kernel stack.
kernel_stack_erase_bottom(r) == IF r.k = "none" /\ m.erase THEN [r EXCEPT !.dirty = FALSE] ELSE r

\* A trap from user mode saves the registers in the task's frame; the handler then
\* runs on the task's kernel stack.
Trapped(t, h, k) == [task[t] EXCEPT !.k = k, !.regs = h.regs, !.ssbs = h.ssbs, !.dirty = TRUE]

-----------------------------------------------------------------------------
(* Switching (Scheduler::on_tick) *)

\* amd64 predictor::context_switch: a barrier when another user task comes in.
context_switch(h, t) ==
    IF user(t) /\ h.last # t THEN [h EXCEPT !.last = t, !.predictor = IF m.ibpb THEN {} ELSE @] ELSE h

\* arm64 predictor::on_switch, when switch_address_space loads another root.
on_switch(h, t) ==
    LET root == IF user(t) THEN t ELSE 0
    IN IF h.last = root THEN h
       ELSE [h EXCEPT !.last = root, !.predictor = IF root # 0 /\ m.ibpb THEN {} ELSE @]

\* Mutant: the grant is set for a task that has it and never taken back.
counter_granted(h, granted) == [h EXCEPT !.counter = @ \/ granted]
amd64_counter_access(h, granted) == [h EXCEPT !.counter = granted]
arm64_counter_access(h, granted) == [h EXCEPT !.counter = granted]

\* What on_tick sets up for the task it picked.
activate(h, t) ==
    LET barrier == IF amd64 THEN context_switch(h, t) ELSE on_switch(h, t)
        granted == user(t) /\ m.names[t] = "time"
        counters == IF amd64 THEN amd64_counter_access(barrier, granted)
                    ELSE arm64_counter_access(barrier, granted)
        policy == apply_current(counters, t # Idle /\ task[t].ssb)
    IN [policy EXCEPT !.current = t, !.kernel_stack = IF user(t) THEN t ELSE @,
                      !.ssbs = ssbs_frame(t # Idle /\ task[t].ssb)]

\* on_tick and the tail of the stub on CPU c, which has entered as `h`; `now` are the
\* tasks with the interrupted one saved.
Switch(c, h, now, tick) ==
    LET old == hw[c].current
        Saved(t) == IF t = old
                    THEN [now[t] EXCEPT !.cpu = NoCpu, !.state = IF @ = "Running" THEN "Ready" ELSE @]
                    ELSE now[t]
        Clock(r) == IF ~tick THEN r
                    ELSE [r EXCEPT !.moved = 1, !.state = IF @ = "Sleeping" THEN "Ready" ELSE @]
        after == [t \in Tasks |-> Clock(Saved(t))]
        ready == {t \in Tasks : after[t].state = "Ready" /\ after[t].cpu = NoCpu}
    IN \E next \in IF ready = {} THEN {Idle} ELSE ready :
          /\ task' = IF next = Idle THEN after
                     ELSE [after EXCEPT ![next] = kernel_stack_erase_bottom(
                              [@ EXCEPT !.state = "Running", !.cpu = c,
                                        !.ssbs = IF after[next].k = "none" THEN ssbs_frame(after[next].ssb) ELSE @])]
          /\ hw' = [hw EXCEPT ![c] = leave(activate(h, next), next)]

-----------------------------------------------------------------------------
(* Running programs *)

Instr(t) ==
    LET code == Code(m.arch, m.names[t], [mode |-> m.mode, supported |-> supported, testable |-> m.testable])
    IN IF task[t].pc = 0 THEN Do("fail") ELSE code[task[t].pc]

Expected(i, t, pc) == <<t, pc, IF i.a = "UPPER" THEN "upper" ELSE "reversed">>

Taken(i, t, r, x) ==
    CASE i.cmp = "never"  -> FALSE
      [] i.cmp = "always" -> TRUE
      [] i.cmp = "ne"     -> x # i.v
      [] i.cmp = "le"     -> x <= i.v
      [] i.cmp = "gt"     -> x > i.v
      [] i.cmp = "msg"    -> r.msg.service = "SHUTDOWN"
      [] i.cmp = "reply"  -> ~(x = Success /\ r.msg.from = r.svc /\ r.msg.data = Expected(i, t, r.pc))

Advance(t, r, x) ==
    [r EXCEPT !.pc = IF Taken(Instr(t), t, r, x) THEN Instr(t).to ELSE @ + 1]

\* A call returns x: to the user frame, or to the kernel task itself.
Finish(t, r, x) ==
    IF user(t) THEN [r EXCEPT !.k = "ret", !.ret = x] ELSE [Advance(t, r, x) EXCEPT !.k = "body"]

InUser(c) == hw[c].mode = "user"
InKernel(c, k) ==
    /\ hw[c].mode = "kernel" /\ ~hw[c].debug /\ hw[c].current # Idle
    /\ task[hw[c].current].state = "Running" /\ task[hw[c].current].k = k

Init ==
    /\ m \in Scenarios
    /\ \E ssbd \in IF m.backend \in {"VirtualSpecCtrl", "Firmware"} THEN {0, 1} ELSE {0} :
          hw = [c \in Cpus |->
             [mode |-> "kernel", current |-> Idle, regs |-> {}, open |-> FALSE, counter |-> FALSE,
              spec_ctrl |-> m.set, value |-> m.set, ssbd |-> ssbd, ssbd_cache |-> 2, ssbs |-> FALSE,
              pac |-> ~amd64, kernel_stack |-> 0, last |-> 0, predictor |-> {}, debug |-> FALSE]]
    /\ task = [t \in Tasks |->
          [state |-> "Ready", cpu |-> NoCpu, pc |-> 1, k |-> IF user(t) THEN "none" ELSE "body",
           ret |-> 0, regs |-> {}, ssbs |-> FALSE, open |-> FALSE, dirty |-> FALSE, ssb |-> user(t),
           svc |-> 0, msg |-> None, inbox |-> <<>>, reply |-> <<>>, wait_for |-> 0, moved |-> 1,
           done |-> FALSE, failed |-> FALSE]]
    /\ KILLED = [ring |-> [i \in 1..KILLED_LEN |-> 0], next |-> 0]
    /\ services = [n \in {"sysinfo", "text", "uecho"} |-> 0]

-----------------------------------------------------------------------------
(* User mode *)

\* The instructions the processor refuses, by the handler that takes the fault.  A
\* program's failure exit is an invalid opcode (brk on arm64).
page_fault(no) == no = "load_foreign"
device_not_available(no) == no = "fp"
general_protection(h, no) == no = "privileged" \/ (no = "counter" /\ ~h.counter) \/ (no = "sidt" /\ m.umip)
alignment_check(h, no) == no = "misaligned" /\ "AC" \in h.regs
single_step(h, no) == no = "nop" /\ "TF" \in h.regs
invalid_opcode(h, no) ==
    \/ no = "fail"
    \/ no = "seeded" /\ h.regs # {"seed", "CF", "DF"}
    \/ no = "SSBS_0" /\ h.ssbs
    \/ no = "SSBS_1" /\ ~h.ssbs

user_fault(h, no) ==
    page_fault(no) \/ device_not_available(no) \/ general_protection(h, no) \/ invalid_opcode(h, no)

Refused(h, no) ==
    user_fault(h, no) \/ (amd64 /\ (alignment_check(h, no) \/ single_step(h, no)))

Written(no) ==
    CASE no = "seed" -> {"seed", "CF", "DF"} [] no = "set_TF" -> {"TF"} [] no = "set_AC" -> {"AC"}
      [] OTHER -> {}

Execute(c) ==
    /\ InUser(c)
    /\ LET t == hw[c].current
           i == Instr(t)
       IN /\ i.op = "do" /\ ~Refused(hw[c], i.no)
          /\ hw' = [hw EXCEPT ![c].regs = @ \cup Written(i.no)]
          /\ task' = [task EXCEPT ![t] = Advance(t, @, 0)]
    /\ UNCHANGED <<m, KILLED, services>>

\* The exception handlers, x86_exception_dispatch and user_fault: every fault taken in
\* user mode goes to kill_faulting_task.
Fault(c) ==
    /\ InUser(c)
    /\ LET t == hw[c].current
       IN /\ Instr(t).op = "do" /\ Refused(hw[c], Instr(t).no)
          /\ hw' = [hw EXCEPT ![c] = enter(@)]
          /\ task' = [task EXCEPT ![t] = Trapped(t, hw[c], "kill")]
    /\ UNCHANGED <<m, KILLED, services>>

record_kill(t) ==
    [KILLED EXCEPT !.ring[(KILLED.next % KILLED_LEN) + 1] = t, !.next = @ + 1]

kill_faulting_task(c) ==
    /\ InKernel(c, "kill")
    /\ KILLED' = record_kill(hw[c].current)
    /\ task' = [task EXCEPT ![hw[c].current].k = "exit"]
    /\ UNCHANGED <<m, hw, services>>

\* int 0x80.  A single-step trap held back by the preceding instruction is delivered on
\* the handler's first instruction.
syscall_int_entry(c) ==
    /\ amd64 /\ InUser(c)
    /\ LET t == hw[c].current
       IN /\ Instr(t).op = "sys"
          /\ hw' = [hw EXCEPT ![c] = [enter(@) EXCEPT !.debug = "TF" \in hw[c].regs]]
          /\ task' = [task EXCEPT ![t] = Trapped(t, hw[c], "call")]
    /\ UNCHANGED <<m, KILLED, services>>

\* debug_handler on a trap delivered inside the kernel: nothing but a return.
debug_handler(c) ==
    /\ hw[c].debug
    /\ hw' = [hw EXCEPT ![c] = [enter(@) EXCEPT !.debug = FALSE]]
    /\ UNCHANGED <<m, task, KILLED, services>>

\* arm64_exception and syscall, for svc from EL0
arm64_exception(c) ==
    /\ ~amd64 /\ InUser(c)
    /\ LET t == hw[c].current
       IN /\ Instr(t).op = "sys"
          /\ hw' = [hw EXCEPT ![c] = enter(@)]
          /\ task' = [task EXCEPT ![t] = Trapped(t, hw[c], "call")]
    /\ UNCHANGED <<m, KILLED, services>>

SyscallReturn(c) ==
    /\ InKernel(c, "ret")
    /\ LET t == hw[c].current
       IN /\ task' = [task EXCEPT ![t] =
                        kernel_stack_erase_bottom([Advance(t, @, @.ret) EXCEPT !.k = "none"])]
          /\ hw' = [hw EXCEPT ![c] = leave(@, t)]
    /\ UNCHANGED <<m, KILLED, services>>

-----------------------------------------------------------------------------
(* Interrupts *)

\* User copies run with interrupts off on arm64.
Masked(c) ==
    \/ hw[c].debug
    \/ ~amd64 /\ hw[c].current # Idle /\ task[hw[c].current].k \in {"in", "out"}

\* The timer and the reschedule IPI: on_tick runs wherever they hit.  Only CPU 0's
\* timer advances the clock.
timer_handler(c) ==
    /\ ~Masked(c)
    /\ \E tick \in IF c = 0 THEN BOOLEAN ELSE {FALSE} :
          LET t == hw[c].current
              now == CASE t = Idle -> task
                       [] t # Idle /\ InUser(c) -> [task EXCEPT ![t] = Trapped(t, hw[c], "none")]
                       [] OTHER -> [task EXCEPT ![t].open = hw[c].open]
          IN Switch(c, enter(hw[c]), now, tick)
    /\ UNCHANGED <<m, KILLED, services>>

\* yield_now of a task that blocked, exited or gives up the CPU
yield_handler(c) ==
    /\ hw[c].mode = "kernel" /\ ~hw[c].debug /\ hw[c].current # Idle
    /\ LET t == hw[c].current
       IN /\ task[t].state # "Running" \/ task[t].k = "yield"
          /\ Switch(c, enter(hw[c]),
                    [task EXCEPT ![t].open = hw[c].open, ![t].k = IF @ = "yield" THEN "wait" ELSE @], FALSE)
    /\ UNCHANGED <<m, KILLED, services>>

\* A device interrupt or an NMI that finds user code: in and out without a switch.
DeviceInterrupt(c) ==
    /\ InUser(c)
    /\ LET t == hw[c].current
       IN /\ task' = [task EXCEPT ![t] = kernel_stack_erase_bottom(Trapped(t, hw[c], "none"))]
          /\ hw' = [hw EXCEPT ![c] = leave(enter(@), t)]
    /\ UNCHANGED <<m, KILLED, services>>

-----------------------------------------------------------------------------
(* System calls (syscall.rs) and the kernel calls they share with kernel tasks *)

CopyIn == {"LOG", "SEND", "REPLY", "LOOKUP", "REGISTER"}
Unknown == {"-1", "12"}

\* dispatch: unknown numbers, then the range check of a buffer that is read.
dispatch(c) ==
    /\ InKernel(c, "call")
    /\ LET t == hw[c].current
           i == Instr(t)
       IN CASE i.no \in Unknown ->
                  /\ task' = [task EXCEPT ![t] = Finish(t, @, ENOSYS)]
                  /\ UNCHANGED hw
            [] i.no \in CopyIn /\ i.a = "kernel" ->
                  /\ task' = [task EXCEPT ![t] = Finish(t, @, EFAULT)]
                  /\ UNCHANGED hw
            [] i.no \in CopyIn /\ i.a # "kernel" ->
                  /\ task' = [task EXCEPT ![t].k = "in"]
                  /\ hw' = [hw EXCEPT ![c].open = TRUE]
            [] i.no \notin CopyIn \cup Unknown ->
                  /\ task' = [task EXCEPT ![t].k = "body"]
                  /\ UNCHANGED hw
    /\ UNCHANGED <<m, KILLED, services>>

\* The end of a copy window.  A missing page ends it through the fault's fixup, and so
\* would a copy that goes on with user access closed.
Closed(h) == m.smap /\ ~h.open

copy_from_user(c) ==
    /\ InKernel(c, "in")
    /\ LET t == hw[c].current
           faults == Instr(t).a \in {"hole", "straddle"} \/ Closed(hw[c])
       IN task' = [task EXCEPT ![t] = IF faults THEN Finish(t, @, EFAULT) ELSE [@ EXCEPT !.k = "body"]]
    /\ hw' = [hw EXCEPT ![c].open = FALSE]
    /\ UNCHANGED <<m, KILLED, services>>

copy_to_user(c) ==
    /\ InKernel(c, "out")
    /\ LET t == hw[c].current
       IN task' = [task EXCEPT ![t] = Finish(t, @, IF Closed(hw[c]) THEN EFAULT ELSE @.ret)]
    /\ hw' = [hw EXCEPT ![c].open = FALSE]
    /\ UNCHANGED <<m, KILLED, services>>

At(c, no) == InKernel(c, "body") /\ Instr(hw[c].current).op = "sys" /\ Instr(hw[c].current).no = no

\* The call's result goes out through a second window when the caller is a user task.
CopiedOut(c, t, r, x) ==
    /\ task' = [task EXCEPT ![t] = IF user(t) THEN [r EXCEPT !.k = "out", !.ret = x] ELSE Finish(t, r, x)]
    /\ hw' = [hw EXCEPT ![c].open = user(t)]

sys_log(c) ==
    /\ At(c, "LOG")
    /\ LET t == hw[c].current
       IN task' = [task EXCEPT ![t] = Finish(t, [@ EXCEPT !.failed = @ \/ Instr(t).a = "failure"], 1)]
    /\ UNCHANGED <<m, hw, KILLED, services>>

\* Mutant: the new policy waits for the next switch.
set_store_bypass_deferred(h, r, requested) ==
    IF change(requested) # 0 THEN [h |-> h, r |-> r, x |-> change(requested)]
    ELSE [h |-> h, r |-> [r EXCEPT !.ssb = requested], x |-> 0]

set_store_bypass_disable(h, r, requested) ==
    IF change(requested) # 0 THEN [h |-> h, r |-> r, x |-> change(requested)]
    ELSE [h |-> apply_current(h, requested), r |-> [r EXCEPT !.ssb = requested], x |-> 0]

sys_spec_store_bypass(c) ==
    /\ At(c, "SSB")
    /\ LET t == hw[c].current
           a == Instr(t).a
           set == set_store_bypass_disable(hw[c], task[t], a = "1")
       IN CASE a = "3" -> task' = [task EXCEPT ![t] = Finish(t, @, EINVAL)] /\ UNCHANGED hw
            [] a = "2" -> task' = [task EXCEPT ![t] = Finish(t, @, query(@.ssb))] /\ UNCHANGED hw
            [] OTHER   -> task' = [task EXCEPT ![t] = Finish(t, set.r, set.x)] /\ hw' = [hw EXCEPT ![c] = set.h]
    /\ UNCHANGED <<m, KILLED, services>>

\* SYS_CLOCK_MS, as whether the clock moved since the task last read it
sys_clock(c) ==
    /\ At(c, "CLOCK")
    /\ LET t == hw[c].current IN task' = [task EXCEPT ![t] = Finish(t, [@ EXCEPT !.moved = 0], @.moved)]
    /\ UNCHANGED <<m, hw, KILLED, services>>

sys_get_tid(c) ==
    /\ At(c, "GET_TID")
    /\ LET t == hw[c].current IN task' = [task EXCEPT ![t] = Finish(t, @, t)]
    /\ UNCHANGED <<m, hw, KILLED, services>>

\* sleep_ms and yield_now: the task resumes after a switch at least.
sleep_ms(c) ==
    /\ At(c, "SLEEP")
    /\ task' = [task EXCEPT ![hw[c].current] = [@ EXCEPT !.state = "Sleeping", !.k = "wait"]]
    /\ UNCHANGED <<m, hw, KILLED, services>>

sys_yield(c) ==
    /\ At(c, "YIELD")
    /\ task' = [task EXCEPT ![hw[c].current].k = "yield"]
    /\ UNCHANGED <<m, hw, KILLED, services>>

Resumed(c) ==
    /\ InKernel(c, "wait")
    /\ LET t == hw[c].current
       IN /\ Instr(t).no \in {"SLEEP", "YIELD"}
          /\ task' = [task EXCEPT ![t] = Finish(t, @, 0)]
    /\ UNCHANGED <<m, hw, KILLED, services>>

lookup_service(c) ==
    /\ At(c, "LOOKUP")
    /\ LET t == hw[c].current
           found == services[Instr(t).a]
       IN task' = [task EXCEPT ![t] = Finish(t, [@ EXCEPT !.svc = found], found)]
    /\ UNCHANGED <<m, hw, KILLED, services>>

register_service(c) ==
    /\ At(c, "REGISTER") \/ At(c, "UNREGISTER")
    /\ LET t == hw[c].current
       IN /\ services' = [services EXCEPT ![Instr(t).a] = IF Instr(t).no = "REGISTER" THEN t ELSE 0]
          /\ task' = [task EXCEPT ![t] = Finish(t, @, 0)]
    /\ UNCHANGED <<m, hw, KILLED>>

Wake(r, from) == IF r.state = from THEN [r EXCEPT !.state = "Ready"] ELSE r
Live(t) == t \in Tasks /\ task[t].state # "Exited"

\* post_request: the errors, or the caller blocks and the receiver is woken.
send_rqb(c) ==
    /\ At(c, "SEND")
    /\ LET t == hw[c].current
           i == Instr(t)
           to == CASE i.at = "self" -> t [] i.at = "unknown" -> -1 [] OTHER -> task[t].svc
           error == IF to = t THEN InvalidParam ELSE IF ~Live(to) THEN NotFound
                    ELSE IF Len(task[to].inbox) >= INBOX_CAPACITY THEN 8 ELSE 0
           q == [from |-> t, service |-> i.a, data |-> <<t, task[t].pc, "text">>, status |-> 0]
       IN \/ /\ error # 0
             /\ CopiedOut(c, t, task[t], error)
          \/ /\ error = 0
             /\ task' = [task EXCEPT
                   ![to] = Wake([@ EXCEPT !.inbox = Append(@, q)], "WaitingRqb"),
                   ![t] = [@ EXCEPT !.state = "WaitingReply", !.wait_for = to, !.reply = <<>>, !.k = "wait"]]
             /\ UNCHANGED hw
    /\ UNCHANGED <<m, KILLED, services>>

\* send_rqb's loop: take the reply, or block again.
take_reply(c) ==
    /\ InKernel(c, "wait")
    /\ LET t == hw[c].current
       IN /\ Instr(t).no = "SEND"
          /\ IF task[t].reply = <<>>
             THEN task' = [task EXCEPT ![t].state = "WaitingReply"] /\ hw' = hw
             ELSE CopiedOut(c, t, [task[t] EXCEPT !.msg = Head(task[t].reply), !.reply = <<>>],
                            Head(task[t].reply).status)
    /\ UNCHANGED <<m, KILLED, services>>

receive_rqb(c) ==
    /\ At(c, "RECEIVE")
    /\ LET t == hw[c].current
       IN \/ /\ task[t].inbox # <<>>
             /\ CopiedOut(c, t, [task[t] EXCEPT !.msg = Head(task[t].inbox), !.inbox = Tail(@)], 0)
          \/ /\ task[t].inbox = <<>>
             /\ task' = [task EXCEPT ![t].state = "WaitingRqb"]
             /\ UNCHANGED hw
    /\ UNCHANGED <<m, KILLED, services>>

\* What a service answers: the text service, uecho and sysinfo.
Answer(kind, q) ==
    LET Form(form) == [q EXCEPT !.status = Success, !.data = <<q.data[1], q.data[2], form>>]
        Refuse == [q EXCEPT !.status = InvalidService, !.data = <<>>]
    IN CASE kind = "upper" -> Form("upper")
         [] kind = "text" -> IF q.service = "UPPER" THEN Form("upper")
                             ELSE IF q.service = "REVERSE" THEN Form("reversed") ELSE Refuse
         [] kind = "sysinfo" -> IF q.service = "SYS_INFO" THEN [q EXCEPT !.data = <<>>] ELSE Refuse

\* post_reply: only to a live task that waits for this one's reply and has none.
reply_rqb(c) ==
    /\ At(c, "REPLY") \/ At(c, "REPLY_SVC")
    /\ LET t == hw[c].current
           i == Instr(t)
           to == IF i.no = "REPLY" THEN task[t].msg.from ELSE task[t].svc
           waits == task[to].state = "WaitingReply" /\ task[to].wait_for = t /\ task[to].reply = <<>>
           error == IF ~Live(to) THEN NotFound ELSE IF ~waits THEN InvalidParam ELSE 0
           answer == [Answer(i.a, task[t].msg) EXCEPT !.from = t]
       IN task' = IF error # 0 THEN [task EXCEPT ![t] = Finish(t, @, error)]
                  ELSE [task EXCEPT ![to] = Wake([@ EXCEPT !.reply = <<answer>>], "WaitingReply"),
                                    ![t] = Finish(t, @, 0)]
    /\ UNCHANGED <<m, hw, KILLED, services>>

\* sys_exit and exit_current: mark_exited answers those who wait for the task.
sys_exit(c) ==
    /\ At(c, "EXIT")
    /\ task' = [task EXCEPT ![hw[c].current].k = "exit"]
    /\ UNCHANGED <<m, hw, KILLED, services>>

mark_exited(c) ==
    /\ InKernel(c, "exit")
    /\ LET t == hw[c].current
           aborted == [None EXCEPT !.from = t, !.status = Aborted]
       IN task' = [o \in Tasks |->
             IF o = t THEN [task[o] EXCEPT !.state = "Exited", !.inbox = <<>>]
             ELSE IF task[o].state = "WaitingReply" /\ task[o].wait_for = t /\ task[o].reply = <<>>
             THEN [task[o] EXCEPT !.reply = <<aborted>>, !.state = "Ready"] ELSE task[o]]
    /\ UNCHANGED <<m, hw, KILLED, services>>

-----------------------------------------------------------------------------
(* Steps of kernel tasks that are not calls *)

\* CLIENTS_DONE, counted and polled; a branch on the request received; a failed check.
KernelStep(c) ==
    /\ InKernel(c, "body")
    /\ LET t == hw[c].current
           i == Instr(t)
           waiting == {o \in Tasks : m.names[o] = "text_client_task" /\ ~task[o].done}
       IN /\ ~user(t)
          /\ i.no \in {"DONE", "CLIENTS", "shutdown", "fail"}
          /\ task' = [task EXCEPT ![t] =
                CASE i.no = "DONE"     -> Finish(t, [@ EXCEPT !.done = TRUE], 0)
                  [] i.no = "CLIENTS"  -> Finish(t, @, IF waiting = {} THEN 1 ELSE 0)
                  [] i.no = "shutdown" -> Finish(t, @, 0)
                  [] i.no = "fail"     -> [@ EXCEPT !.failed = TRUE, !.k = "exit"]]
    /\ UNCHANGED <<m, hw, KILLED, services>>

Next ==
    \E c \in Cpus :
       \/ Execute(c) \/ Fault(c) \/ kill_faulting_task(c) \/ syscall_int_entry(c) \/ debug_handler(c)
       \/ arm64_exception(c) \/ SyscallReturn(c) \/ timer_handler(c) \/ yield_handler(c)
       \/ DeviceInterrupt(c) \/ dispatch(c) \/ copy_from_user(c) \/ copy_to_user(c) \/ sys_log(c)
       \/ sys_spec_store_bypass(c) \/ sys_clock(c) \/ sys_get_tid(c) \/ sleep_ms(c) \/ sys_yield(c)
       \/ Resumed(c) \/ lookup_service(c) \/ register_service(c) \/ send_rqb(c) \/ take_reply(c)
       \/ receive_rqb(c) \/ reply_rqb(c) \/ sys_exit(c) \/ mark_exited(c) \/ KernelStep(c)

Spec == Init /\ [][Next]_vars

-----------------------------------------------------------------------------
(* Properties *)

was_killed(t) == \E i \in DOMAIN KILLED.ring : KILLED.ring[i] = t

\* Whatever the schedule, a program ends the way user_check_task expects: those that try
\* what they may not do are killed, recorded before they count as exited; every other
\* program, and every check a kernel task makes on results, replies and statuses, ends
\* without a fault (userspace.rs, ipc/mod.rs, user_programs.rs).
ProgramsBehave ==
    \A t \in Tasks :
       /\ ~task[t].failed
       /\ task[t].state = "Exited" =>
             (was_killed(t) <=> m.names[t] \in Denied /\ (m.names[t] = "sidt" => m.umip))

StoreBypassOff(h) ==
    CASE m.backend = "SpecCtrl" -> "SSBD" \in h.spec_ctrl
      [] m.backend \in {"VirtualSpecCtrl", "Firmware"} -> h.ssbd = 1
      [] m.backend = "Ssbs" -> ~h.ssbs

\* User code runs with the settings of its own task, on whichever CPU and by whichever
\* path it got there: counter access, store-bypass control, entry stack, no branch
\* history of another user task, no kernel key, IBRS or stack residue.  Kernel code runs
\* with user access open in the copy routines, also in one that was preempted and goes on
\* elsewhere, and closed everywhere else, and with its own key and bits.
EntrySound ==
    \A c \in Cpus :
       LET h == hw[c]
           t == h.current
       IN /\ h.mode = "user" =>
                /\ t # Idle /\ task[t].state = "Running" /\ task[t].cpu = c
                /\ h.counter = (m.names[t] = "time")
                /\ m.backend \in {"SpecCtrl", "VirtualSpecCtrl", "Firmware", "Ssbs"} =>
                      StoreBypassOff(h) = desired(task[t].ssb)
                /\ m.psfd => ("PSFD" \in h.spec_ctrl) = desired(task[t].ssb)
                /\ h.kernel_stack = t
                /\ m.ibpb => h.predictor \subseteq {t}
                /\ m.legacy => "IBRS" \notin h.spec_ctrl
                /\ ~h.pac
                /\ m.erase => ~task[t].dirty
          /\ h.mode = "kernel" =>
                /\ h.regs = {}
                /\ m.smap => (h.open <=> t # Idle /\ task[t].k \in {"in", "out"})
                /\ m.set \subseteq h.spec_ctrl
                /\ ~amd64 => h.pac
=============================================================================
