------------------------ MODULE SchedulerSwitchProofs -----------------------
(***************************************************************************)
(* Proofs about Scheduler, part 3: the scheduling decision of on_tick.     *)
(***************************************************************************)
EXTENDS SchedulerTaskProofs

-----------------------------------------------------------------------------
(* The scheduling decision *)

(* Where the code of a task may go on once on_tick has saved it. *)
Resumes(p, q) ==
    \/ q = p
    \/ p = "send_yield" /\ q = "send_check"
    \/ p = "receive_yield" /\ q = "receive"
    \/ p = "sleep_yield" /\ q = "sleep_test"

(* A jiffy changes no more than a task's deadline. *)
LEMMA AgedOK ==
    ASSUME NEW t \in TaskControlBlock, TaskOK(t)
    PROVE  LET u == Aged(t)
           IN  /\ u \in TaskControlBlock /\ TaskOK(u)
               /\ u.id = t.id /\ u.entry = t.entry /\ u.pinned_cpu = t.pinned_cpu
               /\ u.on_cpu = t.on_cpu /\ u.reaped = t.reaped /\ u.pc = t.pc
               /\ u.wait_for = t.wait_for /\ u.state = t.state
<1> DEFINE w == IF t.wake_tick = 0 THEN 0 ELSE t.wake_tick - 1
           u == [t EXCEPT !.wake_tick = w]
<1>1. w \in Nat
  BY DEF TaskControlBlock
<1> HIDE DEF w
<1>2. /\ u \in TaskControlBlock
      /\ u.id = t.id /\ u.entry = t.entry /\ u.pinned_cpu = t.pinned_cpu
      /\ u.on_cpu = t.on_cpu /\ u.reaped = t.reaped /\ u.pc = t.pc
      /\ u.wait_for = t.wait_for /\ u.state = t.state
      /\ u.reply = t.reply /\ u.inbox = t.inbox
  BY <1>1 DEF TaskControlBlock
<1> HIDE DEF u
<1>3. TaskOK(u)
  BY <1>2 DEF TaskOK
<1>4. u = Aged(t)
  BY DEF u, w, Aged
<1> QED BY <1>2, <1>3, <1>4

(* Waking a sleeper leaves it consistent, also one still executing. *)
LEMMA WokenOK ==
    ASSUME NEW t \in TaskControlBlock, TaskOK(t)
    PROVE  LET u == Woken(t)
           IN  /\ u \in TaskControlBlock /\ TaskOK(u)
               /\ u.id = t.id /\ u.entry = t.entry /\ u.pinned_cpu = t.pinned_cpu
               /\ u.on_cpu = t.on_cpu /\ u.reaped = t.reaped /\ u.pc = t.pc
               /\ u.wait_for = t.wait_for
               /\ (u.state = "Exited") <=> (t.state = "Exited")
               /\ u.state = "WaitingReply" => t.state = "WaitingReply"
<1>1. CASE t.state = "Sleeping" /\ t.wake_tick = 0
  <2> DEFINE u == [t EXCEPT !.state = "Ready"]
  <2>1. /\ u \in TaskControlBlock
        /\ u.id = t.id /\ u.entry = t.entry /\ u.pinned_cpu = t.pinned_cpu
        /\ u.on_cpu = t.on_cpu /\ u.reaped = t.reaped /\ u.pc = t.pc
        /\ u.wait_for = t.wait_for /\ u.state = "Ready"
        /\ u.reply = t.reply /\ u.inbox = t.inbox
    BY DEF TaskControlBlock, TaskState
  <2> HIDE DEF u
  <2>2. TaskOK(u)
    BY <1>1, <2>1 DEF TaskOK, Yielding
  <2>3. u = Woken(t)
    BY <1>1 DEF u, Woken
  <2> QED BY <1>1, <2>1, <2>2, <2>3
<1>2. CASE ~(t.state = "Sleeping" /\ t.wake_tick = 0)
  BY <1>2 DEF Woken
<1> QED BY <1>1, <1>2

(* A task that has been saved is runnable again unless it blocked. *)
LEMMA SwitchedOutOK ==
    ASSUME NEW t \in TaskControlBlock, TaskOK(t), NEW pc, Resumes(t.pc, pc)
    PROVE  LET u == SwitchedOut(t, pc)
           IN  /\ u \in TaskControlBlock /\ TaskOK(u)
               /\ u.id = t.id /\ u.entry = t.entry /\ u.pinned_cpu = t.pinned_cpu
               /\ u.on_cpu = NoCpu /\ u.reaped = t.reaped
               /\ (u.pc = "release") <=> (t.pc = "release")
               /\ u.wait_for = t.wait_for
               /\ (u.state = "Exited") <=> (t.state = "Exited")
               /\ u.state = "WaitingReply" => t.state = "WaitingReply"
<1> DEFINE s == IF t.state = "Running" THEN "Ready" ELSE t.state
           u == [t EXCEPT !.on_cpu = NoCpu, !.pc = pc, !.state = s]
<1>1. /\ s \in TaskState /\ s # "Running"
      /\ (s = "Exited") <=> (t.state = "Exited")
      /\ t.state # "Running" => s = t.state
      /\ t.state = "Running" => s = "Ready"
  BY DEF TaskControlBlock, TaskState
<1>2. pc \in Pc
  BY DEF Resumes, TaskControlBlock, Pc
<1> HIDE DEF s
<1>3. /\ u \in TaskControlBlock
      /\ u.id = t.id /\ u.entry = t.entry /\ u.pinned_cpu = t.pinned_cpu
      /\ u.on_cpu = NoCpu /\ u.reaped = t.reaped /\ u.pc = pc
      /\ u.wait_for = t.wait_for /\ u.state = s
      /\ u.reply = t.reply /\ u.inbox = t.inbox
  BY <1>1, <1>2, Zenon DEF TaskControlBlock, OptCpu
<1> HIDE DEF u
<1>4. TaskOK(u)
  BY <1>1, <1>3 DEF TaskOK, Yielding, Resumes
<1>5. u = SwitchedOut(t, pc)
  BY DEF u, s, SwitchedOut
<1> QED BY <1>1, <1>3, <1>4, <1>5 DEF Resumes

(* A runnable task may be given any CPU it is not pinned away from. *)
LEMMA SwitchedInOK ==
    ASSUME NEW t \in TaskControlBlock, TaskOK(t), NEW c \in Cpus,
           t.state = "Ready", t.on_cpu = NoCpu, t.pinned_cpu \in {NoCpu, c}
    PROVE  LET u == SwitchedIn(t, c)
           IN  /\ u \in TaskControlBlock /\ TaskOK(u)
               /\ u.id = t.id /\ u.entry = t.entry /\ u.pinned_cpu = t.pinned_cpu
               /\ u.on_cpu = c /\ u.reaped = t.reaped /\ u.pc = t.pc
               /\ u.state = "Running"
<1> DEFINE u == [t EXCEPT !.state = "Running", !.on_cpu = c]
<1>1. /\ u \in TaskControlBlock
      /\ u.id = t.id /\ u.entry = t.entry /\ u.pinned_cpu = t.pinned_cpu
      /\ u.on_cpu = c /\ u.reaped = t.reaped /\ u.pc = t.pc
      /\ u.state = "Running" /\ u.reply = t.reply /\ u.inbox = t.inbox
      /\ u.wait_for = t.wait_for
  BY Zenon DEF TaskControlBlock, OptCpu, TaskState
<1> HIDE DEF u
<1>2. TaskOK(u)
  BY <1>1, CpusAssumption DEF TaskOK, Yielding
<1>3. u = SwitchedIn(t, c)
  BY DEF u, SwitchedIn
<1> QED BY <1>1, <1>2, <1>3

(* The table pick_next looks at is consistent, and the interrupted task is *)
(* no longer on its CPU.                                                   *)
LEMMA SavedOK ==
    ASSUME IInv, NEW c \in Registered, NEW timer \in BOOLEAN,
           NEW pc, Resumes(Me(c).pc, pc)
    PROVE  LET s == Saved(c, timer, pc)
           IN  /\ s \in [Slots -> TaskControlBlock]
               /\ \A i \in Slots :
                    /\ TaskOK(s[i])
                    /\ s[i].id = tasks[i].id /\ s[i].entry = tasks[i].entry
                    /\ s[i].pinned_cpu = tasks[i].pinned_cpu
                    /\ s[i].on_cpu = IF i = current_idx(c) THEN NoCpu ELSE tasks[i].on_cpu
                    /\ s[i].reaped = tasks[i].reaped
                    /\ (s[i].pc = "release") <=> (tasks[i].pc = "release")
                    /\ s[i].wait_for = tasks[i].wait_for
                    /\ (s[i].state = "Exited") <=> (tasks[i].state = "Exited")
                    /\ s[i].state = "WaitingReply" => tasks[i].state = "WaitingReply"
<1> DEFINE aged(i) == IF timer /\ c = BootCpu THEN Aged(tasks[i]) ELSE tasks[i]
           woken(i) == Woken(aged(i))
           s == Saved(c, timer, pc)
           Same(u, i) ==
             /\ u \in TaskControlBlock /\ TaskOK(u)
             /\ u.id = tasks[i].id /\ u.entry = tasks[i].entry
             /\ u.pinned_cpu = tasks[i].pinned_cpu
             /\ u.reaped = tasks[i].reaped
             /\ (u.pc = "release") <=> (tasks[i].pc = "release")
             /\ u.wait_for = tasks[i].wait_for
             /\ (u.state = "Exited") <=> (tasks[i].state = "Exited")
             /\ u.state = "WaitingReply" => tasks[i].state = "WaitingReply"
<1>1. \A i \in Slots : tasks[i] \in TaskControlBlock /\ TaskOK(tasks[i])
  BY TableFun DEF IInv, TasksOK
<1>2. \A i \in Slots : Same(aged(i), i) /\ aged(i).on_cpu = tasks[i].on_cpu
                       /\ aged(i).pc = tasks[i].pc
  <2> TAKE i \in Slots
  <2>1. CASE timer /\ c = BootCpu
    BY <1>1, <2>1, AgedOK
  <2>2. CASE ~(timer /\ c = BootCpu)
    BY <1>1, <2>2
  <2> QED BY <2>1, <2>2, Zenon
<1> HIDE DEF aged
<1>3. \A i \in Slots : Same(woken(i), i) /\ woken(i).on_cpu = tasks[i].on_cpu
                       /\ woken(i).pc = tasks[i].pc
  BY <1>1, <1>2, WokenOK
<1>4. s = [i \in Slots |-> IF i = current_idx(c) THEN SwitchedOut(woken(i), pc)
                           ELSE woken(i)]
  BY DEF Saved, aged
<1> HIDE DEF woken, s
<1>5. \A i \in Slots : i # current_idx(c) => s[i] = woken(i)
  BY <1>4
<1>6. /\ Same(s[current_idx(c)], current_idx(c))
      /\ s[current_idx(c)].on_cpu = NoCpu
      /\ current_idx(c) \in Slots
  <2>1. current_idx(c) \in Slots /\ Resumes(woken(current_idx(c)).pc, pc)
    BY <1>3, Current DEF Me
  <2>2. s[current_idx(c)] = SwitchedOut(woken(current_idx(c)), pc)
    BY <1>4, <2>1
  <2> QED BY <1>3, <2>1, <2>2, SwitchedOutOK
<1>7. \A i \in Slots : Same(s[i], i) /\ s[i].on_cpu = IF i = current_idx(c) THEN NoCpu ELSE tasks[i].on_cpu
  BY <1>3, <1>5, <1>6
<1>8. s \in [Slots -> TaskControlBlock]
  BY <1>4, <1>7
<1> QED BY <1>7, <1>8 DEF s

(* The picked slot is runnable here: an eligible task, or the idle task of *)
(* this CPU, which runs nowhere else.                                      *)
LEMMA PickOK ==
    ASSUME IInv, NEW c \in Registered, NEW timer \in BOOLEAN,
           NEW pc, Resumes(Me(c).pc, pc),
           NEW next \in pick_next(Saved(c, timer, pc), c)
    PROVE  LET s == Saved(c, timer, pc)
           IN  /\ next \in Slots
               /\ s[next].state = "Ready" /\ s[next].on_cpu = NoCpu
               /\ s[next].pinned_cpu \in {NoCpu, c}
<1> DEFINE s == Saved(c, timer, pc)
           ready == {i \in DOMAIN s : Eligible(s[i])}
<1>1. /\ s \in [Slots -> TaskControlBlock]
      /\ \A i \in Slots :
           /\ TaskOK(s[i]) /\ s[i].pinned_cpu = tasks[i].pinned_cpu
           /\ s[i].on_cpu = IF i = current_idx(c) THEN NoCpu ELSE tasks[i].on_cpu
  BY SavedOK
<1> HIDE DEF s
<1>2. CASE ready # {}
  <2>1. next \in ready
    BY <1>2 DEF pick_next, s
  <2> QED BY <1>1, <2>1 DEF Eligible, s
<1>3. CASE ready = {}
  <2>1. next = cpus[c].idle_idx
    BY <1>3 DEF pick_next, s
  <2>2. next \in Slots /\ tasks[next].pinned_cpu = c /\ c # NoCpu
    BY <2>1, CpusAssumption DEF IInv, TypeOK, IdleOK, Registered
  <2>3. s[next].pinned_cpu = c /\ TaskOK(s[next])
    BY <1>1, <2>2
  <2>4. tasks[next].on_cpu \in {NoCpu, c}
    BY <2>2 DEF IInv, TasksOK, TaskOK
  <2>5. s[next].on_cpu = NoCpu
    BY <1>1, <2>2, <2>4 DEF IInv, OneCpuPerTask
  <2>6. s[next].state = "Ready"
    BY <2>2, <2>3, <2>5 DEF TaskOK
  <2> QED BY <2>2, <2>3, <2>5, <2>6 DEF s
<1> QED BY <1>2, <1>3

(* on_tick hands the CPU to a task no other CPU runs, and keeps the lock   *)
(* because it is still on the outgoing task's stack.                       *)
LEMMA OnTickStep ==
    ASSUME IInv, NEW c \in Registered, NEW timer \in BOOLEAN,
           NEW pc, Resumes(Me(c).pc, pc), Locked(c), on_tick(c, timer, pc)
    PROVE  IInv'
<1> DEFINE s == Saved(c, timer, pc)
           me == current_idx(c)
<1>1. /\ s \in [Slots -> TaskControlBlock]
      /\ \A i \in Slots :
           /\ TaskOK(s[i])
           /\ s[i].id = tasks[i].id /\ s[i].entry = tasks[i].entry
           /\ s[i].pinned_cpu = tasks[i].pinned_cpu
           /\ s[i].on_cpu = IF i = me THEN NoCpu ELSE tasks[i].on_cpu
           /\ s[i].reaped = tasks[i].reaped
           /\ (s[i].pc = "release") <=> (tasks[i].pc = "release")
           /\ s[i].wait_for = tasks[i].wait_for
           /\ (s[i].state = "Exited") <=> (tasks[i].state = "Exited")
           /\ s[i].state = "WaitingReply" => tasks[i].state = "WaitingReply"
  BY SavedOK
<1>2. PICK next \in pick_next(s, c) :
        /\ tasks' = [s EXCEPT ![next] = SwitchedIn(@, c)]
        /\ cpus' = [cpus EXCEPT ![c].current = next]
        /\ space' = [space EXCEPT ![c] = IF s[next].entry = "user" THEN s[next].id ELSE 0]
        /\ rr_cursor' = IF next = cpus[c].idle_idx THEN rr_cursor ELSE next
        /\ lock' = c
        /\ UNCHANGED <<stack, next_id, STARTED, batch, REAPING, freed>>
  BY Zenon DEF on_tick
<1>3. /\ next \in Slots
      /\ s[next].state = "Ready" /\ s[next].on_cpu = NoCpu
      /\ s[next].pinned_cpu \in {NoCpu, c}
  BY PickOK
<1>4. /\ c \in Cpus /\ c # NoCpu /\ me \in Slots /\ tasks[me] = Me(c)
      /\ lock = NoCpu /\ stack[c] = Me(c).id
  BY Current DEF Me, Locked, Executing
<1> DEFINE t == SwitchedIn(s[next], c)
<1> HIDE DEF s, me
<1>5. /\ t \in TaskControlBlock /\ TaskOK(t)
      /\ t.id = s[next].id /\ t.entry = s[next].entry /\ t.pinned_cpu = s[next].pinned_cpu
      /\ t.on_cpu = c /\ t.reaped = s[next].reaped /\ t.pc = s[next].pc
      /\ t.state = "Running"
  <2>1. s[next] \in TaskControlBlock /\ TaskOK(s[next])
    BY <1>1, <1>3
  <2> QED BY <1>3, <1>4, <2>1, SwitchedInOK
<1> HIDE DEF t
<1>6. /\ tasks' \in [Slots -> TaskControlBlock]
      /\ tasks'[next] = t
      /\ \A i \in Slots : i # next => tasks'[i] = s[i]
  BY <1>1, <1>2, <1>3, <1>5 DEF t
<1>7. tasks' \in Seq(TaskControlBlock) /\ Slots' = Slots
  BY <1>6, SameSlots DEF IInv
<1>8. \A i \in Slots :
           /\ TaskOK(tasks'[i])
           /\ tasks'[i].id = tasks[i].id /\ tasks'[i].entry = tasks[i].entry
           /\ tasks'[i].pinned_cpu = tasks[i].pinned_cpu
           /\ tasks'[i].reaped = tasks[i].reaped
           /\ (tasks'[i].pc = "release") <=> (tasks[i].pc = "release")
           /\ tasks'[i].state = "Exited" => tasks[i].state = "Exited"
           /\ tasks'[i].state = "WaitingReply" =>
                tasks[i].state = "WaitingReply" /\ tasks'[i].wait_for = tasks[i].wait_for
  <2> TAKE i \in Slots
  <2>1. CASE i = next
    BY <1>1, <1>3, <1>5, <1>6, <2>1
  <2>2. CASE i # next
    BY <1>1, <1>6, <2>2
  <2> QED BY <2>1, <2>2, Zenon
<1>9. /\ cpus' \in [Cpus -> PerCpu]
      /\ cpus'[c].current = next /\ cpus'[c].idle_idx = cpus[c].idle_idx
      /\ \A d \in Cpus : d # c => cpus'[d] = cpus[d]
      /\ Registered' = Registered
  <2>1. next \in Nat /\ cpus \in [Cpus -> PerCpu]
    BY <1>3, TableFun DEF IInv, TypeOK
  <2>2. /\ cpus' \in [Cpus -> PerCpu]
        /\ cpus'[c].current = next /\ cpus'[c].idle_idx = cpus[c].idle_idx
        /\ cpus'[c].registered = cpus[c].registered
        /\ \A d \in Cpus : d # c => cpus'[d] = cpus[d]
    BY <1>2, <1>4, <2>1 DEF PerCpu
  <2> QED BY <2>2 DEF Registered
<1>10. /\ current_idx(c)' = next /\ Me(c)' = t
       /\ \A d \in Registered : d # c =>
            /\ d \in Cpus /\ d # NoCpu
            /\ current_idx(d)' = current_idx(d) /\ current_idx(d) \in Slots
            /\ current_idx(d) # next /\ current_idx(d) # me
            /\ Me(d)' = s[current_idx(d)]
            /\ Me(d)'.id = Me(d).id /\ Me(d)'.on_cpu = d
  <2>1. current_idx(c)' = next /\ Me(c)' = t
    BY <1>6, <1>9 DEF current_idx, Me
  <2> SUFFICES ASSUME NEW d \in Registered, d # c
               PROVE  /\ d \in Cpus /\ d # NoCpu
                      /\ current_idx(d)' = current_idx(d) /\ current_idx(d) \in Slots
                      /\ current_idx(d) # next /\ current_idx(d) # me
                      /\ Me(d)' = s[current_idx(d)]
                      /\ Me(d)'.id = Me(d).id /\ Me(d)'.on_cpu = d
    BY <2>1
  <2>2. d \in Cpus /\ d # NoCpu /\ current_idx(d) \in Slots
        /\ tasks[current_idx(d)].on_cpu = d /\ tasks[me].on_cpu = c
    BY <1>4, Current DEF Me
  <2>3. current_idx(d) # me
    BY <2>2
  <2>4. s[current_idx(d)].on_cpu = d /\ s[current_idx(d)].id = tasks[current_idx(d)].id
    BY <1>1, <2>2, <2>3
  <2>5. current_idx(d) # next
    BY <1>3, <2>2, <2>4
  <2>6. current_idx(d)' = current_idx(d)
    BY <1>9, <2>2 DEF current_idx
  <2>7. tasks'[current_idx(d)] = s[current_idx(d)]
    BY <1>6, <2>2, <2>5
  <2>8. Me(d)' = tasks'[current_idx(d)]
    BY <2>6 DEF Me
  <2> QED BY <2>2, <2>3, <2>4, <2>5, <2>6, <2>7, <2>8 DEF Me
<1>11. space' \in [Cpus -> Nat] /\ space'[c] \in {0, t.id}
       /\ \A d \in Cpus : d # c => space'[d] = space[d]
  <2>1. s[next].id \in Nat
    BY <1>1, <1>3 DEF TaskControlBlock
  <2> QED BY <1>2, <1>4, <1>5, <2>1 DEF IInv, TypeOK
<1>12. TypeOK'
  <2>1. rr_cursor' \in Slots
    BY <1>2, <1>3 DEF IInv, TypeOK
  <2>2. \A d \in Registered : current_idx(d)' \in Slots /\ cpus'[d].idle_idx \in Slots
    BY <1>3, <1>9, <1>10 DEF IInv, TypeOK
  <2>3. lock' \in OptCpu
    BY <1>2, <1>4 DEF OptCpu
  <2> QED BY <1>2, <1>7, <1>9, <1>11, <2>1, <2>2, <2>3 DEF IInv, TypeOK
<1>13. TasksOK'
  BY <1>7, <1>8, Zenon DEF TasksOK
<1>14. IdsOK'
  <2>1. \A i \in Slots : tasks'[i].id = tasks[i].id
    BY <1>8, Zenon
  <2> QED BY <1>2, <1>7, <2>1 DEF IInv, IdsOK
<1>15. IdleOK'
  <2>1. \A d \in Registered : cpus'[d].idle_idx = cpus[d].idle_idx /\ cpus[d].idle_idx \in Slots
    <3>1. \A d \in Registered : d \in Cpus /\ cpus[d].idle_idx \in Slots
      BY DEF IInv, TypeOK, Registered
    <3> QED BY <1>9, <3>1, Zenon
  <2>2. \A i \in Slots : tasks'[i].pinned_cpu = tasks[i].pinned_cpu
                          /\ tasks'[i].entry = tasks[i].entry
    BY <1>8, Zenon
  <2> QED BY <1>7, <1>9, <2>1, <2>2 DEF IInv, IdleOK
<1>16. OneCpuPerTask'
  <2>1. \A d \in Registered : Me(d)'.on_cpu = d
    BY <1>5, <1>10
  <2>2. \A i \in Slots : i # next /\ tasks'[i].on_cpu # NoCpu =>
           /\ tasks'[i].on_cpu = tasks[i].on_cpu /\ i # me
    BY <1>1, <1>6
  <2>3. \A i \in Slots : i # next /\ tasks'[i].on_cpu # NoCpu =>
           tasks'[i].on_cpu \in Registered /\ cpus'[tasks'[i].on_cpu].current = i
    <3> SUFFICES ASSUME NEW i \in Slots, i # next, tasks'[i].on_cpu # NoCpu
                 PROVE  tasks'[i].on_cpu \in Registered /\ cpus'[tasks'[i].on_cpu].current = i
      OBVIOUS
    <3> DEFINE d == tasks[i].on_cpu
    <3>1. d \in Registered /\ current_idx(d) = i /\ tasks'[i].on_cpu = d /\ i # me
      BY <2>2 DEF IInv, OneCpuPerTask
    <3> HIDE DEF d
    <3>2. d # c
      BY <3>1 DEF me
    <3> QED BY <1>9, <1>10, <3>1, <3>2 DEF current_idx
  <2>4. tasks'[next].on_cpu = c /\ cpus'[c].current = next
    BY <1>5, <1>6, <1>9
  <2> QED BY <1>7, <1>9, <2>1, <2>3, <2>4 DEF OneCpuPerTask, current_idx
<1>17. StackOK'
  <2>1. \A d \in Registered : d # c => stack[d] = Me(d).id /\ Me(d)'.id = Me(d).id
    BY <1>4, <1>10 DEF IInv, StackOK
  <2>2. \A d \in Registered : d # c => stack[d] # Me(c)'.id
    <3> TAKE d \in Registered
    <3> HAVE d # c
    <3>1. stack[d] = tasks[current_idx(d)].id /\ current_idx(d) # next /\ current_idx(d) \in Slots
      BY <1>10, <2>1, Zenon DEF Me
    <3>2. Me(c)'.id = tasks[next].id
      BY <1>1, <1>3, <1>5, <1>10, Zenon
    <3> QED BY <1>3, <3>1, <3>2 DEF IInv, IdsOK
  <2>3. \A d, e \in Registered : d # e => stack[d] # Me(e)'.id
    BY <1>10, <2>1, <2>2 DEF IInv, StackOK
  <2>4. \A d \in Registered : space'[d] \in {0, Me(d)'.id}
    BY <1>10, <1>11 DEF IInv, StackOK
  <2>5. \A d \in Cpus \ Registered : space'[d] = 0
    BY <1>11 DEF IInv, StackOK
  <2>6. \A d \in Registered : stack[d] = Me(d)'.id \/ lock' = d
    BY <1>2, <2>1
  <2>7. NoSharedStack'
    BY <1>2, <1>9 DEF IInv, StackOK, NoSharedStack
  <2> QED BY <1>2, <1>9, <2>3, <2>4, <2>5, <2>6, <2>7 DEF IInv, StackOK
<1>18. FreedOK'
  <2>0. \A i \in Slots : tasks'[i].id = tasks[i].id /\ tasks'[i].reaped = tasks[i].reaped
    BY <1>8, Zenon
  <2>1. \A i \in Slots : tasks'[i].id \in freed \cup batch => tasks'[i].reaped
    BY <2>0 DEF IInv, FreedOK
  <2>2. \A id \in 1..(next_id - 1) : id \notin freed \cup batch =>
            \E i \in Slots : tasks'[i].id = id /\ ~tasks'[i].reaped
    BY <2>0 DEF IInv, FreedOK
  <2> QED BY <1>2, <1>7, <1>9, <2>1, <2>2 DEF IInv, FreedOK
<1>19. ReaperOK'
  <2>1. \A i, j \in Slots :
           tasks'[i].entry = "reaper" /\ tasks'[j].entry = "reaper" => i = j
    <3>1. \A i \in Slots : tasks'[i].entry = tasks[i].entry
      BY <1>8, Zenon
    <3> QED BY <3>1 DEF IInv, ReaperOK
  <2>2. batch' # {} => \E i \in Slots : tasks'[i].pc = "release"
    <3>1. \A i \in Slots : (tasks'[i].pc = "release") <=> (tasks[i].pc = "release")
      BY <1>8, Zenon
    <3> QED BY <1>2, <3>1 DEF IInv, ReaperOK
  <2> QED BY <1>2, <1>7, <2>1, <2>2 DEF IInv, ReaperOK
<1>20. ReceiverAlive'
  <2>1. \A i \in Slots : tasks'[i].id = tasks[i].id
    BY <1>8, Zenon
  <2>2. \A i \in Slots : tasks'[i].state = "Exited" => tasks[i].state = "Exited"
    BY <1>8, Zenon
  <2>3. \A i \in Slots : tasks'[i].state = "WaitingReply" =>
            tasks[i].state = "WaitingReply" /\ tasks'[i].wait_for = tasks[i].wait_for
    BY <1>8, Zenon
  <2> QED BY <1>7, <2>1, <2>2, <2>3 DEF IInv, ReceiverAlive, find_live
<1> QED BY <1>12, <1>13, <1>14, <1>15, <1>16, <1>17, <1>18, <1>19, <1>20 DEF IInv

=============================================================================
