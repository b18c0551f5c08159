------------------------- MODULE SchedulerIpcProofs -------------------------
(***************************************************************************)
(* Proofs about Scheduler, part 1: facts about the task table, the initial *)
(* states, and the steps of IPC, sleep and exit, which change nothing but  *)
(* the task table.                                                         *)
(***************************************************************************)
EXTENDS Scheduler, SequenceTheorems, FiniteSetTheorems, TLAPS

-----------------------------------------------------------------------------
(* Sequences as functions *)

(* A function on 1..n is a sequence of length n. *)
LEMMA SeqFun ==
    ASSUME NEW S, NEW n \in Nat, NEW f \in [1..n -> S]
    PROVE  f \in Seq(S) /\ Len(f) = n /\ DOMAIN f = 1..n
<1>1. f \in Seq(S)
  BY SeqDef
<1>2. DOMAIN f = 1..n
  OBVIOUS
<1>3. Len(f) \in Nat /\ DOMAIN f = 1..Len(f)
  BY <1>1, LenProperties
<1> QED BY <1>1, <1>2, <1>3

(* The task table is a function on its slots. *)
LEMMA TableFun ==
    ASSUME TypeOK
    PROVE  /\ Len(tasks) \in Nat
           /\ Slots = 1..Len(tasks)
           /\ tasks \in [Slots -> TaskControlBlock]
  BY LenProperties DEF TypeOK, Slots

(* A new value for the table on the same slots keeps the table a sequence. *)
LEMMA SameSlots ==
    ASSUME TypeOK, tasks' \in [Slots -> TaskControlBlock]
    PROVE  /\ tasks' \in Seq(TaskControlBlock)
           /\ Slots' = Slots
           /\ Len(tasks') = Len(tasks)
<1>1. Len(tasks) \in Nat /\ Slots = 1..Len(tasks)
  BY TableFun
<1>2. tasks' \in [1..Len(tasks) -> TaskControlBlock]
  BY <1>1
<1>3. /\ tasks' \in Seq(TaskControlBlock)
      /\ Len(tasks') = Len(tasks)
      /\ DOMAIN tasks' = 1..Len(tasks)
  BY <1>1, <1>2, SeqFun
<1> QED BY <1>1, <1>3 DEF Slots

-----------------------------------------------------------------------------
(* New tasks *)

(* An empty reply slot names nobody. *)
LEMMA NoReplyType == NoReply \in Reply /\ NoReply.from = 0
  BY DEF Reply, NoReply

(* The context adopt_current makes a task of is consistent and on its CPU. *)
LEMMA AdoptOK ==
    ASSUME NEW id \in Nat \ {0}, NEW c \in Cpus, NEW pc \in {"boot", "idle"}
    PROVE  LET t == adopt_current(id, c, pc)
           IN  /\ t \in TaskControlBlock
               /\ TaskOK(t)
               /\ t.id = id /\ t.entry = "idle" /\ t.pinned_cpu = c
               /\ t.on_cpu = c /\ ~t.reaped /\ t.state = "Running" /\ t.pc = pc
<1>1. adopt_current(id, c, pc) \in TaskControlBlock
  BY EmptySeq, NoReplyType
  DEF adopt_current, TaskControlBlock, TaskState, Entry, OptCpu, Pc
<1>2. TaskOK(adopt_current(id, c, pc))
  BY CpusAssumption DEF adopt_current, TaskOK, Yielding
<1> QED BY <1>1, <1>2 DEF adopt_current

(* A task made by TaskControlBlock::new is consistent, Ready and on no CPU. *)
LEMMA NewOK ==
    ASSUME NEW id \in Nat \ {0}, NEW entry \in Entry \ {"idle"}
    PROVE  LET t == new(id, entry)
           IN  /\ t \in TaskControlBlock
               /\ TaskOK(t)
               /\ t.id = id /\ t.entry = entry /\ t.pinned_cpu = NoCpu
               /\ t.on_cpu = NoCpu /\ ~t.reaped /\ t.state = "Ready" /\ t.pc = "run"
<1>1. new(id, entry) \in TaskControlBlock
  BY EmptySeq, NoReplyType
  DEF new, TaskControlBlock, TaskState, Entry, OptCpu, Pc
<1>2. TaskOK(new(id, entry))
  BY DEF new, TaskOK, Yielding
<1> QED BY <1>1, <1>2 DEF new

-----------------------------------------------------------------------------
(* Initial states *)

(* Scheduler::new and the registration of CPU 0 establish the invariant. *)
LEMMA InitIInv == Init => IInv
<1> SUFFICES ASSUME Init PROVE IInv
  OBVIOUS
<1> USE CpusAssumption
<1>1. /\ Slots = {1} /\ Len(tasks) = 1
      /\ tasks \in Seq(TaskControlBlock)
      /\ tasks[1] \in TaskControlBlock
      /\ TaskOK(tasks[1])
      /\ tasks[1].id = 1 /\ tasks[1].entry = "idle" /\ tasks[1].pc = "boot"
      /\ tasks[1].pinned_cpu = BootCpu /\ tasks[1].on_cpu = BootCpu
      /\ ~tasks[1].reaped /\ tasks[1].state = "Running"
  <2>1. tasks = <<adopt_current(1, BootCpu, "boot")>>
    BY DEF Init
  <2>2. Slots = {1} /\ tasks[1] = adopt_current(1, BootCpu, "boot") /\ Len(tasks) = 1
    BY <2>1 DEF Slots
  <2>3. /\ adopt_current(1, BootCpu, "boot") \in TaskControlBlock
        /\ TaskOK(adopt_current(1, BootCpu, "boot"))
    BY AdoptOK
  <2>4. tasks \in Seq(TaskControlBlock)
    BY <2>1, <2>3
  <2> QED BY <2>2, <2>3, <2>4 DEF adopt_current
<1>2. /\ Registered = {BootCpu}
      /\ current_idx(BootCpu) = 1
      /\ cpus[BootCpu].idle_idx = 1
      /\ cpus \in [Cpus -> PerCpu]
  BY DEF Init, Registered, current_idx, PerCpu
<1>3. /\ rr_cursor = 1 /\ lock = NoCpu /\ next_id = 2 /\ STARTED = FALSE
      /\ batch = {} /\ REAPING = 0 /\ freed = {}
      /\ stack \in [Cpus -> Nat] /\ stack[BootCpu] = 1
      /\ space \in [Cpus -> Nat] /\ \A c \in Cpus : space[c] = 0
  BY DEF Init
<1>4. TypeOK
  <2>1. /\ rr_cursor \in Slots
        /\ lock \in OptCpu
        /\ next_id \in Nat \ {0}
        /\ REAPING \in Nat
    BY <1>1, <1>3 DEF OptCpu
  <2>2. batch \in SUBSET Nat /\ freed \in SUBSET Nat /\ STARTED \in BOOLEAN
    BY <1>3, Zenon
  <2>3. \A c \in Registered : current_idx(c) \in Slots /\ cpus[c].idle_idx \in Slots
    BY <1>1, <1>2
  <2> QED BY <1>1, <1>2, <1>3, <2>1, <2>2, <2>3 DEF TypeOK
<1>5. TasksOK /\ IdsOK /\ IdleOK /\ OneCpuPerTask
  BY <1>1, <1>2, <1>3 DEF TasksOK, IdsOK, IdleOK, OneCpuPerTask, Me
<1>6. StackOK
  BY <1>1, <1>2, <1>3 DEF StackOK, NoSharedStack, Me
<1>7. FreedOK
  BY <1>1, <1>2, <1>3 DEF FreedOK
<1>8. ReaperOK /\ ReceiverAlive
  BY <1>1, <1>3, FS_EmptySet DEF ReaperOK, ReceiverAlive
<1> QED BY <1>4, <1>5, <1>6, <1>7, <1>8 DEF IInv

-----------------------------------------------------------------------------
(* Steps that change only the task table, and in it nothing that ties a    *)
(* task to a CPU, an id or the reaper.                                     *)

SameIdentity(i) ==
    /\ tasks'[i].id = tasks[i].id
    /\ tasks'[i].on_cpu = tasks[i].on_cpu
    /\ tasks'[i].pinned_cpu = tasks[i].pinned_cpu
    /\ tasks'[i].entry = tasks[i].entry

(* A step that only rewrites task states keeps everything that does not    *)
(* look at the reaper or at waiting senders.                               *)
LEMMA TableStep ==
    ASSUME IInv,
           UNCHANGED <<cpus, rr_cursor, lock, stack, space, next_id>>,
           STARTED' \in BOOLEAN,
           tasks' \in [Slots -> TaskControlBlock],
           \A i \in Slots : SameIdentity(i) /\ TaskOK(tasks'[i])
    PROVE  /\ tasks' \in Seq(TaskControlBlock)
           /\ Slots' = Slots /\ Registered' = Registered
           /\ \A c \in Registered :
                current_idx(c)' = current_idx(c) /\ current_idx(c) \in Slots
           /\ TasksOK' /\ IdsOK' /\ IdleOK' /\ OneCpuPerTask' /\ StackOK'
           /\ (/\ batch' \in SUBSET Nat /\ REAPING' \in Nat /\ freed' \in SUBSET Nat)
              => TypeOK'
<1> USE DEF IInv
<1>1. tasks' \in Seq(TaskControlBlock) /\ Slots' = Slots
  BY SameSlots
<1>2. Registered' = Registered /\ \A c : current_idx(c)' = current_idx(c)
  BY DEF Registered, current_idx
<1>3. \A c \in Registered : current_idx(c) \in Slots /\ cpus[c].idle_idx \in Slots
  BY DEF TypeOK
<1>4. \A c \in Registered : Me(c)'.id = Me(c).id /\ Me(c)'.on_cpu = Me(c).on_cpu
  BY <1>1, <1>2, <1>3 DEF Me, SameIdentity
<1>5. TasksOK'
  BY <1>1 DEF TasksOK
<1>6. IdsOK'
  BY <1>1 DEF IdsOK, SameIdentity
<1>7. IdleOK'
  BY <1>1, <1>2, <1>3 DEF IdleOK, SameIdentity
<1>8. OneCpuPerTask'
  BY <1>1, <1>2, <1>4 DEF OneCpuPerTask, SameIdentity
<1>9. StackOK'
  BY <1>2, <1>4 DEF StackOK, NoSharedStack
<1>10. (/\ batch' \in SUBSET Nat /\ REAPING' \in Nat /\ freed' \in SUBSET Nat)
       => TypeOK'
  BY <1>1, <1>2, <1>3 DEF TypeOK, PerCpu
<1> QED BY <1>1, <1>2, <1>3, <1>5, <1>6, <1>7, <1>8, <1>9, <1>10

(* The waiters' receivers stay alive when nobody exits and new waiters     *)
(* wait on somebody alive.                                                 *)
LEMMA AliveStep ==
    ASSUME IInv,
           Slots' = Slots,
           \A i \in Slots : SameIdentity(i),
           \A i \in Slots : tasks'[i].state = "Exited" => tasks[i].state = "Exited",
           \A i \in Slots : tasks'[i].state = "WaitingReply" =>
                \/ tasks[i].state = "WaitingReply" /\ tasks'[i].wait_for = tasks[i].wait_for
                \/ find_live(tasks'[i].wait_for) # {}
    PROVE  ReceiverAlive'
  BY DEF IInv, ReceiverAlive, find_live, SameIdentity

(* A whole step of this kind. *)
LEMMA OnlyTasksStep ==
    ASSUME IInv, OnlyTasks,
           tasks' \in [Slots -> TaskControlBlock],
           \A i \in Slots : SameIdentity(i) /\ TaskOK(tasks'[i]),
           \A i \in Slots : tasks'[i].reaped = tasks[i].reaped,
           \A i \in Slots : (tasks'[i].pc = "release") <=> (tasks[i].pc = "release"),
           ReceiverAlive'
    PROVE  IInv'
<1> USE DEF OnlyTasks
<1>1. /\ Slots' = Slots /\ Registered' = Registered
      /\ TasksOK' /\ IdsOK' /\ IdleOK' /\ OneCpuPerTask' /\ StackOK'
  BY TableStep DEF IInv, TypeOK
<1>2. TypeOK'
  BY TableStep DEF IInv, TypeOK
<1>3. FreedOK'
  BY <1>1 DEF IInv, FreedOK, SameIdentity
<1>4. ReaperOK'
  BY <1>1 DEF IInv, ReaperOK, SameIdentity
<1> QED BY <1>1, <1>2, <1>3, <1>4 DEF IInv

-----------------------------------------------------------------------------
(* Steps of the current task on itself *)

(* What a CPU may rely on about its own current task. *)
LEMMA Current ==
    ASSUME IInv, NEW c \in Registered
    PROVE  /\ c \in Cpus /\ c # NoCpu
           /\ current_idx(c) \in Slots
           /\ Me(c) \in TaskControlBlock /\ TaskOK(Me(c))
           /\ Me(c).on_cpu = c /\ ~Me(c).reaped
           /\ Me(c).pc \notin Yielding => Me(c).state = "Running"
<1>1. current_idx(c) \in Slots
  BY DEF IInv, TypeOK
<1>2. c \in Cpus /\ c # NoCpu
  BY CpusAssumption DEF Registered
<1>3. Me(c) \in TaskControlBlock
  BY <1>1, TableFun DEF IInv, Me
<1>4. TaskOK(Me(c)) /\ Me(c).on_cpu = c
  BY <1>1 DEF IInv, TasksOK, OneCpuPerTask, Me
<1> QED BY <1>1, <1>2, <1>3, <1>4 DEF TaskOK

(* A step in which the current task changes only itself, without exiting:  *)
(* the shape of most with_scheduler closures.                              *)
LEMMA MeStep ==
    ASSUME IInv, OnlyTasks,
           NEW c \in Registered, NEW t \in TaskControlBlock,
           tasks' = [tasks EXCEPT ![current_idx(c)] = t],
           t.id = Me(c).id, t.on_cpu = c, t.pinned_cpu = Me(c).pinned_cpu,
           t.entry = Me(c).entry, ~t.reaped,
           TaskOK(t),
           t.pc # "release", Me(c).pc # "release",
           t.state # "Exited",
           t.state = "WaitingReply" => find_live(t.wait_for) # {}
    PROVE  IInv'
<1> DEFINE me == current_idx(c)
<1>1. /\ me \in Slots /\ tasks[me] = Me(c)
      /\ Me(c).on_cpu = c /\ ~Me(c).reaped
      /\ Me(c) \in TaskControlBlock
  BY Current DEF Me
<1>2. tasks \in [Slots -> TaskControlBlock]
  BY TableFun DEF IInv
<1>3. /\ tasks' \in [Slots -> TaskControlBlock]
      /\ tasks'[me] = t
      /\ \A i \in Slots : i # me => tasks'[i] = tasks[i]
  BY <1>1, <1>2
<1> HIDE DEF me
<1>4. \A i \in Slots : SameIdentity(i) /\ TaskOK(tasks'[i])
  BY <1>1, <1>3 DEF SameIdentity, IInv, TasksOK
<1>5. \A i \in Slots : tasks'[i].reaped = tasks[i].reaped
  <2>1. t.reaped = Me(c).reaped
    BY <1>1, Zenon DEF TaskControlBlock
  <2> QED BY <1>1, <1>3, <2>1
<1>6. \A i \in Slots : (tasks'[i].pc = "release") <=> (tasks[i].pc = "release")
  BY <1>1, <1>3
<1>7. Slots' = Slots
  BY <1>3, SameSlots DEF IInv
<1>8. ReceiverAlive'
  <2>1. \A i \in Slots : tasks'[i].state = "Exited" => tasks[i].state = "Exited"
    BY <1>3
  <2>2. \A i \in Slots : tasks'[i].state = "WaitingReply" =>
                \/ tasks[i].state = "WaitingReply" /\ tasks'[i].wait_for = tasks[i].wait_for
                \/ find_live(tasks'[i].wait_for) # {}
    BY <1>3
  <2> QED BY <1>4, <1>7, <2>1, <2>2, AliveStep
<1> QED BY <1>3, <1>4, <1>5, <1>6, <1>8, OnlyTasksStep

(* send_rqb finds its reply when it runs again; it never blocks twice. *)
LEMMA SendResumeStep ==
    ASSUME IInv, NEW c \in Registered, send_rqb_resume(c)
    PROVE  IInv'
<1>1. Me(c).pc = "send_check" /\ Me(c).reply # NoReply
  BY Current DEF send_rqb_resume, At, TaskOK, Yielding
<1> DEFINE t == [Me(c) EXCEPT !.reply = NoReply, !.pc = "run"]
<1>2. tasks' = [tasks EXCEPT ![current_idx(c)] = t] /\ OnlyTasks
  BY <1>1 DEF send_rqb_resume, Me
<1>3. Me(c) \in TaskControlBlock /\ TaskOK(Me(c)) /\ Me(c).on_cpu = c /\ ~Me(c).reaped
      /\ Me(c).state = "Running" /\ c # NoCpu
  BY <1>1, Current DEF Yielding
<1>4. /\ t \in TaskControlBlock
      /\ t.id = Me(c).id /\ t.on_cpu = c /\ t.pinned_cpu = Me(c).pinned_cpu
      /\ t.entry = Me(c).entry /\ ~t.reaped /\ t.pc = "run" /\ t.state = "Running"
      /\ t.reply = NoReply
  BY <1>3, NoReplyType, Zenon DEF TaskControlBlock, Pc
<1>5. TaskOK(t)
  BY <1>1, <1>3, <1>4 DEF TaskOK, Yielding
<1> HIDE DEF t
<1> QED BY <1>1, <1>2, <1>4, <1>5, MeStep, Zenon

(* take_request blocks a task only when its inbox is empty. *)
LEMMA TakeRequestStep ==
    ASSUME IInv, NEW c \in Registered, NEW block \in BOOLEAN,
           Me(c).pc \in {"run", "receive"}, Me(c).entry # "idle",
           take_request(c, block), OnlyTasks
    PROVE  IInv'
<1>1. Me(c) \in TaskControlBlock /\ TaskOK(Me(c)) /\ Me(c).on_cpu = c /\ ~Me(c).reaped
      /\ Me(c).state = "Running" /\ c # NoCpu /\ current_idx(c) \in Slots
  BY Current DEF Yielding
<1>2. CASE Me(c).inbox # <<>>
  <2> DEFINE t == [Me(c) EXCEPT !.inbox = Tail(Me(c).inbox), !.pc = "run"]
  <2>1. tasks' = [tasks EXCEPT ![current_idx(c)] = t]
    BY <1>1, <1>2 DEF take_request, Me
  <2>2. Tail(Me(c).inbox) \in Seq(Nat)
    BY <1>1, <1>2 DEF TaskControlBlock
  <2>3. /\ t \in TaskControlBlock
        /\ t.id = Me(c).id /\ t.on_cpu = c /\ t.pinned_cpu = Me(c).pinned_cpu
        /\ t.entry = Me(c).entry /\ ~t.reaped /\ t.pc = "run" /\ t.state = "Running"
        /\ t.reply = Me(c).reply
    BY <1>1, <2>2, Zenon DEF TaskControlBlock, Pc
  <2>4. TaskOK(t)
    BY <1>1, <2>3 DEF TaskOK, Yielding
  <2> HIDE DEF t
  <2> QED BY <2>1, <2>3, <2>4, MeStep, Zenon
<1>3. CASE Me(c).inbox = <<>> /\ block
  <2> DEFINE t == [Me(c) EXCEPT !.state = "WaitingRqb", !.pc = "receive_yield"]
  <2>1. tasks' = [tasks EXCEPT ![current_idx(c)] = t]
    BY <1>1, <1>3 DEF take_request, Me
  <2>2. /\ t \in TaskControlBlock
        /\ t.id = Me(c).id /\ t.on_cpu = c /\ t.pinned_cpu = Me(c).pinned_cpu
        /\ t.entry = Me(c).entry /\ ~t.reaped
        /\ t.pc = "receive_yield" /\ t.state = "WaitingRqb"
        /\ t.reply = Me(c).reply /\ t.inbox = <<>>
    BY <1>1, <1>3, Zenon DEF TaskControlBlock, Pc, TaskState
  <2>3. TaskOK(t)
    BY <1>1, <2>2 DEF TaskOK, Yielding
  <2> HIDE DEF t
  <2> QED BY <2>1, <2>2, <2>3, MeStep, Zenon
<1>4. CASE Me(c).inbox = <<>> /\ ~block
  <2>1. tasks' = [tasks EXCEPT ![current_idx(c)] = Me(c)]
    BY <1>1, <1>4 DEF take_request, Me
  <2> QED BY <1>1, <2>1, MeStep, Zenon
<1> QED BY <1>2, <1>3, <1>4

(* The three parts of sleep_ms. *)
LEMMA SleepStep ==
    ASSUME IInv, NEW c \in Registered,
           \/ \E ticks \in 1..MaxSleep : sleep_ms(c, ticks)
           \/ SleepTest(c)
           \/ sleep_until(c)
    PROVE  IInv'
<1>1. Me(c) \in TaskControlBlock /\ TaskOK(Me(c)) /\ Me(c).on_cpu = c /\ ~Me(c).reaped
      /\ c # NoCpu /\ current_idx(c) \in Slots
      /\ (Me(c).pc \notin Yielding => Me(c).state = "Running")
  BY Current
<1>2. ASSUME NEW ticks \in 1..MaxSleep, sleep_ms(c, ticks)
      PROVE  IInv'
  <2> DEFINE t == [Me(c) EXCEPT !.wake_tick = ticks, !.pc = "sleep_test"]
  <2>1. tasks' = [tasks EXCEPT ![current_idx(c)] = t] /\ OnlyTasks
        /\ Me(c).pc = "run" /\ Me(c).entry # "idle"
    BY <1>1, <1>2, Zenon DEF sleep_ms, Me, CallsKernel, At
  <2>2. /\ t \in TaskControlBlock
        /\ t.id = Me(c).id /\ t.on_cpu = c /\ t.pinned_cpu = Me(c).pinned_cpu
        /\ t.entry = Me(c).entry /\ ~t.reaped /\ t.pc = "sleep_test"
        /\ t.reply = Me(c).reply /\ t.state = Me(c).state
    <3>1. ticks \in Nat
      BY BoundsAssumption
    <3> QED BY <1>1, <3>1, Zenon DEF TaskControlBlock, Pc
  <2>3. TaskOK(t) /\ t.state = "Running"
    BY <1>1, <2>1, <2>2 DEF TaskOK, Yielding
  <2> HIDE DEF t
  <2> QED BY <2>1, <2>2, <2>3, MeStep, Zenon
<1>3. ASSUME SleepTest(c) PROVE IInv'
  <2> DEFINE pc == IF Me(c).wake_tick > 0 THEN "sleep"
                   ELSE IF Me(c).entry = "reaper" THEN "collect" ELSE "run"
  <2>0. tasks' = [tasks EXCEPT ![current_idx(c)].pc = pc]
    BY <1>3 DEF SleepTest
  <2>1. pc \in {"sleep", "collect", "run"} /\ (pc = "collect" => Me(c).entry = "reaper")
    OBVIOUS
  <2> HIDE DEF pc
  <2> DEFINE t == [Me(c) EXCEPT !.pc = pc]
  <2>2. tasks' = [tasks EXCEPT ![current_idx(c)] = t] /\ OnlyTasks /\ Me(c).pc = "sleep_test"
    BY <1>1, <1>3, <2>0, Zenon DEF SleepTest, Me, At
  <2>3. /\ t \in TaskControlBlock
        /\ t.id = Me(c).id /\ t.on_cpu = c /\ t.pinned_cpu = Me(c).pinned_cpu
        /\ t.entry = Me(c).entry /\ ~t.reaped /\ t.pc = pc
        /\ t.reply = Me(c).reply /\ t.state = Me(c).state
    BY <1>1, <2>1, Zenon DEF TaskControlBlock, Pc
  <2>4. TaskOK(t) /\ t.state = "Running"
    BY <1>1, <2>1, <2>2, <2>3 DEF TaskOK, Yielding
  <2> HIDE DEF t
  <2> QED BY <2>1, <2>2, <2>3, <2>4, MeStep, Zenon
<1>4. ASSUME sleep_until(c) PROVE IInv'
  <2> DEFINE t == [Me(c) EXCEPT !.state = "Sleeping", !.pc = "sleep_yield"]
  <2>1. tasks' = [tasks EXCEPT ![current_idx(c)] = t] /\ OnlyTasks /\ Me(c).pc = "sleep"
    BY <1>1, <1>4 DEF sleep_until, Me, At
  <2>2. /\ t \in TaskControlBlock
        /\ t.id = Me(c).id /\ t.on_cpu = c /\ t.pinned_cpu = Me(c).pinned_cpu
        /\ t.entry = Me(c).entry /\ ~t.reaped /\ t.pc = "sleep_yield"
        /\ t.reply = Me(c).reply /\ t.state = "Sleeping"
    BY <1>1, Zenon DEF TaskControlBlock, Pc, TaskState
  <2>3. TaskOK(t)
    BY <1>1, <2>1, <2>2 DEF TaskOK, Yielding
  <2> HIDE DEF t
  <2> QED BY <2>1, <2>2, <2>3, MeStep, Zenon
<1> QED BY <1>2, <1>3, <1>4

-----------------------------------------------------------------------------
(* Boot *)

(* scheduler::start turns the boot context into CPU 0's idle task. *)
LEMMA StartStep ==
    ASSUME IInv, NEW c \in Registered, start(c)
    PROVE  IInv'
<1> DEFINE me == current_idx(c)
           t == [Me(c) EXCEPT !.pc = "idle"]
<1>1. /\ me \in Slots /\ tasks[me] = Me(c) /\ Me(c) \in TaskControlBlock
      /\ TaskOK(Me(c)) /\ Me(c).pc = "boot"
  BY Current DEF Me, start, At
<1>2. tasks \in [Slots -> TaskControlBlock]
  BY TableFun DEF IInv
<1>3. /\ t \in TaskControlBlock
      /\ t.id = Me(c).id /\ t.on_cpu = Me(c).on_cpu /\ t.pinned_cpu = Me(c).pinned_cpu
      /\ t.entry = Me(c).entry /\ t.reaped = Me(c).reaped /\ t.pc = "idle"
      /\ t.reply = Me(c).reply /\ t.state = Me(c).state /\ t.wait_for = Me(c).wait_for
      /\ t.inbox = Me(c).inbox
  BY <1>1 DEF TaskControlBlock, Pc
<1>4. TaskOK(t)
  BY <1>1, <1>3 DEF TaskOK, Yielding
<1>5. tasks' = [tasks EXCEPT ![me] = t]
  BY <1>1, <1>2 DEF start
<1> HIDE DEF t, me
<1>6. /\ tasks' \in [Slots -> TaskControlBlock]
      /\ tasks'[me] = t
      /\ \A i \in Slots : i # me => tasks'[i] = tasks[i]
  BY <1>1, <1>2, <1>3, <1>5
<1>7. \A i \in Slots : SameIdentity(i) /\ TaskOK(tasks'[i])
  BY <1>1, <1>3, <1>4, <1>6 DEF SameIdentity, IInv, TasksOK
<1>8. \A i \in Slots : /\ tasks'[i].reaped = tasks[i].reaped
                       /\ (tasks'[i].pc = "release") <=> (tasks[i].pc = "release")
                       /\ tasks'[i].state = tasks[i].state
                       /\ tasks'[i].wait_for = tasks[i].wait_for
  BY <1>1, <1>3, <1>6
<1>9. /\ Slots' = Slots /\ Registered' = Registered
      /\ TypeOK' /\ TasksOK' /\ IdsOK' /\ IdleOK' /\ OneCpuPerTask' /\ StackOK'
  BY <1>6, <1>7, TableStep, Zenon DEF start, IInv, TypeOK
<1>10. ReceiverAlive'
  BY <1>7, <1>8, <1>9, AliveStep
<1>11. FreedOK' /\ ReaperOK'
  BY <1>7, <1>8, <1>9 DEF IInv, FreedOK, ReaperOK, SameIdentity, start
<1> QED BY <1>9, <1>10, <1>11 DEF IInv

-----------------------------------------------------------------------------
(* IPC *)

(* post_request wakes the receiver and blocks the sender on a live task. *)
LEMMA SendStep ==
    ASSUME IInv, NEW c \in Registered, NEW receiver \in Nat, send_rqb(c, receiver)
    PROVE  IInv'
<1> DEFINE me == current_idx(c)
<1>1. /\ me \in Slots /\ tasks[me] = Me(c) /\ Me(c) \in TaskControlBlock
      /\ TaskOK(Me(c)) /\ Me(c).on_cpu = c /\ ~Me(c).reaped
      /\ Me(c).pc = "run" /\ Me(c).state = "Running" /\ Me(c).entry \in {"kernel", "user"}
      /\ OnlyTasks /\ c # NoCpu
  BY Current DEF Me, send_rqb, CallsKernel, At, Yielding
<1>2. tasks \in [Slots -> TaskControlBlock]
  BY TableFun DEF IInv
<1> DEFINE t == [Me(c) EXCEPT !.state = "WaitingReply", !.wait_for = receiver,
                              !.reply = NoReply, !.pc = "send_yield"]
<1>3. PICK ri \in find_live(receiver) :
        /\ receiver # Me(c).id
        /\ tasks' = [tasks EXCEPT
                       ![ri] = make_ready(Queued(@, Me(c).id), "WaitingRqb"),
                       ![me] = [@ EXCEPT !.state = "WaitingReply",
                                         !.wait_for = receiver,
                                         !.reply = NoReply,
                                         !.pc = "send_yield"]]
  BY Zenon DEF send_rqb, post_request
<1> DEFINE r == make_ready(Queued(tasks[ri], Me(c).id), "WaitingRqb")
<1>4. ri \in Slots /\ tasks[ri].id = receiver /\ tasks[ri].state # "Exited" /\ ri # me
  BY <1>1, <1>3 DEF find_live
<1>5. tasks' = [tasks EXCEPT ![ri] = r, ![me] = t]
  BY <1>1, <1>2, <1>3, <1>4
<1>6. /\ t \in TaskControlBlock
      /\ t.id = Me(c).id /\ t.on_cpu = c /\ t.pinned_cpu = Me(c).pinned_cpu
      /\ t.entry = Me(c).entry /\ t.reaped = Me(c).reaped /\ t.pc = "send_yield"
      /\ t.state = "WaitingReply" /\ t.wait_for = receiver /\ t.reply = NoReply
  BY <1>1, NoReplyType, Zenon DEF TaskControlBlock, Pc, TaskState
<1>7. TaskOK(t)
  BY <1>1, <1>6 DEF TaskOK, Yielding
<1>8. /\ r \in TaskControlBlock
      /\ r.id = tasks[ri].id /\ r.on_cpu = tasks[ri].on_cpu
      /\ r.pinned_cpu = tasks[ri].pinned_cpu /\ r.entry = tasks[ri].entry
      /\ r.reaped = tasks[ri].reaped /\ r.pc = tasks[ri].pc
      /\ r.wait_for = tasks[ri].wait_for /\ r.reply = tasks[ri].reply
      /\ r.state = IF tasks[ri].state = "WaitingRqb" THEN "Ready" ELSE tasks[ri].state
  <2>1. tasks[ri] \in TaskControlBlock /\ Me(c).id \in Nat
    BY <1>1, <1>2, <1>4 DEF TaskControlBlock
  <2>2. Append(tasks[ri].inbox, Me(c).id) \in Seq(Nat)
    BY <2>1 DEF TaskControlBlock
  <2> QED BY <2>1, <2>2, Zenon DEF TaskControlBlock, TaskState, make_ready, Queued
<1> HIDE DEF r, t, me
<1>9. TaskOK(r)
  <2>1. TaskOK(tasks[ri])
    BY <1>4 DEF IInv, TasksOK
  <2> QED BY <1>8, <2>1, Zenon DEF TaskOK, Yielding
<1>10. /\ tasks' \in [Slots -> TaskControlBlock]
       /\ tasks'[me] = t /\ tasks'[ri] = r
       /\ \A i \in Slots : i # me /\ i # ri => tasks'[i] = tasks[i]
  BY <1>1, <1>2, <1>4, <1>5, <1>6, <1>8
<1>11. \A i \in Slots : SameIdentity(i) /\ TaskOK(tasks'[i])
  BY <1>1, <1>6, <1>7, <1>8, <1>9, <1>10 DEF SameIdentity, IInv, TasksOK
<1>12. \A i \in Slots : /\ tasks'[i].reaped = tasks[i].reaped
                        /\ (tasks'[i].pc = "release") <=> (tasks[i].pc = "release")
  BY <1>1, <1>6, <1>8, <1>10
<1>13. Slots' = Slots
  BY <1>10, SameSlots DEF IInv
<1>14. ReceiverAlive'
  <2>1. \A i \in Slots : tasks'[i].state = "Exited" => tasks[i].state = "Exited"
    BY <1>6, <1>8, <1>10
  <2>2. find_live(receiver) # {}
    BY <1>3
  <2>3. \A i \in Slots : tasks'[i].state = "WaitingReply" =>
                \/ tasks[i].state = "WaitingReply" /\ tasks'[i].wait_for = tasks[i].wait_for
                \/ find_live(tasks'[i].wait_for) # {}
    BY <1>6, <1>8, <1>10, <2>2
  <2> QED BY <1>11, <1>13, <2>1, <2>3, AliveStep
<1> QED BY <1>1, <1>10, <1>11, <1>12, <1>14, OnlyTasksStep

(* Filling the reply slot of a blocked sender makes it Ready with a reply   *)
(* from the task it waits for.                                             *)
LEMMA RepliedOK ==
    ASSUME NEW t \in TaskControlBlock, TaskOK(t), NEW from \in Nat \ {0},
           NEW status \in {"Answer", "Aborted"}, AwaitsReplyFrom(t, from)
    PROVE  LET r == make_ready(Replied(t, from, status), "WaitingReply")
           IN  /\ r \in TaskControlBlock /\ TaskOK(r)
               /\ r.id = t.id /\ r.on_cpu = t.on_cpu /\ r.pinned_cpu = t.pinned_cpu
               /\ r.entry = t.entry /\ r.reaped = t.reaped /\ r.pc = t.pc
               /\ r.state = "Ready"
<1> DEFINE r == make_ready(Replied(t, from, status), "WaitingReply")
           m == [from |-> from, status |-> status]
<1>1. m \in Reply /\ m # NoReply /\ m.from = from
  BY DEF Reply, NoReply
<1> HIDE DEF m
<1>2. r = [[t EXCEPT !.reply = m] EXCEPT !.state = "Ready"]
  BY DEF make_ready, Replied, AwaitsReplyFrom, m, TaskControlBlock
<1>3. /\ r \in TaskControlBlock
      /\ r.id = t.id /\ r.on_cpu = t.on_cpu /\ r.pinned_cpu = t.pinned_cpu
      /\ r.entry = t.entry /\ r.reaped = t.reaped /\ r.pc = t.pc
      /\ r.state = "Ready" /\ r.reply = m /\ r.wait_for = t.wait_for
  BY <1>1, <1>2, Zenon DEF TaskControlBlock, TaskState
<1> HIDE DEF r
<1>4. TaskOK(r)
  BY <1>1, <1>3 DEF TaskOK, AwaitsReplyFrom, Yielding
<1> QED BY <1>3, <1>4 DEF r

(* reply_rqb touches only the sender it answers. *)
LEMMA ReplyStep ==
    ASSUME IInv, NEW c \in Registered, NEW sender \in Nat, reply_rqb(c, sender)
    PROVE  IInv'
<1>1. Me(c) \in TaskControlBlock /\ OnlyTasks
  BY Current DEF reply_rqb
<1>2. tasks \in [Slots -> TaskControlBlock]
  BY TableFun DEF IInv
<1>3. PICK si \in find_live(sender) :
        /\ AwaitsReplyFrom(tasks[si], Me(c).id)
        /\ tasks' = [tasks EXCEPT ![si] =
                       make_ready(Replied(@, Me(c).id, "Answer"), "WaitingReply")]
  BY Zenon DEF reply_rqb, post_reply
<1> DEFINE r == make_ready(Replied(tasks[si], Me(c).id, "Answer"), "WaitingReply")
<1>4. si \in Slots /\ tasks[si] \in TaskControlBlock /\ TaskOK(tasks[si])
  BY <1>2, <1>3 DEF find_live, IInv, TasksOK
<1>5. Me(c).id \in Nat \ {0}
  BY <1>1 DEF TaskControlBlock
<1>6. /\ r \in TaskControlBlock /\ TaskOK(r)
      /\ r.id = tasks[si].id /\ r.on_cpu = tasks[si].on_cpu
      /\ r.pinned_cpu = tasks[si].pinned_cpu /\ r.entry = tasks[si].entry
      /\ r.reaped = tasks[si].reaped /\ r.pc = tasks[si].pc /\ r.state = "Ready"
  BY <1>3, <1>4, <1>5, RepliedOK
<1>7. tasks' = [tasks EXCEPT ![si] = r]
  BY <1>3, <1>4
<1> HIDE DEF r
<1>8. /\ tasks' \in [Slots -> TaskControlBlock]
      /\ tasks'[si] = r
      /\ \A i \in Slots : i # si => tasks'[i] = tasks[i]
  BY <1>2, <1>4, <1>6, <1>7
<1>9. \A i \in Slots : SameIdentity(i) /\ TaskOK(tasks'[i])
  BY <1>6, <1>8 DEF SameIdentity, IInv, TasksOK
<1>10. \A i \in Slots : /\ tasks'[i].reaped = tasks[i].reaped
                        /\ (tasks'[i].pc = "release") <=> (tasks[i].pc = "release")
  BY <1>6, <1>8
<1>11. Slots' = Slots
  BY <1>8, SameSlots DEF IInv
<1>12. ReceiverAlive'
  <2>1. \A i \in Slots : tasks'[i].state = "Exited" => tasks[i].state = "Exited"
    BY <1>6, <1>8
  <2>2. \A i \in Slots : tasks'[i].state = "WaitingReply" =>
                tasks[i].state = "WaitingReply" /\ tasks'[i].wait_for = tasks[i].wait_for
    BY <1>6, <1>8
  <2> QED BY <1>9, <1>11, <2>1, <2>2, AliveStep
<1> QED BY <1>1, <1>8, <1>9, <1>10, <1>12, OnlyTasksStep

(* An exiting task leaves no waiter behind. *)
LEMMA ExitStep ==
    ASSUME IInv, NEW c \in Registered, exit_current(c)
    PROVE  IInv'
<1> DEFINE me == current_idx(c)
           t == [Me(c) EXCEPT !.state = "Exited", !.inbox = <<>>, !.pc = "exit_yield"]
           W(i) == AwaitsReplyFrom(tasks[i], Me(c).id)
           r(i) == make_ready(Replied(tasks[i], Me(c).id, "Aborted"), "WaitingReply")
<1>1. /\ me \in Slots /\ tasks[me] = Me(c) /\ Me(c) \in TaskControlBlock
      /\ TaskOK(Me(c)) /\ Me(c).on_cpu = c /\ ~Me(c).reaped
      /\ Me(c).pc = "run" /\ Me(c).state = "Running" /\ Me(c).entry \in {"kernel", "user"}
      /\ OnlyTasks /\ c # NoCpu
  BY Current DEF Me, exit_current, CallsKernel, At, Yielding
<1>2. tasks \in [Slots -> TaskControlBlock]
  BY TableFun DEF IInv
<1>3. tasks' = [i \in Slots |-> IF i = me THEN t ELSE IF W(i) THEN r(i) ELSE tasks[i]]
  BY <1>1, Zenon DEF exit_current, mark_exited
<1>4. /\ t \in TaskControlBlock
      /\ t.id = Me(c).id /\ t.on_cpu = c /\ t.pinned_cpu = Me(c).pinned_cpu
      /\ t.entry = Me(c).entry /\ t.reaped = Me(c).reaped /\ t.pc = "exit_yield"
      /\ t.state = "Exited" /\ t.wait_for = Me(c).wait_for /\ t.reply = Me(c).reply
  BY <1>1, EmptySeq, Zenon DEF TaskControlBlock, Pc, TaskState
<1>5. TaskOK(t)
  BY <1>1, <1>4 DEF TaskOK, Yielding
<1>6. \A i \in Slots : W(i) =>
        /\ r(i) \in TaskControlBlock /\ TaskOK(r(i))
        /\ r(i).id = tasks[i].id /\ r(i).on_cpu = tasks[i].on_cpu
        /\ r(i).pinned_cpu = tasks[i].pinned_cpu /\ r(i).entry = tasks[i].entry
        /\ r(i).reaped = tasks[i].reaped /\ r(i).pc = tasks[i].pc /\ r(i).state = "Ready"
  <2>1. Me(c).id \in Nat \ {0}
    BY <1>1 DEF TaskControlBlock
  <2>2. \A i \in Slots : tasks[i] \in TaskControlBlock /\ TaskOK(tasks[i])
    BY <1>2 DEF IInv, TasksOK
  <2> QED BY <2>1, <2>2, RepliedOK
<1> HIDE DEF me, t, r
<1>7. /\ tasks' \in [Slots -> TaskControlBlock]
      /\ tasks'[me] = t
      /\ \A i \in Slots : i # me /\ W(i) => tasks'[i] = r(i)
      /\ \A i \in Slots : i # me /\ ~W(i) => tasks'[i] = tasks[i]
  BY <1>1, <1>2, <1>3, <1>4, <1>6
<1>8. \A i \in Slots : SameIdentity(i) /\ TaskOK(tasks'[i])
  BY <1>1, <1>4, <1>5, <1>6, <1>7 DEF SameIdentity, IInv, TasksOK
<1>9. \A i \in Slots : /\ tasks'[i].reaped = tasks[i].reaped
                       /\ (tasks'[i].pc = "release") <=> (tasks[i].pc = "release")
  BY <1>1, <1>4, <1>6, <1>7
<1>10. Slots' = Slots
  BY <1>7, SameSlots DEF IInv
<1>11. ReceiverAlive'
  <2> SUFFICES ASSUME NEW i \in Slots, tasks'[i].state = "WaitingReply"
               PROVE  find_live(tasks[i].wait_for)' # {} /\ tasks'[i] = tasks[i]
    BY <1>10 DEF ReceiverAlive
  <2>1. i # me /\ ~W(i) /\ tasks'[i] = tasks[i]
    BY <1>4, <1>6, <1>7
  <2>2. tasks[i].state = "WaitingReply" /\ tasks[i].reply = NoReply
    BY <2>1 DEF IInv, TasksOK, TaskOK
  <2>3. tasks[i].wait_for # Me(c).id
    BY <2>1, <2>2 DEF AwaitsReplyFrom
  <2>4. PICK j \in Slots : tasks[j].id = tasks[i].wait_for /\ tasks[j].state # "Exited"
    BY <2>2 DEF IInv, ReceiverAlive, find_live
  <2>5. j # me
    BY <1>1, <2>3, <2>4
  <2>6. tasks'[j].id = tasks[i].wait_for /\ tasks'[j].state # "Exited"
    BY <1>6, <1>7, <2>4, <2>5
  <2> QED BY <1>10, <2>1, <2>4, <2>6 DEF find_live
<1> QED BY <1>1, <1>7, <1>8, <1>9, <1>11, OnlyTasksStep

=============================================================================
