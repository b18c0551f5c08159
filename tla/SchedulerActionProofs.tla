----------------------- MODULE SchedulerActionProofs ------------------------
(***************************************************************************)
(* Proofs about Scheduler, part 5: what a step may never do to a task that *)
(* has exited, or to a reply that has been delivered.                      *)
(***************************************************************************)
EXTENDS SchedulerProofs

(* What a step makes of an exited task t, which it leaves as u. *)
StaysOff(t, u) ==
    t.state = "Exited" /\ t.on_cpu = NoCpu =>
      \/ u.id = t.id /\ u.state = "Exited" /\ u.on_cpu = NoCpu
      \/ t.reaped /\ u.id = next_id

(* What a step makes of a task t with a reply, which it leaves as u. *)
KeepsReply(t, u) ==
    t.reply # NoReply =>
      \/ u.reply = t.reply
      \/ t.pc = "send_check" /\ t.state = "Running" /\ u.pc = "run"

Kept(i) == StaysOff(tasks[i], tasks'[i]) /\ KeepsReply(tasks[i], tasks'[i])

-----------------------------------------------------------------------------
(* Steps of the current task *)

(* A slot the step does not write is kept. *)
LEMMA UntouchedKept ==
    ASSUME NEW i, tasks'[i] = tasks[i]
    PROVE  Kept(i)
  BY DEF Kept, StaysOff, KeepsReply

(* A step that writes the current task only, and not its reply, keeps      *)
(* every slot: the current task has not left its CPU.                      *)
LEMMA MeKept ==
    ASSUME IInv, NEW c \in Registered, NEW t,
           tasks' = [tasks EXCEPT ![current_idx(c)] = t],
           KeepsReply(Me(c), t)
    PROVE  \A i \in Slots : Kept(i)
<1> TAKE i \in Slots
<1>1. /\ tasks \in [Slots -> TaskControlBlock]
      /\ Me(c).on_cpu # NoCpu
  BY Current, TableFun DEF IInv
<1>2. CASE i # current_idx(c)
  BY <1>1, <1>2, UntouchedKept
<1>3. CASE i = current_idx(c)
  <2>1. tasks'[i] = t /\ tasks[i] = Me(c)
    BY <1>1, <1>3 DEF Me
  <2> QED BY <1>1, <2>1 DEF Kept, StaysOff
<1> QED BY <1>2, <1>3

(* A task outside send_rqb has no reply to keep. *)
LEMMA NothingToKeep ==
    ASSUME NEW t, NEW u, TaskOK(t), t.pc \notin {"send_yield", "send_check"}
    PROVE  KeepsReply(t, u)
  BY DEF TaskOK, KeepsReply

(* The steps outside send_rqb that write the current task only. *)
LEMMA OwnStepKept ==
    ASSUME IInv, NEW c \in Registered,
           \/ start(c) \/ receive_rqb(c) \/ try_receive_rqb(c)
           \/ \E ticks \in 1..MaxSleep : sleep_ms(c, ticks)
           \/ SleepTest(c) \/ sleep_until(c) \/ release_done(c)
    PROVE  \A i \in Slots : Kept(i)
<1>1. Me(c).pc \notin {"send_yield", "send_check"}
  BY Zenon DEF start, receive_rqb, try_receive_rqb, sleep_ms, SleepTest,
               sleep_until, release_done, CallsKernel, At
<1>2. \A u : KeepsReply(Me(c), u)
  BY <1>1, Current, NothingToKeep
<1>3. \E t : tasks' = [tasks EXCEPT ![current_idx(c)] = t]
  <2>1. CASE start(c)
    BY <2>1, Zenon DEF start
  <2>2. CASE receive_rqb(c) \/ try_receive_rqb(c)
    BY <2>2, Zenon DEF receive_rqb, try_receive_rqb, take_request
  <2>3. CASE \E ticks \in 1..MaxSleep : sleep_ms(c, ticks)
    BY <2>3, Zenon DEF sleep_ms
  <2>4. CASE SleepTest(c)
    BY <2>4, Zenon DEF SleepTest
  <2>5. CASE sleep_until(c)
    BY <2>5, Zenon DEF sleep_until
  <2>6. CASE release_done(c)
    BY <2>6, Zenon DEF release_done
  <2> QED BY <2>1, <2>2, <2>3, <2>4, <2>5, <2>6
<1> QED BY <1>2, <1>3, MeKept

(* send_rqb takes its reply only where it goes on as the running task. *)
LEMMA SendResumeKept ==
    ASSUME IInv, NEW c \in Registered, send_rqb_resume(c)
    PROVE  \A i \in Slots : Kept(i)
<1> DEFINE t == IF Me(c).reply = NoReply
                THEN [Me(c) EXCEPT !.state = "WaitingReply", !.pc = "send_yield"]
                ELSE [Me(c) EXCEPT !.reply = NoReply, !.pc = "run"]
<1>1. Me(c) \in TaskControlBlock /\ Me(c).pc = "send_check" /\ Me(c).state = "Running"
  BY Current DEF send_rqb_resume, At, Yielding
<1>2. tasks' = [tasks EXCEPT ![current_idx(c)] = t]
  BY DEF send_rqb_resume, Me
<1>3. KeepsReply(Me(c), t)
  <2>1. Me(c).reply # NoReply => t.pc = "run"
    BY <1>1 DEF TaskControlBlock
  <2> QED BY <1>1, <2>1 DEF KeepsReply
<1> HIDE DEF t
<1> QED BY <1>2, <1>3, MeKept

-----------------------------------------------------------------------------
(* Steps that write other tasks *)

(* Queueing a request changes neither the receiver's reply nor, as it has  *)
(* not exited, anything StaysOff speaks of; the sender has no reply yet.   *)
LEMMA SendKept ==
    ASSUME IInv, NEW c \in Registered, NEW tid, send_rqb(c, tid)
    PROVE  \A i \in Slots : Kept(i)
<1> DEFINE me == current_idx(c)
           w(t) == make_ready(Queued(t, Me(c).id), "WaitingRqb")
           b(t) == [t EXCEPT !.state = "WaitingReply", !.wait_for = tid,
                             !.reply = NoReply, !.pc = "send_yield"]
<1>1. PICK ri \in find_live(tid) :
        /\ tid # Me(c).id
        /\ tasks' = [tasks EXCEPT ![ri] = w(@), ![me] = b(@)]
  BY Zenon DEF send_rqb, post_request
<1>2. /\ tasks \in [Slots -> TaskControlBlock] /\ me \in Slots /\ tasks[me] = Me(c)
      /\ Me(c).on_cpu # NoCpu /\ TaskOK(Me(c)) /\ Me(c).pc = "run"
  BY Current, TableFun DEF IInv, Me, send_rqb, CallsKernel, At
<1>3. ri \in Slots /\ tasks[ri].state # "Exited" /\ ri # me
  BY <1>1, <1>2 DEF find_live
<1>4. w(tasks[ri]).reply = tasks[ri].reply
  <2>1. tasks[ri] \in TaskControlBlock
    BY <1>2, <1>3
  <2> QED BY <2>1 DEF make_ready, Queued, TaskControlBlock
<1> HIDE DEF w, b, me
<1> TAKE i \in Slots
<1>5. CASE i = ri
  <2>1. tasks'[i] = w(tasks[ri])
    BY <1>1, <1>2, <1>3, <1>5
  <2> QED BY <1>3, <1>4, <1>5, <2>1 DEF Kept, StaysOff, KeepsReply
<1>6. CASE i = me
  BY <1>2, <1>6, NothingToKeep DEF Kept, StaysOff
<1>7. CASE i # ri /\ i # me
  <2>1. tasks'[i] = tasks[i]
    BY <1>1, <1>2, <1>3, <1>7
  <2> QED BY <2>1, UntouchedKept
<1> QED BY <1>5, <1>6, <1>7

(* A reply is written only where there is none. *)
LEMMA ReplyStepKept ==
    ASSUME IInv, NEW c \in Registered, NEW tid, reply_rqb(c, tid)
    PROVE  \A i \in Slots : Kept(i)
<1>1. PICK si \in find_live(tid) :
        /\ AwaitsReplyFrom(tasks[si], Me(c).id)
        /\ tasks' = [tasks EXCEPT ![si] =
                       make_ready(Replied(@, Me(c).id, "Answer"), "WaitingReply")]
  BY Zenon DEF reply_rqb, post_reply
<1>2. /\ tasks \in [Slots -> TaskControlBlock]
      /\ tasks[si].state # "Exited" /\ tasks[si].reply = NoReply
  BY <1>1, TableFun DEF IInv, AwaitsReplyFrom
<1> TAKE i \in Slots
<1>3. CASE i = si
  BY <1>2, <1>3 DEF Kept, StaysOff, KeepsReply
<1>4. CASE i # si
  BY <1>1, <1>2, <1>4, UntouchedKept
<1> QED BY <1>3, <1>4

(* An exiting task aborts only senders without a reply, and has none       *)
(* itself.                                                                 *)
LEMMA ExitKept ==
    ASSUME IInv, NEW c \in Registered, exit_current(c)
    PROVE  \A i \in Slots : Kept(i)
<1> DEFINE a(i) == make_ready(Replied(tasks[i], Me(c).id, "Aborted"), "WaitingReply")
           x(i) == [tasks[i] EXCEPT !.state = "Exited", !.inbox = <<>>, !.pc = "exit_yield"]
<1>1. tasks' = [i \in Slots |-> IF i = current_idx(c) THEN x(i)
                                ELSE IF AwaitsReplyFrom(tasks[i], Me(c).id) THEN a(i)
                                ELSE tasks[i]]
  BY DEF exit_current, mark_exited
<1>2. /\ Me(c).on_cpu # NoCpu /\ TaskOK(Me(c)) /\ Me(c).pc = "run"
  BY Current DEF exit_current, CallsKernel, At
<1> HIDE DEF a, x
<1> TAKE i \in Slots
<1>3. CASE i = current_idx(c)
  BY <1>2, <1>3, NothingToKeep DEF Kept, StaysOff, Me
<1>4. CASE i # current_idx(c) /\ AwaitsReplyFrom(tasks[i], Me(c).id)
  BY <1>4 DEF AwaitsReplyFrom, Kept, StaysOff, KeepsReply
<1>5. CASE i # current_idx(c) /\ ~AwaitsReplyFrom(tasks[i], Me(c).id)
  BY <1>1, <1>5, UntouchedKept
<1> QED BY <1>3, <1>4, <1>5

(* The reaper marks what it takes and leaves it exited. *)
LEMMA CollectKept ==
    ASSUME IInv, NEW c \in Registered, collect_exited(c)
    PROVE  \A i \in Slots : Kept(i)
<1> DEFINE r(i) == [tasks[i] EXCEPT !.reaped = TRUE]
           p(i) == [tasks[i] EXCEPT !.pc = "release"]
<1>1. tasks' = [i \in Slots |-> IF i \in Collected THEN r(i)
                                ELSE IF i = current_idx(c) THEN p(i)
                                ELSE tasks[i]]
  BY DEF collect_exited
<1>2. /\ tasks \in [Slots -> TaskControlBlock]
      /\ Me(c).on_cpu # NoCpu /\ TaskOK(Me(c)) /\ Me(c).pc = "collect"
  BY Current, TableFun DEF IInv, collect_exited, At
<1> TAKE i \in Slots
<1>3. CASE i \in Collected
  <2>1. tasks'[i] = r(i) /\ tasks[i] \in TaskControlBlock
    BY <1>1, <1>2, <1>3
  <2>2. /\ r(i).id = tasks[i].id /\ r(i).state = tasks[i].state
        /\ r(i).on_cpu = tasks[i].on_cpu /\ r(i).reply = tasks[i].reply
    BY <2>1 DEF TaskControlBlock
  <2> HIDE DEF r
  <2> QED BY <2>1, <2>2 DEF Kept, StaysOff, KeepsReply
<1> HIDE DEF r, p
<1>4. CASE i \notin Collected /\ i = current_idx(c)
  BY <1>2, <1>4, NothingToKeep DEF Kept, StaysOff, Me
<1>5. CASE i \notin Collected /\ i # current_idx(c)
  BY <1>1, <1>5, UntouchedKept
<1> QED BY <1>3, <1>4, <1>5

(* A task is created in a new slot or in one the reaper has taken. *)
LEMMA CreateKept ==
    ASSUME IInv, NEW c \in Registered, NEW entry \in Entries, create_task(c, entry)
    PROVE  \A i \in Slots : Kept(i)
<1> DEFINE t == new(next_id, entry)
<1>1. t \in TaskControlBlock /\ t.id = next_id
  <2>1. next_id \in Nat \ {0}
    BY DEF IInv, TypeOK
  <2>2. entry \in Entry \ {"idle"}
    BY BoundsAssumption DEF Entry
  <2> QED BY <2>1, <2>2, NewOK
<1>2. add_task(t)
  BY DEF create_task
<1> HIDE DEF t
<1>3. PICK k \in Nat :
        /\ tasks'[k] = t
        /\ \A i \in Slots : i # k => tasks'[i] = tasks[i]
        /\ k \in Slots => tasks[k].state = "Exited" /\ tasks[k].reaped
  BY <1>1, <1>2, AddTask
<1> TAKE i \in Slots
<1>4. CASE i = k
  <2>1. tasks[i].reaped /\ tasks'[i].id = next_id
    BY <1>1, <1>3, <1>4
  <2>2. TaskOK(tasks[i]) /\ tasks[i].pc = "exit_yield"
    BY <1>3, <1>4 DEF IInv, TasksOK, TaskOK
  <2> QED BY <2>1, <2>2, NothingToKeep DEF Kept, StaysOff
<1>5. CASE i # k
  BY <1>3, <1>5, UntouchedKept
<1> QED BY <1>4, <1>5

-----------------------------------------------------------------------------
(* The context switch *)

(* on_tick touches no reply, and picks no exited task. *)
LEMMA OnTickKept ==
    ASSUME IInv, NEW c \in Registered, NEW timer \in BOOLEAN,
           NEW pc, Resumes(Me(c).pc, pc), on_tick(c, timer, pc)
    PROVE  \A i \in Slots : Kept(i)
<1> DEFINE s == Saved(c, timer, pc)
<1>1. /\ s \in [Slots -> TaskControlBlock]
      /\ \A i \in Slots :
           /\ s[i].id = tasks[i].id
           /\ s[i].on_cpu = IF i = current_idx(c) THEN NoCpu ELSE tasks[i].on_cpu
           /\ (s[i].state = "Exited") <=> (tasks[i].state = "Exited")
  BY SavedOK
<1>2. \A i \in Slots : s[i].reply = tasks[i].reply
  <2> TAKE i \in Slots
  <2> DEFINE aged == IF timer /\ c = BootCpu THEN Aged(tasks[i]) ELSE tasks[i]
             woken == Woken(aged)
  <2>1. tasks[i] \in TaskControlBlock /\ TaskOK(tasks[i])
    BY TableFun DEF IInv, TasksOK
  <2>2. aged \in TaskControlBlock /\ aged.reply = tasks[i].reply
    <3>1. Aged(tasks[i]) \in TaskControlBlock
      BY <2>1, AgedOK
    <3>2. Aged(tasks[i]).reply = tasks[i].reply
      BY <2>1, Zenon DEF Aged, TaskControlBlock
    <3> QED BY <2>1, <3>1, <3>2
  <2> HIDE DEF aged
  <2>3. woken \in TaskControlBlock /\ woken.reply = tasks[i].reply
    BY <2>2 DEF Woken, TaskControlBlock, TaskState
  <2>4. s[i] = IF i = current_idx(c) THEN SwitchedOut(woken, pc) ELSE woken
    BY DEF Saved, aged
  <2> HIDE DEF woken, s
  <2>5. SwitchedOut(woken, pc).reply = woken.reply
    BY <2>3 DEF SwitchedOut, TaskControlBlock
  <2> QED BY <2>3, <2>4, <2>5
<1>3. PICK next \in pick_next(s, c) : tasks' = [s EXCEPT ![next] = SwitchedIn(@, c)]
  BY Zenon DEF on_tick
<1>4. next \in Slots /\ s[next].state = "Ready"
  BY PickOK
<1> HIDE DEF s
<1> TAKE i \in Slots
<1>5. CASE i = next
  <2>1. tasks'[i] = SwitchedIn(s[i], c) /\ s[i] \in TaskControlBlock
    BY <1>1, <1>3, <1>4, <1>5
  <2>2. tasks'[i].reply = tasks[i].reply
    BY <1>2, <2>1 DEF SwitchedIn, TaskControlBlock
  <2>3. tasks[i].state # "Exited"
    BY <1>1, <1>4, <1>5
  <2> QED BY <2>2, <2>3 DEF Kept, StaysOff, KeepsReply
<1>6. CASE i # next
  <2>1. tasks'[i] = s[i]
    BY <1>1, <1>3, <1>6
  <2> QED BY <1>1, <1>2, <2>1 DEF Kept, StaysOff, KeepsReply
<1> QED BY <1>5, <1>6

(* The same for every way into on_tick. *)
LEMMA SwitchKept ==
    ASSUME IInv, NEW c \in Registered,
           YieldNow(c) \/ yield_now(c) \/ \E timer \in BOOLEAN : Interrupt(c, timer)
    PROVE  \A i \in Slots : Kept(i)
<1>1. CASE YieldNow(c) \/ yield_now(c)
  <2>1. PICK pc : Resumes(Me(c).pc, pc) /\ Yield(c, pc)
    BY <1>1 DEF YieldNow, yield_now, At, CallsKernel, Resumes
  <2> QED BY <2>1, OnTickKept, Zenon DEF Yield
<1>2. CASE \E timer \in BOOLEAN : Interrupt(c, timer)
  <2>1. PICK timer \in BOOLEAN : Interrupt(c, timer)
    BY <1>2
  <2>2. Resumes(Me(c).pc, Me(c).pc)
    BY DEF Resumes
  <2> QED BY <2>1, <2>2, OnTickKept DEF Interrupt
<1> QED BY <1>1, <1>2

-----------------------------------------------------------------------------
(* Theorems *)

(* Every step of the kernel keeps every slot, in the sense above. *)
LEMMA NextKept ==
    ASSUME IInv, [Next]_vars
    PROVE  \A i \in Slots : Kept(i)
<1>1. CASE tasks' = tasks
  BY <1>1, UntouchedKept
<1>2. ASSUME NEW c \in Cpus, register_ap(c) PROVE \A i \in Slots : Kept(i)
  <2>1. tasks' = Append(tasks, adopt_current(next_id, c, "idle"))
    BY <1>2 DEF register_ap, register_cpu
  <2>2. Len(tasks) \in Nat /\ Slots = 1..Len(tasks) /\ tasks \in Seq(TaskControlBlock)
    BY TableFun DEF IInv, TypeOK
  <2>3. adopt_current(next_id, c, "idle") \in TaskControlBlock
    BY AdoptOK DEF IInv, TypeOK
  <2>4. \A i \in Slots : tasks'[i] = tasks[i]
    BY <2>1, <2>2, <2>3, AppendProperties
  <2> QED BY <2>4, UntouchedKept
<1>3. ASSUME NEW c \in Registered, CpuStep(c) PROVE \A i \in Slots : Kept(i)
  <2>1. CASE \/ SwitchStack(c) \/ scheduler_unlock(c)
             \/ \E id \in batch : release(c, id)
             \/ \E tid \in 0..next_id : \/ send_rqb_refused(c, tid)
                                        \/ reply_rqb_refused(c, tid)
    BY <1>1, <2>1 DEF SwitchStack, scheduler_unlock, release, send_rqb_refused,
                      reply_rqb_refused, vars
  <2>2. CASE YieldNow(c) \/ yield_now(c) \/ \E timer \in BOOLEAN : Interrupt(c, timer)
    BY <2>2, SwitchKept
  <2>3. CASE send_rqb_resume(c)
    BY <2>3, SendResumeKept
  <2>4. CASE \/ start(c) \/ receive_rqb(c) \/ try_receive_rqb(c)
             \/ \E ticks \in 1..MaxSleep : sleep_ms(c, ticks)
             \/ SleepTest(c) \/ sleep_until(c) \/ release_done(c)
    BY <2>4, OwnStepKept
  <2>5. CASE collect_exited(c)
    BY <2>5, CollectKept
  <2>6. CASE \E entry \in Entries : create_task(c, entry)
    BY <2>6, CreateKept
  <2>7. CASE exit_current(c)
    BY <2>7, ExitKept
  <2>8. CASE \E tid \in 0..next_id : send_rqb(c, tid)
    BY <2>8, SendKept
  <2>9. CASE \E tid \in 0..next_id : reply_rqb(c, tid)
    BY <2>9, ReplyStepKept
  <2> QED BY <1>3, <2>1, <2>2, <2>3, <2>4, <2>5, <2>6, <2>7, <2>8, <2>9
          DEF CpuStep, KernelStep, TaskCall
<1> QED BY <1>1, <1>2, <1>3 DEF Next, vars

(* A task that has exited and left its CPU is never run again, and its     *)
(* slot goes to a new task only after the reaper has taken it, whatever    *)
(* the CPUs, wakeups and the reaper do in between (exit_current,           *)
(* collect_exited, add_task).                                              *)
THEOREM ExitIsFinal == Spec => ExitedStaysOff
<1> DEFINE A == \A i \in Slots :
         tasks[i].state = "Exited" /\ tasks[i].on_cpu = NoCpu =>
           \/ /\ tasks'[i].id = tasks[i].id
              /\ tasks'[i].state = "Exited"
              /\ tasks'[i].on_cpu = NoCpu
           \/ tasks[i].reaped /\ tasks'[i].id = next_id
<1>1. IInv /\ [Next]_vars => [A]_vars
  BY NextKept DEF Kept, StaysOff
<1> QED BY <1>1, Invariance, PTL DEF Spec, ExitedStaysOff

(* A reply stays in its slot until its sender, running again, takes it: no *)
(* second reply and no exit of the receiver overwrites it (post_reply,     *)
(* mark_exited, send_rqb).                                                 *)
THEOREM ReplyNotOverwritten == Spec => ReplyKept
<1> DEFINE A == \A i \in Slots :
         tasks[i].reply # NoReply =>
           \/ tasks'[i].reply = tasks[i].reply
           \/ /\ tasks[i].pc = "send_check"
              /\ tasks[i].state = "Running"
              /\ tasks'[i].pc = "run"
<1>1. IInv /\ [Next]_vars => [A]_vars
  BY NextKept DEF Kept, KeepsReply
<1> QED BY <1>1, Invariance, PTL DEF Spec, ReplyKept

=============================================================================
