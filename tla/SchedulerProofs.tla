--------------------------- MODULE SchedulerProofs --------------------------
(***************************************************************************)
(* Proofs about Scheduler, part 4: the steps of the reaper, the invariance *)
(* of IInv, and the theorems, for any number of CPUs and tasks.            *)
(***************************************************************************)
EXTENDS SchedulerSwitchProofs

-----------------------------------------------------------------------------
(* The reaper *)

(* REAPING and the batch are empty whenever the reaper collects. *)
LEMMA NothingHeld ==
    ASSUME IInv, NEW c \in Registered, At(c, "collect")
    PROVE  batch = {} /\ REAPING = 0 /\ Me(c).entry = "reaper"
<1>1. current_idx(c) \in Slots /\ Me(c).entry = "reaper" /\ Me(c).pc = "collect"
  BY Current DEF At, TaskOK
<1>2. ~ \E i \in Slots : tasks[i].pc = "release"
  BY <1>1 DEF IInv, TasksOK, TaskOK, ReaperOK, Me
<1>3. batch = {}
  BY <1>2 DEF IInv, ReaperOK
<1> QED BY <1>1, <1>3, FS_EmptySet DEF IInv, ReaperOK

(* A set of slots has as many ids as slots. *)
LEMMA IdCount ==
    ASSUME IInv, NEW S \in SUBSET Slots
    PROVE  /\ IsFiniteSet(S)
           /\ IsFiniteSet({tasks[i].id : i \in S})
           /\ Cardinality({tasks[i].id : i \in S}) = Cardinality(S)
<1> DEFINE T == {tasks[i].id : i \in S}
           f == [i \in S |-> tasks[i].id]
<1>1. IsFiniteSet(Slots)
  BY TableFun, FS_Interval DEF IInv
<1>2. IsFiniteSet(S)
  BY <1>1, FS_Subset
<1>3. f \in Bijection(S, T)
  <2>1. f \in [S -> T]
    OBVIOUS
  <2>2. \A i, j \in S : f[i] = f[j] => i = j
    BY DEF IInv, IdsOK
  <2>3. \A t \in T : \E i \in S : f[i] = t
    OBVIOUS
  <2> HIDE DEF f, T
  <2> QED BY <2>1, <2>2, <2>3 DEF Bijection, Injection, Surjection, IsInjective
<1> HIDE DEF f, T
<1>4. ExistsBijection(S, T)
  BY <1>3 DEF ExistsBijection
<1>5. IsFiniteSet(T) /\ Cardinality(T) = Cardinality(S)
  BY <1>2, <1>4, FS_Bijection
<1> QED BY <1>2, <1>5 DEF T

(* REAPING counts the batch: distinct slots have distinct ids. *)
LEMMA CollectedCount ==
    ASSUME IInv
    PROVE  /\ Collected \subseteq Slots
           /\ \A i \in Collected : /\ tasks[i].state = "Exited" /\ ~tasks[i].reaped
                                   /\ tasks[i].on_cpu = NoCpu
           /\ IsFiniteSet(Collected)
           /\ IsFiniteSet({tasks[i].id : i \in Collected})
           /\ Cardinality({tasks[i].id : i \in Collected}) = Cardinality(Collected)
<1>1. /\ Collected \subseteq Slots
      /\ \A i \in Collected : /\ tasks[i].state = "Exited" /\ ~tasks[i].reaped
                              /\ tasks[i].on_cpu = NoCpu
  BY DEF Collected, Collectable
<1> QED BY <1>1, IdCount, Zenon

(* collect_exited takes only tasks that no CPU is on, so what the reaper   *)
(* will release is in use nowhere.                                         *)
LEMMA CollectStep ==
    ASSUME IInv, NEW c \in Registered, collect_exited(c)
    PROVE  IInv'
<1> DEFINE me == current_idx(c)
           t == [Me(c) EXCEPT !.pc = "release"]
           r(i) == [tasks[i] EXCEPT !.reaped = TRUE]
           ids == {tasks[i].id : i \in Collected}
<1>1. /\ batch = {} /\ REAPING = 0 /\ Me(c).entry = "reaper" /\ Me(c).pc = "collect"
      /\ lock = NoCpu
  BY NothingHeld DEF collect_exited, At, Locked
<1>2. /\ me \in Slots /\ tasks[me] = Me(c) /\ Me(c) \in TaskControlBlock
      /\ TaskOK(Me(c)) /\ Me(c).on_cpu = c /\ ~Me(c).reaped /\ c # NoCpu
      /\ Me(c).state = "Running"
  BY <1>1, Current DEF Me, Yielding
<1>3. /\ Collected \subseteq Slots
      /\ \A i \in Collected : /\ tasks[i].state = "Exited" /\ ~tasks[i].reaped
                              /\ tasks[i].on_cpu = NoCpu
      /\ IsFiniteSet(ids) /\ Cardinality(ids) = Cardinality(Collected)
      /\ Cardinality(ids) \in Nat
  BY CollectedCount, FS_CardinalityType
<1>4. tasks \in [Slots -> TaskControlBlock]
  BY TableFun DEF IInv
<1>5. /\ tasks' = [i \in Slots |-> IF i \in Collected THEN r(i)
                                   ELSE IF i = me THEN t ELSE tasks[i]]
      /\ REAPING' = REAPING + Cardinality(Collected) /\ batch' = ids
      /\ UNCHANGED <<cpus, rr_cursor, lock, stack, space, next_id, STARTED, freed>>
  BY <1>2 DEF collect_exited
<1>6. /\ t \in TaskControlBlock
      /\ t.id = Me(c).id /\ t.on_cpu = c /\ t.pinned_cpu = Me(c).pinned_cpu
      /\ t.entry = Me(c).entry /\ ~t.reaped /\ t.pc = "release" /\ t.state = Me(c).state
      /\ t.reply = Me(c).reply /\ t.wait_for = Me(c).wait_for
  BY <1>2, Zenon DEF TaskControlBlock, Pc
<1>7. TaskOK(t)
  BY <1>1, <1>2, <1>6 DEF TaskOK, Yielding
<1>8. \A i \in Collected :
        /\ r(i) \in TaskControlBlock
        /\ r(i).id = tasks[i].id /\ r(i).on_cpu = NoCpu
        /\ r(i).pinned_cpu = tasks[i].pinned_cpu /\ r(i).entry = tasks[i].entry
        /\ r(i).reaped /\ r(i).pc = tasks[i].pc /\ r(i).state = "Exited"
        /\ r(i).reply = tasks[i].reply /\ r(i).wait_for = tasks[i].wait_for
        /\ r(i).inbox = tasks[i].inbox
  <2> TAKE i \in Collected
  <2>1. tasks[i] \in TaskControlBlock /\ tasks[i].state = "Exited" /\ tasks[i].on_cpu = NoCpu
    BY <1>3, <1>4
  <2> QED BY <2>1, Zenon DEF TaskControlBlock
<1> HIDE DEF t, r, ids, me
<1>9. \A i \in Collected : TaskOK(r(i))
  <2> TAKE i \in Collected
  <2>1. TaskOK(tasks[i]) /\ tasks[i].state = "Exited" /\ tasks[i].on_cpu = NoCpu
    BY <1>3 DEF IInv, TasksOK
  <2> QED BY <1>8, <2>1 DEF TaskOK
<1>10. me \notin Collected
  BY <1>2, <1>3
<1>11. /\ tasks' \in [Slots -> TaskControlBlock]
       /\ tasks'[me] = t
       /\ \A i \in Collected : tasks'[i] = r(i)
       /\ \A i \in Slots : i # me /\ i \notin Collected => tasks'[i] = tasks[i]
  BY <1>2, <1>3, <1>4, <1>5, <1>6, <1>8, <1>10
<1>12. \A i \in Slots : SameIdentity(i) /\ TaskOK(tasks'[i])
  <2> TAKE i \in Slots
  <2>1. CASE i \in Collected
    BY <1>3, <1>8, <1>9, <1>11, <2>1 DEF SameIdentity
  <2>2. CASE i = me
    BY <1>2, <1>6, <1>7, <1>11, <2>2 DEF SameIdentity
  <2>3. CASE i # me /\ i \notin Collected
    BY <1>11, <2>3 DEF SameIdentity, IInv, TasksOK
  <2> QED BY <2>1, <2>2, <2>3
<1>13. /\ Slots' = Slots /\ Registered' = Registered
       /\ TasksOK' /\ IdsOK' /\ IdleOK' /\ OneCpuPerTask' /\ StackOK'
       /\ \A i \in Slots : tasks'[i].id = tasks[i].id /\ tasks'[i].entry = tasks[i].entry
  <2>1. \A i \in Slots : tasks'[i].id = tasks[i].id /\ tasks'[i].entry = tasks[i].entry
    BY <1>12, Zenon DEF SameIdentity
  <2> QED BY <1>5, <1>11, <1>12, <2>1, TableStep, Zenon DEF IInv, TypeOK
<1>14. TypeOK'
  <2>1. batch' \in SUBSET Nat
    BY <1>3, <1>4, <1>5 DEF ids, TaskControlBlock
  <2>2. REAPING' \in Nat
    BY <1>1, <1>3, <1>5
  <2> QED BY <1>5, <1>11, <1>12, <2>1, <2>2, TableStep, Zenon DEF IInv, TypeOK
<1>15. FreedOK'
  <2>1. \A i \in Slots : tasks[i].id \in 1..(next_id - 1)
    <3>1. next_id \in Nat /\ \A i \in Slots : tasks[i].id < next_id
      BY DEF IInv, TypeOK, IdsOK
    <3>2. \A i \in Slots : tasks[i].id \in Nat \ {0}
      BY <1>4 DEF TaskControlBlock
    <3> QED BY <3>1, <3>2
  <2>2. freed' \cup batch' \subseteq 1..(next_id' - 1)
    BY <1>3, <1>5, <2>1 DEF IInv, FreedOK, ids
  <2>3. \A i \in Slots : tasks[i].id \in ids => i \in Collected
    BY <1>3 DEF ids, IInv, IdsOK
  <2>4. \A i \in Slots' : tasks'[i].id \in freed' \cup batch' => tasks'[i].reaped
    <3> SUFFICES ASSUME NEW i \in Slots, tasks'[i].id \in freed' \cup batch'
                 PROVE  tasks'[i].reaped
      BY <1>13
    <3>1. tasks[i].id \in freed \cup ids
      BY <1>5, <1>13
    <3>2. CASE i \in Collected
      BY <1>8, <1>11, <3>2
    <3>3. CASE i \notin Collected
      <4>1. tasks[i].reaped
        BY <2>3, <3>1, <3>3 DEF IInv, FreedOK
      <4> QED BY <1>2, <1>11, <3>3, <4>1
    <3> QED BY <3>2, <3>3
  <2>5. \A d \in Registered : stack[d] = Me(d).id /\ Me(d).id \notin ids
    <3> TAKE d \in Registered
    <3>1. d # NoCpu /\ current_idx(d) \in Slots /\ tasks[current_idx(d)].on_cpu = d
      BY Current DEF Me
    <3>2. current_idx(d) \notin Collected
      BY <1>3, <3>1
    <3>3. stack[d] = Me(d).id
      BY <1>1, <3>1 DEF IInv, StackOK
    <3> QED BY <2>3, <3>1, <3>2, <3>3 DEF Me
  <2>6. \A d \in Registered' : stack'[d] \notin freed' \cup batch'
    BY <1>5, <1>13, <2>5 DEF IInv, FreedOK
  <2>7. \A id \in 1..(next_id' - 1) : id \notin freed' \cup batch' =>
            \E i \in Slots' : tasks'[i].id = id /\ ~tasks'[i].reaped
    <3> TAKE id \in 1..(next_id' - 1)
    <3>1. HAVE id \notin freed' \cup batch'
    <3>2. PICK i \in Slots : tasks[i].id = id /\ ~tasks[i].reaped
      BY <1>1, <1>5, <3>1, Zenon DEF IInv, FreedOK
    <3>3. i \notin Collected
      BY <1>5, <3>1, <3>2 DEF ids
    <3> QED BY <1>2, <1>6, <1>11, <1>13, <3>2, <3>3
  <2> QED BY <2>2, <2>4, <2>6, <2>7 DEF FreedOK
<1>16. ReaperOK'
  <2>1. \A i, j \in Slots :
           tasks'[i].entry = "reaper" /\ tasks'[j].entry = "reaper" => i = j
    BY <1>13 DEF IInv, ReaperOK
  <2>2. \E i \in Slots : tasks'[i].pc = "release"
    BY <1>2, <1>6, <1>11
  <2>3. IsFiniteSet(batch') /\ REAPING' = Cardinality(batch')
    BY <1>1, <1>3, <1>5
  <2> QED BY <1>13, <2>1, <2>2, <2>3 DEF ReaperOK
<1>17. ReceiverAlive'
  <2>1. \A i \in Slots : tasks'[i].state = "Exited" => tasks[i].state = "Exited"
    BY <1>2, <1>3, <1>6, <1>11
  <2>2. \A i \in Slots : tasks'[i].state = "WaitingReply" =>
            tasks[i].state = "WaitingReply" /\ tasks'[i].wait_for = tasks[i].wait_for
    BY <1>2, <1>6, <1>8, <1>11, Zenon
  <2> QED BY <1>12, <1>13, <2>1, <2>2, AliveStep, Zenon
<1> QED BY <1>13, <1>14, <1>15, <1>16, <1>17 DEF IInv

(* Releasing one task of the batch moves its id from batch to freed. *)
LEMMA ReleaseStep ==
    ASSUME IInv, NEW c \in Registered, NEW id \in batch, release(c, id)
    PROVE  IInv'
<1>1. /\ UNCHANGED <<tasks, cpus, rr_cursor, lock, stack, space, next_id, STARTED,
                     batch, REAPING>>
      /\ freed' \cup batch' = freed \cup batch
      /\ freed' = freed \cup {id}
  BY DEF release
<1>2. /\ Slots' = Slots /\ Registered' = Registered
      /\ \A d : current_idx(d)' = current_idx(d) /\ Me(d)' = Me(d)
      /\ \A tid : find_live(tid)' = find_live(tid)
  BY <1>1 DEF Slots, Registered, current_idx, Me, find_live
<1>3. TypeOK'
  BY <1>1, <1>2 DEF IInv, TypeOK
<1>4. FreedOK'
  BY <1>1, <1>2 DEF IInv, FreedOK
<1>5. TasksOK' /\ IdsOK' /\ IdleOK'
  BY <1>1, <1>2 DEF IInv, TasksOK, IdsOK, IdleOK
<1>6. OneCpuPerTask'
  BY <1>1, <1>2 DEF IInv, OneCpuPerTask
<1>7. StackOK'
  BY <1>1, <1>2 DEF IInv, StackOK, NoSharedStack
<1>8. ReaperOK' /\ ReceiverAlive'
  BY <1>1, <1>2 DEF IInv, ReaperOK, ReceiverAlive
<1> QED BY <1>3, <1>4, <1>5, <1>6, <1>7, <1>8 DEF IInv

(* Accounting for the batch once all of it is released. *)
LEMMA ReleaseDoneStep ==
    ASSUME IInv, NEW c \in Registered, release_done(c)
    PROVE  IInv'
<1> DEFINE me == current_idx(c)
           t == [Me(c) EXCEPT !.pc = "run"]
<1>1. /\ me \in Slots /\ tasks[me] = Me(c) /\ Me(c) \in TaskControlBlock
      /\ TaskOK(Me(c)) /\ Me(c).on_cpu = c /\ ~Me(c).reaped /\ c # NoCpu
      /\ Me(c).state = "Running" /\ Me(c).pc = "release" /\ Me(c).entry = "reaper"
  <2>1. Me(c).pc = "release"
    BY DEF release_done, At
  <2> QED BY <2>1, Current, Zenon DEF Me, Yielding, TaskOK
<1>2. tasks \in [Slots -> TaskControlBlock]
  BY TableFun DEF IInv
<1>3. /\ tasks' = [tasks EXCEPT ![me] = t]
      /\ REAPING' = REAPING - Cardinality(batch) /\ batch' = {} /\ batch \subseteq freed
      /\ UNCHANGED <<cpus, rr_cursor, lock, stack, space, next_id, STARTED, freed>>
  BY <1>1, <1>2 DEF release_done
<1>4. REAPING' = 0 /\ IsFiniteSet(batch') /\ Cardinality(batch') = 0
  BY <1>3, FS_EmptySet, FS_CardinalityType DEF IInv, ReaperOK
<1>5. /\ t \in TaskControlBlock
      /\ t.id = Me(c).id /\ t.on_cpu = c /\ t.pinned_cpu = Me(c).pinned_cpu
      /\ t.entry = Me(c).entry /\ ~t.reaped /\ t.pc = "run" /\ t.state = Me(c).state
      /\ t.reply = Me(c).reply /\ t.wait_for = Me(c).wait_for
  BY <1>1 DEF TaskControlBlock, Pc
<1>6. TaskOK(t)
  BY <1>1, <1>5 DEF TaskOK, Yielding
<1> HIDE DEF t, me
<1>7. /\ tasks' \in [Slots -> TaskControlBlock]
      /\ tasks'[me] = t
      /\ \A i \in Slots : i # me => tasks'[i] = tasks[i]
  BY <1>1, <1>2, <1>3, <1>5
<1>8. \A i \in Slots : SameIdentity(i) /\ TaskOK(tasks'[i])
  BY <1>1, <1>5, <1>6, <1>7 DEF SameIdentity, IInv, TasksOK
<1>9. /\ Slots' = Slots /\ Registered' = Registered
      /\ TasksOK' /\ IdsOK' /\ IdleOK' /\ OneCpuPerTask' /\ StackOK'
      /\ \A i \in Slots : tasks'[i].id = tasks[i].id /\ tasks'[i].entry = tasks[i].entry
  BY <1>3, <1>7, <1>8, TableStep DEF IInv, TypeOK, SameIdentity
<1>10. TypeOK'
  BY <1>3, <1>4, <1>7, <1>8, TableStep DEF IInv, TypeOK
<1>11. FreedOK'
  <2>1. freed' \cup batch' = freed \cup batch
    BY <1>3
  <2>2. \A i \in Slots : tasks[i].reaped <=> tasks'[i].reaped
    BY <1>1, <1>5, <1>7
  <2>3. \A i \in Slots : tasks'[i].id \in freed \cup batch => tasks'[i].reaped
    BY <1>9, <2>2 DEF IInv, FreedOK
  <2>4. \A id \in 1..(next_id - 1) : id \notin freed \cup batch =>
            \E i \in Slots : tasks'[i].id = id /\ ~tasks'[i].reaped
    BY <1>9, <2>2 DEF IInv, FreedOK
  <2> QED BY <1>3, <1>9, <2>1, <2>3, <2>4 DEF IInv, FreedOK
<1>12. ReaperOK'
  <2>1. \A i, j \in Slots :
           tasks'[i].entry = "reaper" /\ tasks'[j].entry = "reaper" => i = j
    BY <1>9 DEF IInv, ReaperOK
  <2> QED BY <1>3, <1>4, <1>9, <2>1 DEF ReaperOK
<1>13. ReceiverAlive'
  <2>1. \A i \in Slots : tasks'[i].state = "Exited" => tasks[i].state = "Exited"
    BY <1>1, <1>5, <1>7
  <2>2. \A i \in Slots : tasks'[i].state = "WaitingReply" =>
            tasks[i].state = "WaitingReply" /\ tasks'[i].wait_for = tasks[i].wait_for
    BY <1>1, <1>5, <1>7
  <2> QED BY <1>8, <1>9, <2>1, <2>2, AliveStep
<1> QED BY <1>9, <1>10, <1>11, <1>12, <1>13 DEF IInv

-----------------------------------------------------------------------------
(* The invariant is inductive *)

(* A call that is refused, or that finds nothing, changes nothing. *)
LEMMA StutterStep ==
    ASSUME IInv, UNCHANGED vars
    PROVE  IInv'
<1> USE DEF vars, Slots, Registered, current_idx, Me
<1>1. TypeOK'
  BY DEF IInv, TypeOK
<1>2. TasksOK' /\ IdsOK' /\ IdleOK'
  BY DEF IInv, TasksOK, IdsOK, IdleOK
<1>3. OneCpuPerTask'
  BY DEF IInv, OneCpuPerTask
<1>4. StackOK'
  BY DEF IInv, StackOK, NoSharedStack
<1>5. FreedOK'
  BY DEF IInv, FreedOK
<1>6. ReaperOK'
  BY DEF IInv, ReaperOK
<1>7. ReceiverAlive'
  BY DEF IInv, ReceiverAlive, find_live
<1> QED BY <1>1, <1>2, <1>3, <1>4, <1>5, <1>6, <1>7 DEF IInv

(* A yield resumes its task behind the yield, an interrupt where it was. *)
LEMMA SwitchStep ==
    ASSUME IInv, NEW c \in Registered,
           YieldNow(c) \/ yield_now(c) \/ \E timer \in BOOLEAN : Interrupt(c, timer)
    PROVE  IInv'
<1>1. CASE YieldNow(c) \/ yield_now(c)
  <2>1. PICK pc : Resumes(Me(c).pc, pc) /\ Yield(c, pc)
    BY <1>1 DEF YieldNow, yield_now, At, CallsKernel, Resumes
  <2> QED BY <2>1, OnTickStep, Zenon DEF Yield
<1>2. CASE \E timer \in BOOLEAN : Interrupt(c, timer)
  <2>1. PICK timer \in BOOLEAN : Interrupt(c, timer)
    BY <1>2
  <2>2. Resumes(Me(c).pc, Me(c).pc)
    BY DEF Resumes
  <2> QED BY <2>1, <2>2, OnTickStep DEF Interrupt
<1> QED BY <1>1, <1>2

(* Receiving, in both its forms. *)
LEMMA ReceiveStep ==
    ASSUME IInv, NEW c \in Registered, receive_rqb(c) \/ try_receive_rqb(c)
    PROVE  IInv'
<1>1. TaskOK(Me(c))
  BY Current
<1>2. Me(c).pc \in {"run", "receive"} /\ Me(c).entry # "idle"
  BY <1>1, Zenon DEF receive_rqb, try_receive_rqb, CallsKernel, At, TaskOK
<1>3. CASE receive_rqb(c)
  BY <1>2, <1>3, TakeRequestStep, Zenon DEF receive_rqb
<1>4. CASE try_receive_rqb(c)
  BY <1>2, <1>4, TakeRequestStep, Zenon DEF try_receive_rqb
<1> QED BY <1>3, <1>4

(* Every step of the kernel preserves the inductive invariant. *)
LEMMA NextIInv == IInv /\ [Next]_vars => IInv'
<1> SUFFICES ASSUME IInv, [Next]_vars PROVE IInv'
  OBVIOUS
<1>1. CASE UNCHANGED vars
  BY <1>1, StutterStep
<1>2. CASE \E c \in Cpus : register_ap(c)
  BY <1>2, RegisterApStep
<1>3. ASSUME NEW c \in Registered, CpuStep(c) PROVE IInv'
  <2>1. CASE start(c)
    BY <2>1, StartStep
  <2>2. CASE YieldNow(c) \/ yield_now(c) \/ \E timer \in BOOLEAN : Interrupt(c, timer)
    BY <2>2, SwitchStep
  <2>3. CASE SwitchStack(c) \/ scheduler_unlock(c)
    BY <2>3, SwitchTailStep
  <2>4. CASE send_rqb_resume(c)
    BY <2>4, SendResumeStep
  <2>5. CASE receive_rqb(c) \/ try_receive_rqb(c)
    BY <2>5, ReceiveStep
  <2>6. CASE \/ \E ticks \in 1..MaxSleep : sleep_ms(c, ticks)
             \/ SleepTest(c)
             \/ sleep_until(c)
    BY <2>6, SleepStep
  <2>7. CASE collect_exited(c)
    BY <2>7, CollectStep
  <2>8. CASE \E id \in batch : release(c, id)
    BY <2>8, ReleaseStep
  <2>9. CASE release_done(c)
    BY <2>9, ReleaseDoneStep
  <2>10. CASE \E entry \in Entries : create_task(c, entry)
    BY <2>10, CreateStep
  <2>11. CASE exit_current(c)
    BY <2>11, ExitStep
  <2>12. CASE \E tid \in 0..next_id : \/ send_rqb(c, tid) \/ reply_rqb(c, tid)
                                      \/ send_rqb_refused(c, tid)
                                      \/ reply_rqb_refused(c, tid)
    <3>1. PICK tid \in 0..next_id : \/ send_rqb(c, tid) \/ reply_rqb(c, tid)
                                    \/ send_rqb_refused(c, tid)
                                    \/ reply_rqb_refused(c, tid)
      BY <2>12
    <3>2. tid \in Nat
      BY DEF IInv, TypeOK
    <3>3. CASE send_rqb_refused(c, tid) \/ reply_rqb_refused(c, tid)
      BY <3>3, StutterStep DEF send_rqb_refused, reply_rqb_refused
    <3> QED BY <3>1, <3>2, <3>3, SendStep, ReplyStep
  <2> QED BY <1>3, <2>1, <2>2, <2>3, <2>4, <2>5, <2>6, <2>7, <2>8, <2>9, <2>10,
             <2>11, <2>12 DEF CpuStep, KernelStep, TaskCall
<1> QED BY <1>1, <1>2, <1>3 DEF Next

-----------------------------------------------------------------------------
(* Theorems *)

(* Every reachable state satisfies the inductive invariant: the task      *)
(* table, the CPUs' view of it, the lock held across the stack switch, the *)
(* reply slots and the reaper's accounts agree.                            *)
THEOREM Invariance == Spec => []IInv
  BY InitIInv, NextIInv, PTL DEF Spec

(* The state of the scheduler is always well typed; in particular every    *)
(* index that on_tick and pick_next use lies in the task table.            *)
THEOREM TypeCorrect == Spec => []TypeOK
<1>1. IInv => TypeOK
  BY DEF IInv
<1> QED BY <1>1, Invariance, PTL

(* With any number of CPUs and tasks, no task is the current task of two   *)
(* CPUs, also when it was woken while still executing.                     *)
THEOREM ExclusiveExecution == Spec => []OneCpuPerTask
<1>1. IInv => OneCpuPerTask
  BY DEF IInv
<1> QED BY <1>1, Invariance, PTL

(* The lock held from switch_from_interrupt to scheduler_unlock keeps two  *)
(* CPUs from ever executing on one kernel stack.                           *)
THEOREM ExclusiveStacks == Spec => []NoSharedStack
<1>1. IInv => NoSharedStack
  BY DEF IInv, StackOK
<1> QED BY <1>1, Invariance, PTL

(* The reaper never releases a stack or an address space that a CPU is on  *)
(* or about to enter.                                                      *)
THEOREM ReaperSafe == Spec => []InUseNotFreed
<1>1. IInv => InUseNotFreed
  <2> SUFFICES ASSUME IInv, NEW c \in Registered
               PROVE  {stack[c], Me(c).id, space[c]} \cap freed = {}
    BY DEF InUseNotFreed
  <2>1. stack[c] \notin freed
    BY DEF IInv, FreedOK
  <2>2. Me(c).id \notin freed
    BY Current DEF IInv, FreedOK, Me
  <2>3. space[c] \in {0, Me(c).id}
    BY DEF IInv, StackOK
  <2>4. 0 \notin freed
    BY DEF IInv, FreedOK, TypeOK
  <2> QED BY <2>1, <2>2, <2>3, <2>4
<1> QED BY <1>1, Invariance, PTL

(* Blocking loses no wakeup: a blocked receiver has an empty inbox and a   *)
(* blocked sender an empty reply slot.                                     *)
THEOREM BlockedForAReason == Spec => []NoLostWakeup
<1>1. IInv => NoLostWakeup
  BY DEF IInv, TasksOK, TaskOK, NoLostWakeup
<1> QED BY <1>1, Invariance, PTL

(* A sender blocked in send_rqb always waits on a task that has not        *)
(* exited, whatever order sends, replies and exits happen in.              *)
THEOREM NoOrphanedSender == Spec => []ReceiverAlive
<1>1. IInv => ReceiverAlive
  BY DEF IInv
<1> QED BY <1>1, Invariance, PTL

(* send_rqb finds a reply from its receiver whenever it runs again, so the *)
(* re-blocking branch of its loop is never taken.                          *)
THEOREM ResumedWithReply == Spec => []ReplyWhenResumed
<1>1. IInv => ReplyWhenResumed
  BY DEF IInv, TasksOK, TaskOK, ReplyWhenResumed
<1> QED BY <1>1, Invariance, PTL

(* unreaped_tasks never reports fewer tasks than have resources            *)
(* outstanding, at whatever point of collecting and releasing it is read.  *)
THEOREM HonestCount == Spec => []NeverUnderReports
<1>1. IInv => NeverUnderReports
  <2> SUFFICES ASSUME IInv PROVE NeverUnderReports
    OBVIOUS
  <2> DEFINE U == {i \in Slots : tasks[i].state = "Exited" /\ ~tasks[i].reaped}
             ids == {tasks[i].id : i \in U}
  <2>1. /\ IsFiniteSet(ids) /\ Cardinality(ids) = Cardinality(U)
        /\ IsFiniteSet(U)
    BY IdCount
  <2>2. DeadIds \ freed \subseteq ids \cup batch
    <3> SUFFICES ASSUME NEW id \in DeadIds, id \notin freed, id \notin batch
                 PROVE  id \in ids
      OBVIOUS
    <3>1. id \in 1..(next_id - 1) /\ find_live(id) = {}
      BY DEF DeadIds
    <3>2. PICK i \in Slots : tasks[i].id = id /\ ~tasks[i].reaped
      BY <3>1 DEF IInv, FreedOK
    <3>3. tasks[i].state = "Exited"
      BY <3>1, <3>2 DEF find_live
    <3> QED BY <3>2, <3>3
  <2> HIDE DEF ids
  <2>3. /\ IsFiniteSet(batch) /\ REAPING = Cardinality(batch)
        /\ Cardinality(batch) \in Nat /\ Cardinality(ids) \in Nat
    BY <2>1, FS_CardinalityType DEF IInv, ReaperOK
  <2>4. /\ IsFiniteSet(ids \cup batch)
        /\ Cardinality(ids \cup batch) =
             Cardinality(ids) + Cardinality(batch) - Cardinality(ids \cap batch)
    BY <2>1, <2>3, FS_Union
  <2>5. Cardinality(ids \cap batch) \in Nat
    <3>1. IsFiniteSet(ids \cap batch)
      BY <2>1, FS_Subset
    <3> QED BY <3>1, FS_CardinalityType
  <2>6. /\ Cardinality(DeadIds \ freed) <= Cardinality(ids \cup batch)
        /\ Cardinality(DeadIds \ freed) \in Nat
    BY <2>2, <2>4, FS_Subset, FS_CardinalityType
  <2>7. unreaped_tasks = Cardinality(U) + REAPING
    BY DEF unreaped_tasks
  <2> HIDE DEF U
  <2>8. Cardinality(ids \cup batch) \in Nat
    BY <2>4, FS_CardinalityType
  <2> QED BY <2>1, <2>3, <2>4, <2>5, <2>6, <2>7, <2>8 DEF NeverUnderReports
<1> QED BY <1>1, Invariance, PTL

=============================================================================
