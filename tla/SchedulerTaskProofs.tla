------------------------- MODULE SchedulerTaskProofs ------------------------
(***************************************************************************)
(* Proofs about Scheduler, part 2: the stack switch, CPU registration and  *)
(* task creation.                                                          *)
(***************************************************************************)
EXTENDS SchedulerIpcProofs

-----------------------------------------------------------------------------
(* Stack switch *)

(* Moving to the new stack and unlocking: the CPU ends up on the stack of  *)
(* its current task, which no other CPU is on.                             *)
LEMMA SwitchTailStep ==
    ASSUME IInv, NEW c \in Registered, SwitchStack(c) \/ scheduler_unlock(c)
    PROVE  IInv'
<1>1. tasks' = tasks /\ cpus' = cpus /\ next_id' = next_id /\ space' = space
      /\ batch' = batch /\ freed' = freed /\ REAPING' = REAPING
      /\ rr_cursor' = rr_cursor /\ STARTED' = STARTED
  BY DEF SwitchStack, scheduler_unlock
<1>2. /\ Slots' = Slots /\ Registered' = Registered
      /\ \A d : current_idx(d)' = current_idx(d) /\ Me(d)' = Me(d)
      /\ \A tid : find_live(tid)' = find_live(tid)
  BY <1>1 DEF Slots, Registered, current_idx, Me, find_live
<1>3. Me(c).id \in Nat \ {0} /\ Me(c).id < next_id /\ ~Me(c).reaped /\ current_idx(c) \in Slots
  BY Current DEF IInv, IdsOK, TaskControlBlock, Me
<1>4. \A d \in Registered : d # c => Me(d).id # Me(c).id
  BY Current DEF IInv, IdsOK, Me
<1>5. TypeOK'
  BY <1>1, <1>2, <1>3 DEF IInv, TypeOK, SwitchStack, scheduler_unlock, OptCpu, Registered
<1>6. TasksOK' /\ IdsOK' /\ IdleOK' /\ OneCpuPerTask' /\ ReaperOK' /\ ReceiverAlive'
  BY <1>1, <1>2 DEF IInv, TasksOK, IdsOK, IdleOK, OneCpuPerTask, ReaperOK, ReceiverAlive
<1>7. \A d \in Registered : d # c => stack'[d] = stack[d]
  BY DEF IInv, TypeOK, SwitchStack, scheduler_unlock, Registered
<1>8. stack'[c] = Me(c).id
  BY DEF IInv, TypeOK, SwitchStack, scheduler_unlock, Registered
<1>9. StackOK'
  <2>1. lock' # NoCpu => lock' \in Registered
    BY DEF IInv, StackOK, SwitchStack, scheduler_unlock
  <2>2. \A d \in Registered : stack'[d] = Me(d).id \/ lock' = d
    BY <1>7, <1>8 DEF IInv, StackOK, SwitchStack, scheduler_unlock
  <2>3. \A d \in Registered : stack[d] \in Nat \ {0} /\ stack[d] < next_id
    BY DEF IInv, StackOK, TypeOK
  <2>4. \A d \in Registered : stack'[d] \in 1..(next_id - 1)
    <3>1. next_id \in Nat /\ Me(c).id \in 1..(next_id - 1)
      BY <1>3 DEF IInv, TypeOK
    <3> QED BY <1>7, <1>8, <2>3, <3>1
  <2>5. \A d, e \in Registered : d # e => stack'[d] # Me(e).id
    BY <1>4, <1>7, <1>8 DEF IInv, StackOK
  <2>6. \A d, e \in Registered : d # e => stack'[d] # stack'[e]
    BY <1>7, <1>8, <2>5 DEF IInv, StackOK, NoSharedStack
  <2> QED BY <1>1, <1>2, <2>1, <2>2, <2>4, <2>5, <2>6 DEF IInv, StackOK, NoSharedStack
<1>10. FreedOK'
  <2>1. Me(c).id \notin freed \cup batch
    BY <1>3 DEF IInv, FreedOK, Me
  <2> QED BY <1>1, <1>2, <1>7, <1>8, <2>1 DEF IInv, FreedOK
<1> QED BY <1>5, <1>6, <1>9, <1>10 DEF IInv

-----------------------------------------------------------------------------
(* New entries of the table *)

(* register_ap adds the CPU's own context as its current and idle task. *)
LEMMA RegisterApStep ==
    ASSUME IInv, NEW c \in Cpus, register_ap(c)
    PROVE  IInv'
<1> DEFINE t == adopt_current(next_id, c, "idle")
           n == Len(tasks)
<1>1. /\ next_id \in Nat \ {0} /\ n \in Nat /\ Slots = 1..n
      /\ tasks \in [Slots -> TaskControlBlock] /\ tasks \in Seq(TaskControlBlock)
  BY TableFun DEF IInv, TypeOK
<1>2. /\ t \in TaskControlBlock /\ TaskOK(t)
      /\ t.id = next_id /\ t.entry = "idle" /\ t.pinned_cpu = c
      /\ t.on_cpu = c /\ ~t.reaped /\ t.state = "Running" /\ t.pc = "idle"
  BY <1>1, AdoptOK
<1> HIDE DEF t
<1>3. /\ tasks' = Append(tasks, t)
      /\ cpus' = [cpus EXCEPT ![c] = [registered |-> TRUE, current |-> n + 1,
                                      idle_idx |-> n + 1]]
      /\ stack' = [stack EXCEPT ![c] = next_id]
      /\ next_id' = next_id + 1
      /\ c \notin Registered /\ lock = NoCpu
      /\ UNCHANGED <<rr_cursor, lock, space, STARTED, batch, REAPING, freed>>
  BY DEF register_ap, register_cpu, t
<1> HIDE DEF n
<1>4. /\ tasks' \in Seq(TaskControlBlock)
      /\ Slots' = 1..(n + 1)
      /\ tasks'[n + 1] = t
      /\ \A i \in Slots : tasks'[i] = tasks[i]
      /\ Slots' = Slots \cup {n + 1} /\ n + 1 \notin Slots
  BY <1>1, <1>2, <1>3 DEF Slots, n
<1>5. /\ cpus' \in [Cpus -> PerCpu]
      /\ cpus'[c].current = n + 1 /\ cpus'[c].idle_idx = n + 1
      /\ \A d \in Cpus : d # c => cpus'[d] = cpus[d]
      /\ Registered' = Registered \cup {c}
  BY <1>1, <1>3 DEF IInv, TypeOK, PerCpu, Registered
<1>6. /\ stack' \in [Cpus -> Nat] /\ stack'[c] = next_id
      /\ \A d \in Cpus : d # c => stack'[d] = stack[d]
  BY <1>1, <1>3 DEF IInv, TypeOK
<1>7. /\ Me(c)' = t /\ current_idx(c)' = n + 1
      /\ \A d \in Registered : /\ d \in Cpus /\ d # c
                               /\ current_idx(d)' = current_idx(d)
                               /\ current_idx(d) \in Slots
                               /\ cpus[d].idle_idx \in Slots
                               /\ Me(d)' = Me(d)
  <2>1. \A d \in Registered : d \in Cpus /\ d # c /\ current_idx(d) \in Slots
                              /\ cpus[d].idle_idx \in Slots
    BY <1>3 DEF IInv, TypeOK, Registered
  <2> QED BY <1>4, <1>5, <2>1 DEF current_idx, Me
<1>8. TypeOK'
  <2>1. \A d \in Registered' : cpus'[d].current \in Slots' /\ cpus'[d].idle_idx \in Slots'
    BY <1>4, <1>5, <1>7 DEF current_idx
  <2>2. rr_cursor' \in Slots' /\ next_id' \in Nat \ {0}
    BY <1>1, <1>3, <1>4 DEF IInv, TypeOK
  <2>3. /\ lock' \in OptCpu /\ space' \in [Cpus -> Nat] /\ STARTED' \in BOOLEAN
        /\ batch' \in SUBSET Nat /\ REAPING' \in Nat /\ freed' \in SUBSET Nat
    BY <1>3 DEF IInv, TypeOK
  <2> QED BY <1>4, <1>5, <1>6, <2>1, <2>2, <2>3 DEF TypeOK, current_idx
<1>9. TasksOK'
  BY <1>2, <1>4 DEF IInv, TasksOK
<1>10. IdsOK'
  <2>1. \A i \in Slots : tasks[i].id \in Nat /\ tasks[i].id < next_id
    BY <1>1 DEF IInv, IdsOK, TaskControlBlock
  <2>2. \A i \in Slots' : tasks'[i].id < next_id'
    BY <1>1, <1>2, <1>3, <1>4, <2>1
  <2>3. \A i \in Slots : tasks'[i].id # tasks'[n + 1].id
    BY <1>1, <1>2, <1>4, <2>1
  <2>4. \A i, j \in Slots : tasks'[i].id = tasks'[j].id => i = j
    BY <1>4 DEF IInv, IdsOK
  <2> QED BY <1>4, <2>2, <2>3, <2>4 DEF IdsOK
<1>11. IdleOK'
  <2>1. tasks'[cpus'[c].idle_idx].pinned_cpu = c
    BY <1>2, <1>4, <1>5
  <2>2. \A d \in Registered : tasks'[cpus'[d].idle_idx].pinned_cpu = d
    BY <1>4, <1>5, <1>7 DEF IInv, IdleOK
  <2> QED BY <1>5, <2>1, <2>2 DEF IdleOK
<1>12. OneCpuPerTask'
  <2>1. \A d \in Registered' : Me(d)'.on_cpu = d
    BY <1>2, <1>5, <1>7 DEF IInv, OneCpuPerTask
  <2>2. \A i \in Slots : tasks'[i].on_cpu # NoCpu =>
           tasks'[i].on_cpu \in Registered' /\ cpus'[tasks'[i].on_cpu].current = i
    BY <1>4, <1>5, <1>7 DEF IInv, OneCpuPerTask, current_idx
  <2>3. tasks'[n + 1].on_cpu = c /\ c \in Registered' /\ cpus'[c].current = n + 1
    BY <1>2, <1>4, <1>5
  <2> QED BY <1>4, <2>1, <2>2, <2>3 DEF OneCpuPerTask, current_idx
<1>13. \A d \in Registered : /\ Me(d).id \in Nat /\ Me(d).id < next_id
                             /\ stack[d] \in 1..(next_id - 1) /\ stack[d] = Me(d).id
  BY <1>1, <1>3, <1>7, Current, Zenon DEF IInv, StackOK, IdsOK, Me, TaskControlBlock
<1>14. StackOK'
  <2>1. \A d \in Registered : /\ stack'[d] = Me(d).id /\ space'[d] \in {0, Me(d).id}
                              /\ stack'[d] \in 1..(next_id' - 1)
    BY <1>1, <1>3, <1>6, <1>7, <1>13 DEF IInv, StackOK
  <2>2. space'[c] = 0 /\ stack'[c] = t.id /\ stack'[c] \in 1..(next_id' - 1)
    BY <1>1, <1>2, <1>3, <1>6 DEF IInv, StackOK
  <2>3. \A d, e \in Registered' : d # e => stack'[d] # Me(e)'.id
    BY <1>1, <1>2, <1>5, <1>6, <1>7, <1>13, <2>1, <2>2 DEF IInv, StackOK
  <2>4. \A d \in Registered' : stack'[d] = Me(d)'.id /\ space'[d] \in {0, Me(d)'.id}
    BY <1>5, <1>7, <2>1, <2>2
  <2>5. \A d \in Cpus \ Registered' : space'[d] = 0
    BY <1>3, <1>5 DEF IInv, StackOK
  <2>6. NoSharedStack'
    BY <2>3, <2>4 DEF NoSharedStack
  <2> QED BY <1>3, <1>5, <2>1, <2>2, <2>3, <2>4, <2>5, <2>6 DEF StackOK
<1>15. FreedOK'
  <2>1. freed \cup batch \subseteq 1..(next_id - 1) /\ next_id \notin freed \cup batch
    BY <1>1 DEF IInv, FreedOK
  <2>2. freed' \cup batch' \subseteq 1..(next_id' - 1)
    BY <1>1, <1>3, <2>1
  <2>3. \A i \in Slots' : tasks'[i].id \in freed' \cup batch' => tasks'[i].reaped
    BY <1>2, <1>3, <1>4, <2>1, Zenon DEF IInv, FreedOK
  <2>4. \A d \in Registered' : stack'[d] \notin freed' \cup batch'
    BY <1>3, <1>5, <1>6, <1>7, <2>1 DEF IInv, FreedOK
  <2>5. \A id \in 1..(next_id' - 1) : id \notin freed' \cup batch' =>
            \E i \in Slots' : tasks'[i].id = id /\ ~tasks'[i].reaped
    <3> TAKE id \in 1..(next_id' - 1)
    <3>1. id = next_id \/ id \in 1..(next_id - 1)
      BY <1>1, <1>3
    <3>2. CASE id = next_id
      BY <1>2, <1>4, <3>2
    <3>3. CASE id \in 1..(next_id - 1)
      <4>1. HAVE id \notin freed' \cup batch'
      <4>2. PICK i \in Slots : tasks[i].id = id /\ ~tasks[i].reaped
        BY <1>3, <3>3, <4>1 DEF IInv, FreedOK
      <4> QED BY <1>4, <4>2
    <3> QED BY <3>1, <3>2, <3>3
  <2> QED BY <2>2, <2>3, <2>4, <2>5 DEF FreedOK
<1>16. ReaperOK'
  <2>1. \A i, j \in Slots' :
           tasks'[i].entry = "reaper" /\ tasks'[j].entry = "reaper" => i = j
    BY <1>2, <1>4 DEF IInv, ReaperOK
  <2>2. batch' # {} => \E i \in Slots' : tasks'[i].pc = "release"
    BY <1>3, <1>4, Zenon DEF IInv, ReaperOK
  <2> QED BY <1>3, <2>1, <2>2, Zenon DEF IInv, ReaperOK
<1>17. ReceiverAlive'
  BY <1>2, <1>4 DEF IInv, ReceiverAlive, find_live
<1> QED BY <1>8, <1>9, <1>10, <1>11, <1>12, <1>14, <1>15, <1>16, <1>17 DEF IInv

(* add_task puts a new task in a new slot or in one the reaper has taken,  *)
(* and touches no other.                                                   *)
LEMMA AddTask ==
    ASSUME IInv, NEW t \in TaskControlBlock, add_task(t)
    PROVE  \E k \in Nat :
             /\ tasks' \in Seq(TaskControlBlock)
             /\ Slots' = Slots \cup {k}
             /\ tasks'[k] = t
             /\ \A i \in Slots : i # k => tasks'[i] = tasks[i]
             /\ k \in Slots => tasks[k].state = "Exited" /\ tasks[k].reaped
<1>1. /\ Len(tasks) \in Nat /\ Slots = 1..Len(tasks)
      /\ tasks \in [Slots -> TaskControlBlock] /\ tasks \in Seq(TaskControlBlock)
  BY TableFun DEF IInv, TypeOK
<1>2. CASE Reusable = {}
  <2> DEFINE k == Len(tasks) + 1
  <2>1. /\ tasks' \in Seq(TaskControlBlock)
        /\ Slots' = 1..k /\ tasks'[k] = t
        /\ \A i \in Slots : tasks'[i] = tasks[i]
    BY <1>1, <1>2 DEF add_task, Slots
  <2>2. Slots' = Slots \cup {k} /\ k \notin Slots /\ k \in Nat
    BY <1>1, <2>1
  <2> HIDE DEF k
  <2> QED BY <2>1, <2>2
<1>3. CASE Reusable # {}
  <2>1. PICK k \in Reusable : tasks' = [tasks EXCEPT ![k] = t]
    BY <1>3 DEF add_task
  <2>2. k \in Slots /\ tasks[k].state = "Exited" /\ tasks[k].reaped /\ k \in Nat
    BY <1>1 DEF Reusable
  <2>3. /\ tasks' \in [Slots -> TaskControlBlock] /\ tasks'[k] = t
        /\ \A i \in Slots : i # k => tasks'[i] = tasks[i]
    BY <1>1, <2>1, <2>2
  <2>4. tasks' \in Seq(TaskControlBlock) /\ Slots' = Slots
    BY <2>3, SameSlots DEF IInv
  <2>5. Slots' = Slots \cup {k}
    BY <2>2, <2>4
  <2> QED BY <2>2, <2>3, <2>4, <2>5
<1> QED BY <1>2, <1>3

(* create_task disturbs nobody: the slot it reuses is no CPU's current or  *)
(* idle task, nobody waits on its old owner, and the id is new.            *)
LEMMA CreateStep ==
    ASSUME IInv, NEW c \in Registered, NEW entry \in Entries, create_task(c, entry)
    PROVE  IInv'
<1> DEFINE t == new(next_id, entry)
<1>1. next_id \in Nat \ {0} /\ tasks \in [Slots -> TaskControlBlock]
  BY TableFun DEF IInv, TypeOK
<1>2. entry \in Entry \ {"idle"}
  BY BoundsAssumption DEF Entry
<1>3. /\ t \in TaskControlBlock /\ TaskOK(t)
      /\ t.id = next_id /\ t.entry = entry /\ t.pinned_cpu = NoCpu
      /\ t.on_cpu = NoCpu /\ ~t.reaped /\ t.state = "Ready" /\ t.pc = "run"
  BY <1>1, <1>2, NewOK
<1>4. /\ add_task(t) /\ next_id' = next_id + 1
      /\ UNCHANGED <<cpus, rr_cursor, lock, stack, space, STARTED, batch, REAPING, freed>>
      /\ entry = "reaper" => \A i \in Slots : tasks[i].entry # "reaper"
  BY DEF create_task
<1> HIDE DEF t
<1>5. PICK k \in Nat :
             /\ tasks' \in Seq(TaskControlBlock)
             /\ Slots' = Slots \cup {k}
             /\ tasks'[k] = t
             /\ \A i \in Slots : i # k => tasks'[i] = tasks[i]
             /\ k \in Slots => tasks[k].state = "Exited" /\ tasks[k].reaped
  BY <1>3, <1>4, AddTask
<1>6. /\ Registered' = Registered
      /\ \A d \in Registered : /\ current_idx(d)' = current_idx(d)
                               /\ current_idx(d) \in Slots /\ current_idx(d) # k
                               /\ cpus[d].idle_idx \in Slots /\ cpus[d].idle_idx # k
                               /\ Me(d)' = Me(d) /\ d # NoCpu
  <2>1. Registered' = Registered /\ \A d : current_idx(d)' = current_idx(d)
    BY <1>4 DEF Registered, current_idx
  <2>2. \A d \in Registered : current_idx(d) \in Slots /\ cpus[d].idle_idx \in Slots /\ d # NoCpu
    BY CpusAssumption DEF IInv, TypeOK, Registered
  <2>3. \A d \in Registered : current_idx(d) # k
    BY <1>5, <2>2, Current DEF Me
  <2>4. \A d \in Registered : cpus[d].idle_idx # k
    BY <1>5, <2>2 DEF IInv, IdleOK, TasksOK, TaskOK
  <2> QED BY <1>5, <2>1, <2>2, <2>3, <2>4 DEF Me
<1>7. TypeOK'
  BY <1>1, <1>4, <1>5, <1>6 DEF IInv, TypeOK
<1>8. TasksOK'
  BY <1>3, <1>5 DEF IInv, TasksOK
<1>9. \A i \in Slots : tasks[i].id \in Nat /\ tasks[i].id < next_id
  BY <1>1 DEF IInv, IdsOK, TaskControlBlock
<1>10. IdsOK'
  <2>1. \A i \in Slots' : tasks'[i].id < next_id'
    <3> TAKE i \in Slots'
    <3>1. next_id < next_id'
      BY <1>1, <1>4
    <3>2. CASE i = k
      BY <1>3, <1>5, <3>1, <3>2
    <3>3. CASE i # k
      <4>1. i \in Slots /\ tasks'[i] = tasks[i]
        BY <1>5, <3>3
      <4>2. tasks[i].id \in Nat /\ tasks[i].id < next_id
        BY <1>9, <4>1
      <4> QED BY <1>1, <1>4, <4>1, <4>2
    <3> QED BY <3>2, <3>3
  <2>2. \A i \in Slots : i # k => tasks'[i].id # tasks'[k].id
    BY <1>1, <1>3, <1>5, <1>9
  <2>3. \A i, j \in Slots : i # k /\ j # k /\ tasks'[i].id = tasks'[j].id => i = j
    BY <1>5 DEF IInv, IdsOK
  <2> QED BY <1>5, <2>1, <2>2, <2>3 DEF IdsOK
<1>11. IdleOK'
  BY <1>4, <1>5, <1>6 DEF IInv, IdleOK
<1>12. OneCpuPerTask'
  <2>1. \A d \in Registered : Me(d)'.on_cpu = d
    BY <1>6 DEF IInv, OneCpuPerTask
  <2>2. \A i \in Slots' : tasks'[i].on_cpu # NoCpu =>
           i # k /\ i \in Slots /\ tasks'[i] = tasks[i]
    BY <1>3, <1>5
  <2> QED BY <1>4, <1>6, <2>1, <2>2 DEF IInv, OneCpuPerTask, current_idx
<1>13. StackOK'
  <2>1. \A d \in Registered : stack[d] \in 1..(next_id' - 1)
    BY <1>1, <1>4 DEF IInv, StackOK
  <2> QED BY <1>4, <1>6, <2>1 DEF IInv, StackOK, NoSharedStack
<1>14. FreedOK'
  <2>1. freed \cup batch \subseteq 1..(next_id - 1) /\ next_id \notin freed \cup batch
    BY <1>1 DEF IInv, FreedOK
  <2>2. freed' \cup batch' \subseteq 1..(next_id' - 1)
    BY <1>1, <1>4, <2>1
  <2>3. \A i \in Slots' : tasks'[i].id \in freed' \cup batch' => tasks'[i].reaped
    BY <1>3, <1>4, <1>5, <2>1 DEF IInv, FreedOK
  <2>4. \A d \in Registered' : stack'[d] \notin freed' \cup batch'
    BY <1>4, <1>6 DEF IInv, FreedOK
  <2>5. \A id \in 1..(next_id' - 1) : id \notin freed' \cup batch' =>
            \E i \in Slots' : tasks'[i].id = id /\ ~tasks'[i].reaped
    <3> TAKE id \in 1..(next_id' - 1)
    <3>1. id = next_id \/ id \in 1..(next_id - 1)
      BY <1>1, <1>4
    <3>2. CASE id = next_id
      BY <1>3, <1>5, <3>2
    <3>3. CASE id \in 1..(next_id - 1)
      <4>1. HAVE id \notin freed' \cup batch'
      <4>2. PICK i \in Slots : tasks[i].id = id /\ ~tasks[i].reaped
        BY <1>4, <3>3, <4>1 DEF IInv, FreedOK
      <4> QED BY <1>5, <4>2
    <3> QED BY <3>1, <3>2, <3>3
  <2> QED BY <2>2, <2>3, <2>4, <2>5 DEF FreedOK
<1>15. ReaperOK'
  <2>1. \A i, j \in Slots' :
           tasks'[i].entry = "reaper" /\ tasks'[j].entry = "reaper" => i = j
    BY <1>3, <1>4, <1>5 DEF IInv, ReaperOK
  <2>2. batch' # {} => \E i \in Slots' : tasks'[i].pc = "release"
    <3>1. HAVE batch' # {}
    <3>2. PICK i \in Slots : tasks[i].pc = "release"
      BY <1>4, <3>1 DEF IInv, ReaperOK
    <3>3. tasks[i].state # "Exited"
      BY <3>2 DEF IInv, TasksOK, TaskOK
    <3> QED BY <1>5, <3>2, <3>3
  <2> QED BY <1>4, <2>1, <2>2 DEF IInv, ReaperOK
<1>16. ReceiverAlive'
  <2> SUFFICES ASSUME NEW i \in Slots', tasks'[i].state = "WaitingReply"
               PROVE  \E j \in Slots' : /\ tasks'[j].id = tasks'[i].wait_for
                                        /\ tasks'[j].state # "Exited"
    BY DEF ReceiverAlive, find_live
  <2>1. i \in Slots /\ tasks'[i] = tasks[i]
    BY <1>3, <1>5
  <2>2. PICK j \in Slots : tasks[j].id = tasks[i].wait_for /\ tasks[j].state # "Exited"
    BY <2>1 DEF IInv, ReceiverAlive, find_live
  <2> QED BY <1>5, <2>1, <2>2
<1> QED BY <1>7, <1>8, <1>10, <1>11, <1>12, <1>13, <1>14, <1>15, <1>16 DEF IInv

=============================================================================
