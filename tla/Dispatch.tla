------------------------------ MODULE Dispatch ------------------------------
(***************************************************************************)
(* Who runs where: the scheduler, the scheduling part of the task table    *)
(* (source/kernel/neuron/src/task) and the harts, each of which executes a *)
(* user task or the idle loop of core/cpu_main.rs.  A hart enters the      *)
(* kernel by a system call, a timer or resched interrupt or a fault, and   *)
(* does all of its work there under the big kernel lock (KernelGuard), so  *)
(* every kernel entry is one step.                                         *)
(*                                                                         *)
(* What a task waits for is abstracted: "Event" stands for IPC, waitsets,  *)
(* fences and their deadlines, which a step of any hart may signal.  The   *)
(* wait for a child is kept.                                               *)
(***************************************************************************)
EXTENDS Scheduler

CONSTANTS
    Root,           \* the task the kernel starts
    Parent,         \* Parent[p], the task that spawned p (None for Root)
    Homes,          \* the homes spawn may give: functions from tasks to CPUs
    Masks,          \* affinity masks callers ask for: sets of CPUs
    Pinned,         \* the tasks whose affinity callers set
    QosUsed,        \* classes callers ask for
    Exiting,        \* the tasks that may exit
    Faulty          \* the tasks that may fault

ASSUME DispatchAssumption ==
    /\ Root \in TaskId
    /\ Parent \in [TaskId -> TaskId \cup {None}]
    /\ Homes \subseteq [TaskId -> Online]
    /\ Masks \subseteq SUBSET Cpu
    /\ Pinned \subseteq TaskId
    /\ QosUsed \subseteq Qos
    /\ Exiting \subseteq TaskId /\ Faulty \subseteq TaskId

VARIABLES
    k,      \* k.sched, the scheduler, and k.task, the task table
    hart    \* hart[c].pid, TaskTable::current of CPU c, and what c executes

vars == <<k, hart>>

\* Normal is class 1 of the code's four; the lowest one if there is only one.
Normal == IF 1 \in Qos THEN 1 ELSE 0

NotBlocked == [on |-> "None", child |-> None]
OnEvent == [on |-> "Event", child |-> None]
OnChild(target) == [on |-> "Child", child |-> target]

TaskState ==
    [state : {"Suspended", "Running", "Zombie", "Reaped"},
     blocked : [on : {"None", "Event", "Child"}, child : TaskId \cup {None}],
     qos : Qos, home : Cpu, aff : SUBSET Cpu]

\* What a hart does: run hart[c].pid in user mode, loop in cpu_main, or
\* execute the saved frame of PID 0.
Mode == {"user", "idle", "pid0"}

-----------------------------------------------------------------------------
(* Task table *)

ValidateAffinityMask(mask) == mask # {} /\ mask \cap Online # {}

ClampHomeToAffinity(mask, home) ==
    IF home \in mask \cap Online THEN home
    ELSE IF mask \cap Online # {} THEN Lowest(mask \cap Online)
    ELSE 0

IsBlocked(kk, p) == kk.task[p].blocked.on # "None"

HomeOf(kk, p) == ClampHomeToAffinity(kk.task[p].aff, kk.task[p].home)

\* A task that is not blocked is left alone.  When its home queue is full the
\* wake fails and the task stays blocked.
Wake(kk, p) ==
    IF ~IsBlocked(kk, p) THEN kk
    ELSE LET s == Purge(kk.sched, p)
             c == HomeOf(kk, p)
             q == kk.task[p].qos
         IN  IF Full(s, c, q) THEN [kk EXCEPT !.sched = s]
             ELSE [sched |-> EnqueueOnCpu(s, c, p, q),
                   task |-> [kk.task EXCEPT ![p].blocked = NotBlocked]]

\* The tasks of the sequence ps woken one after the other.
WakeAll(kk, ps) ==
    LET after[n \in 0..Len(ps)] ==
          IF n = 0 THEN kk ELSE Wake(after[n - 1], ps[n])
    IN  after[Len(ps)]

\* Seeded fault: the blocked task stays queued.
BlockCurrent_NoPurge(kk, c, p, reason) ==
    [sched |-> FinishCurrent(kk.sched, c),
     task |-> [kk.task EXCEPT ![p].blocked = reason]]

BlockCurrent(kk, c, p, reason) ==
    [sched |-> FinishCurrent(Purge(kk.sched, p), c),
     task |-> [kk.task EXCEPT ![p].blocked = reason]]

\* exit_current.  A task whose parent has reaped it stays reaped.
ExitCurrent(kk, p) ==
    [kk EXCEPT !.task[p].state = IF @ = "Reaped" THEN "Reaped" ELSE "Zombie"]

\* Seeded fault: a parent waiting for any child is not woken.
WakeParentWaiter_NamedOnly(kk, p) ==
    IF Parent[p] # None /\ kk.task[Parent[p]].blocked = OnChild(p)
    THEN Wake(kk, Parent[p]) ELSE kk

\* wake_parent_waiter
WakeParentWaiter(kk, p) ==
    LET parent == Parent[p] IN
    IF /\ parent # None
       /\ kk.task[p].state = "Zombie"       \* a reaped task has no parent
       /\ kk.task[parent].blocked \in {OnChild(None), OnChild(p)}
    THEN Wake(kk, parent) ELSE kk

-----------------------------------------------------------------------------
(* Kernel entries of hart c.  p is the task the hart was running. *)

\* Trap exit of a system call: the hart resumes the current task of the table
\* if that is a task with an address space, and its own idle loop otherwise.
Resume(c, pid) ==
    hart' = [hart EXCEPT ![c] =
        [pid |-> pid,
         mode |-> IF pid = None THEN "idle"
                  ELSE IF k.task[pid].state = "Reaped" THEN "idle" ELSE "user"]]

InUser(c) == hart[c].mode = "user" /\ hart[c].pid # None

\* In user mode and able to make system calls: an exited task has no code.
Executing(c) == InUser(c) /\ k.task[hart[c].pid].state = "Running"

\* The current entry of CPU c, or old when there is none.
NextOr(s, c, old) == IF s.cur[c] = None THEN old ELSE s.cur[c].id

\* The lists of tasks a step may signal: waiters of an endpoint, waitset or
\* fence, or tasks whose deadline has passed.
Signals == {ps \in UNION {[1..n -> TaskId] : n \in 0..2} :
              /\ IsDistinct(ps)
              /\ \A i \in DOMAIN ps : k.task[ps[i]].blocked = OnEvent}

\* sys_yield
SysYield(c) ==
    /\ Executing(c)
    /\ \E ps \in Signals :
         LET kk == WakeAll(k, ps)
             s  == ScheduleNext(YieldCurrent(kk.sched, c), c)
         IN  /\ k' = [kk EXCEPT !.sched = s]
             /\ Resume(c, NextOr(s, c, hart[c].pid))

\* preempt_current_user_task, from the timer or a resched interrupt.
Preempt(c) ==
    /\ InUser(c)
    /\ \E ps \in Signals :
         LET kk == WakeAll(k, ps)
             s  == ScheduleNext(YieldCurrent(kk.sched, c), c)
         IN  /\ k' = [kk EXCEPT !.sched = s]
             /\ hart' = [hart EXCEPT ![c].pid = NextOr(s, c, @)]

\* A system call that blocks.  With nothing else to run, the task is woken
\* again and the hart goes back to it, to retry the call.
BlockOn(c, reason, ps) ==
    LET p  == hart[c].pid
        kk == WakeAll(BlockCurrent(k, c, p, reason), ps)
        s  == ScheduleNext(kk.sched, c)
        k1 == [kk EXCEPT !.sched = s]
    IN  /\ k' = IF s.cur[c] = None THEN Wake(k1, p) ELSE k1
        /\ Resume(c, NextOr(s, c, p))

SysBlock(c) ==
    /\ Executing(c)
    /\ \E ps \in Signals : BlockOn(c, OnEvent, ps)

\* A system call that does not block and signals some tasks.
SysSignal(c) ==
    /\ Executing(c)
    /\ \E ps \in Signals :
         /\ ps # <<>>
         /\ k' = WakeAll(k, ps)
         /\ UNCHANGED hart

Children(p) == {q \in TaskId : Parent[q] = p /\ k.task[q].state # "Reaped"}

\* sys_wait: reap a zombie child, or block when there is none yet.
SysWait(c, target) ==
    LET p == hart[c].pid
        wanted == IF target = None THEN Children(p) ELSE Children(p) \cap {target}
        zombies == {z \in wanted : k.task[z].state = "Zombie"}
    IN  /\ Executing(c)
        /\ wanted # {}
        /\ IF zombies = {} THEN BlockOn(c, OnChild(target), <<>>)
           ELSE /\ \E z \in zombies :
                     k' = [k EXCEPT !.task[z].state = "Reaped"]
                /\ UNCHANGED hart

\* Seeded fault: the scheduler is not told of the exit.
SysExit_KeepsCurrent(c) ==
    /\ Executing(c) /\ hart[c].pid \in Exiting
    /\ \E ps \in Signals :
         k' = WakeParentWaiter(WakeAll(ExitCurrent(k, hart[c].pid), ps), hart[c].pid)
    /\ Resume(c, None)

\* sys_exit
SysExit(c) ==
    /\ Executing(c) /\ hart[c].pid \in Exiting
    /\ \E ps \in Signals :
         LET p  == hart[c].pid
             kk == WakeParentWaiter(WakeAll(ExitCurrent(k, p), ps), p)
             s  == ScheduleNext(FinishCurrent(kk.sched, c), c)
         IN  /\ k' = [kk EXCEPT !.sched = s]
             /\ Resume(c, NextOr(s, c, None))

\* A user page fault: the task is killed and purged.  With nothing to run the
\* hart takes up the frame of PID 0.
Fault(c) ==
    /\ InUser(c)
    /\ hart[c].pid \in Faulty \/ k.task[hart[c].pid].state # "Running"
    /\ \E ps \in Signals :
         LET p  == hart[c].pid
             kk == ExitCurrent(WakeAll(k, ps), p)
             s  == ScheduleNext(FinishCurrent(Purge(kk.sched, p), c), c)
         IN  /\ k' = [kk EXCEPT !.sched = s]
             /\ hart' = [hart EXCEPT ![c] =
                  IF s.cur[c] = None THEN [pid |-> None, mode |-> "pid0"]
                  ELSE [pid |-> s.cur[c].id, mode |-> "user"]]

\* sys_task_qos, by a caller with the authority.
SysTaskQos(c, p, q) ==
    /\ Executing(c)
    /\ SetTaskQosErr(k.sched, p, q) # "QueueFull"
    /\ k' = [sched |-> SetTaskQos(k.sched, p, q),
             task |-> [k.task EXCEPT ![p].qos = q]]
    /\ UNCHANGED hart

\* sys_sched, SCHED_OP_SET_AFFINITY
SysSetAffinity(c, p, mask) ==
    /\ Executing(c)
    /\ ValidateAffinityMask(mask)
    /\ k' = [k EXCEPT !.task[p].aff = mask, !.task[p].home = ClampHomeToAffinity(mask, @)]
    /\ UNCHANGED hart

\* sys_task_resume
SysResume(c, p) ==
    /\ Executing(c)
    /\ k.task[p].state = "Suspended"
    /\ ~Full(k.sched, HomeOf(k, p), k.task[p].qos)
    /\ k' = [sched |-> EnqueueOnCpu(k.sched, HomeOf(k, p), p, k.task[p].qos),
             task |-> [k.task EXCEPT ![p].state = "Running"]]
    /\ UNCHANGED hart

\* One round of cpu_main: the own queues, then (rate gate permitting) a steal.
\* A picked task without an address space is dropped and the loop retries.
IdleRound(c) ==
    /\ c \in Online
    /\ hart[c].mode = "idle" \/ (hart[c].mode = "pid0" /\ c = 0)
    /\ LET own == ScheduleNext(k.sched, c)
           aff == [p \in TaskId |-> k.task[p].aff]
           homes == [p \in TaskId |-> k.task[p].home]
           Pick(s, task) ==
             /\ k' = [sched |-> s, task |-> task]
             /\ s.cur[c] # None
             /\ Resume(c, s.cur[c].id)
       IN  IF own.cur[c] # None THEN Pick(own, k.task)
           ELSE LET st == StealIntoCurrent(own, c, aff, homes) IN
                \/ Pick(st, [k.task EXCEPT ![NextOr(st, c, Root)].home = c])
                \/ /\ k' = [k EXCEPT !.sched = IF st.cur[c] = None THEN st ELSE own]
                   /\ UNCHANGED hart

\* Idle delivery by the boot hart: timers, device interrupts and deadlines.
IdleDelivery(c) ==
    /\ c = 0 /\ hart[c].mode # "user"
    /\ Waiting(k.sched, c) = {}
    /\ \E ps \in Signals :
         /\ ps # <<>>
         /\ k' = WakeAll([k EXCEPT !.sched = SetCur(@, c, None)], ps)
         /\ UNCHANGED hart

-----------------------------------------------------------------------------

Init ==
    \E home \in Homes :
        /\ home[Root] = 0
        /\ k = [sched |-> EnqueueOnCpu(NewScheduler, 0, Root, Normal),
                task |-> [p \in TaskId |->
                    [state |-> IF p = Root THEN "Running" ELSE "Suspended",
                     blocked |-> NotBlocked, qos |-> Normal,
                     home |-> home[p], aff |-> Cpu]]]
        /\ hart = [c \in Cpu |-> [pid |-> None, mode |-> "idle"]]

Next ==
    \E c \in Cpu :
        \/ SysYield(c) \/ Preempt(c) \/ SysBlock(c) \/ SysSignal(c)
        \/ \E t \in TaskId \cup {None} : SysWait(c, t)
        \/ SysExit(c) \/ Fault(c)
        \/ \E p \in TaskId, q \in QosUsed : SysTaskQos(c, p, q)
        \/ \E p \in Pinned, m \in Masks : SysSetAffinity(c, p, m)
        \/ \E p \in TaskId : SysResume(c, p)
        \/ IdleRound(c) \/ IdleDelivery(c)

Spec == Init /\ [][Next]_vars

\* The timer is armed whenever user code runs, and an idle hart keeps looking
\* at its queues (woken from WFI by a resched IPI).
Fairness == \A c \in Cpu : WF_vars(Preempt(c)) /\ WF_vars(IdleRound(c))

FairSpec == Spec /\ Fairness

-----------------------------------------------------------------------------
(* Properties *)

Occurrences(seq, p) == Cardinality({i \in DOMAIN seq : seq[i] = p})

Queued(p) == QueuedAt(k.sched, p) # {}

Current(p) == \E c \in Cpu : Runs(k.sched, c, p)

Runnable(p) == k.task[p].state = "Running" /\ ~IsBlocked(k, p)

\* Scheduler, task table and harts have their types.
TypeOK ==
    /\ k \in [sched : SchedulerState, task : [TaskId -> TaskState]]
    /\ hart \in [Cpu -> [pid : TaskId \cup {None}, mode : Mode]]

\* A task has at most one scheduler entry in the whole system, queued or
\* current: the purge-then-enqueue of wake, the re-enqueue of yield and the
\* pop of a steal never duplicate one ("Avoid duplicates" in TaskTable::wake).
OneEntry ==
    \A p \in TaskId :
        /\ \A c \in Cpu, q \in Qos : Occurrences(k.sched.queues[c][q], p) <= 1
        /\ Cardinality(QueuedAt(k.sched, p))
             + Cardinality({c \in Cpu : Runs(k.sched, c, p)}) <= 1

\* The scheduler's current entry and the task table's current task are kept
\* separately and set in different places; they never name different tasks.
CurrentAgrees ==
    \A c \in Cpu : k.sched.cur[c] # None =>
        k.sched.cur[c].id = hart[c].pid

\* A blocked task has no scheduler entry: nothing but a wake can make it run.
BlockedHasNoEntry ==
    \A p \in TaskId : IsBlocked(k, p) => ~Queued(p) /\ ~Current(p)

\* A runnable task is never lost: it is queued, or some hart executes it.
NoTaskLost ==
    \A p \in TaskId : Runnable(p) =>
        \/ Queued(p)
        \/ \E c \in Cpu : hart[c] = [pid |-> p, mode |-> "user"]

\* The scheduler and the task table, which every block, wake, exit, fault and
\* steal updates in separate calls, tell the same story: no task has two
\* entries, no blocked task has one, and they agree on who is current
\* (TaskTable::wake, block_current, set_current, Scheduler::steal).
TablesAgree == OneEntry /\ BlockedHasNoEntry /\ CurrentAgrees

\* A queue holds no more than its capacity of the tasks nobody has pinned, so
\* it is longer than its capacity by at most the number of pinned tasks: the
\* one push without a check of the bound, a steal that gives a task back to
\* its home queue, is of a task that is kept from the thief's CPU.
QueuesBounded ==
    \A c \in Cpu, q \in Qos :
        Cardinality(ToSet(k.sched.queues[c][q]) \ Pinned) <= Capacity

\* Rejected enqueues, changes of class and steals at full queues neither
\* duplicate an entry nor let a queue outgrow its bound by more than the pinned
\* tasks that steals put back (Scheduler::enqueue, set_task_qos, steal).
QueuesSound == OneEntry /\ QueuesBounded

\* No task is executed by two harts at once.
OneHart ==
    \A c, d \in Cpu : InUser(c) /\ InUser(d) /\ c # d => hart[c].pid # hart[d].pid

\* An exited task is in no queue and is current nowhere: its image has been
\* released.  The code does not keep this after a self-wake (README).
ZombiePurged ==
    \A p \in TaskId : k.task[p].state = "Zombie" => ~Queued(p) /\ ~Current(p)

\* A secondary hart never executes the saved frame of PID 0.  The fault path
\* does not keep this (README).
OwnIdleLoop == \A c \in Cpu \ {0} : hart[c].mode # "pid0"

\* A parent is not left blocked in wait while it has a child it could reap
\* (kept as long as no child is killed by a fault).
WaitSeesZombie ==
    \A p, q \in TaskId :
        /\ k.task[p].state = "Running"
        /\ Parent[q] = p /\ k.task[q].state = "Zombie"
        => k.task[p].blocked \notin {OnChild(None), OnChild(q)}

\* A task is dispatched only on CPUs of its affinity mask.  The code does not
\* keep this after a change of the mask (README).
DispatchRespectsAffinity ==
    [][\A c \in Cpu, p \in TaskId :
         (k'.sched.cur[c] # k.sched.cur[c] /\ k'.sched.cur[c] # None
            /\ k'.sched.cur[c].id = p)
         => c \in k.task[p].aff]_vars

\* Round robin: within a class, no pattern of yields, blocking, wake-ups and
\* steals by the other tasks keeps a queued task from being executed.
NoStarvation ==
    \A p \in TaskId :
        Queued(p) ~> (~Queued(p) \/ \E c \in Cpu : InUser(c) /\ hart[c].pid = p)
=============================================================================
