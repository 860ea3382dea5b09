----------------------------- MODULE Scheduler -----------------------------
(***************************************************************************)
(* The per-CPU QoS scheduler of the NEURON kernel                          *)
(* (source/kernel/neuron/src/sched): for every CPU one bounded FIFO queue  *)
(* per QoS class and the task that runs there.                             *)
(*                                                                         *)
(* A scheduler value s is a record                                         *)
(*   queues  queues[c][q], the tasks waiting on CPU c in class q (an entry *)
(*           of the code also carries its class, which is always q);       *)
(*   cur     cur[c], the entry CPU c runs, or None.                        *)
(* As in Router, operations are operators from values to values; c is the  *)
(* CPU that executes them (the code derives it from the tp register).      *)
(***************************************************************************)
EXTENDS Naturals, FiniteSets, SequencesExt, SeqOps

CONSTANTS
    TaskId,
    None,
    MAX_CPUS,       \* 4
    MaxQos,         \* 3: the class PerfBurst; 0 is Idle
    Capacity,       \* RUNTIME_QOS_QUEUE_CAPACITY, 64
    Online          \* the CPUs that came up: cpu_online_mask

Cpu == 0..(MAX_CPUS - 1)
Qos == 0..MaxQos

ASSUME SchedulerAssumption ==
    /\ None \notin TaskId /\ None \notin [id : TaskId, qos : Qos]
    /\ MAX_CPUS \in Nat \ {0} /\ MaxQos \in Nat /\ Capacity \in Nat
    /\ Online \subseteq Cpu /\ 0 \in Online

Entry(id, q) == [id |-> id, qos |-> q]

Queue == [Cpu -> [Qos -> Seq(TaskId)]]

SchedulerState == [queues : Queue, cur : [Cpu -> [id : TaskId, qos : Qos] \cup {None}]]

NewScheduler ==
    [queues |-> [c \in Cpu |-> [q \in Qos |-> <<>>]],
     cur    |-> [c \in Cpu |-> None]]

SetQueue(s, c, q, seq) == [s EXCEPT !.queues[c][q] = seq]

SetCur(s, c, e) == [s EXCEPT !.cur[c] = e]

Runs(s, c, id) == s.cur[c] # None /\ s.cur[c].id = id

\* The CPUs and classes whose queue holds id.
QueuedAt(s, id) == {cq \in Cpu \X Qos : Contains(s.queues[cq[1]][cq[2]], id)}

-----------------------------------------------------------------------------
(* Enqueueing *)

\* Seeded fault: one entry more than the capacity.
Full_OffByOne(s, c, q) == Len(s.queues[c][q]) > Capacity

Full(s, c, q) == Len(s.queues[c][q]) >= Capacity

\* bounded_push succeeds unless Full; a rejected task is left to the caller.
EnqueueOnCpu(s, c, id, q) ==
    IF Full(s, c, q) THEN s ELSE SetQueue(s, c, q, Append(s.queues[c][q], id))

-----------------------------------------------------------------------------
(* Dispatching *)

Highest(Q) == CHOOSE q \in Q : \A r \in Q : r <= q

Lowest(C) == CHOOSE c \in C : \A d \in C : c <= d

\* The classes in which CPU c has a task waiting.
Waiting(s, c) == {q \in Qos : s.queues[c][q] # <<>>}

\* Seeded fault: the picked task stays in its queue.
ScheduleNext_NoPop(s, c) ==
    IF Waiting(s, c) = {} THEN SetCur(s, c, None)
    ELSE LET q == Highest(Waiting(s, c)) IN
         SetCur(s, c, Entry(Head(s.queues[c][q]), q))

\* The head of the highest class becomes current, whatever was current before.
ScheduleNext(s, c) ==
    IF Waiting(s, c) = {} THEN SetCur(s, c, None)
    ELSE LET q == Highest(Waiting(s, c)) IN
         SetCur(SetQueue(s, c, q, Tail(s.queues[c][q])), c,
                Entry(Head(s.queues[c][q]), q))

\* Seeded fault: the task is taken off the CPU and not queued.
YieldCurrent_Drops(s, c) == SetCur(s, c, None)

\* Seeded fault: the task goes to the front of its class.
YieldCurrent_AtFront(s, c) ==
    IF s.cur[c] = None \/ Full(s, c, s.cur[c].qos) THEN s
    ELSE SetCur(SetQueue(s, c, s.cur[c].qos,
                         <<s.cur[c].id>> \o s.queues[c][s.cur[c].qos]), c, None)

\* A full queue leaves the task current.
YieldCurrent(s, c) ==
    IF s.cur[c] = None \/ Full(s, c, s.cur[c].qos) THEN s
    ELSE SetCur(EnqueueOnCpu(s, c, s.cur[c].id, s.cur[c].qos), c, None)

FinishCurrent(s, c) == SetCur(s, c, None)

Purge(s, id) ==
    [queues |-> [c \in Cpu |-> [q \in Qos |-> Without(s.queues[c][q], id)]],
     cur    |-> [c \in Cpu |-> IF Runs(s, c, id) THEN None ELSE s.cur[c]]]

-----------------------------------------------------------------------------
(* QoS changes *)

\* A running task changes class in place.  A waiting one moves to the back of
\* its new class on the same CPU, and stays where it is if that class is full
\* (not counting itself).
SetTaskQosErr(s, id, q) ==
    IF \E c \in Cpu : Runs(s, c, id) THEN "Updated"
    ELSE IF QueuedAt(s, id) = {} THEN "NotFound"
    ELSE LET cq == CHOOSE cq \in QueuedAt(s, id) : TRUE IN
         IF Len(Without(s.queues[cq[1]][q], id)) >= Capacity THEN "QueueFull"
         ELSE "Updated"

\* Seeded fault: the entry in the old class is not removed.
SetTaskQos_KeepsOld(s, id, q) ==
    IF SetTaskQosErr(s, id, q) # "Updated" \/ QueuedAt(s, id) = {} THEN s
    ELSE EnqueueOnCpu(s, (CHOOSE cq \in QueuedAt(s, id) : TRUE)[1], id, q)

SetTaskQos(s, id, q) ==
    IF SetTaskQosErr(s, id, q) # "Updated" THEN s
    ELSE IF \E c \in Cpu : Runs(s, c, id)
    THEN [s EXCEPT !.cur = [c \in Cpu |-> IF Runs(s, c, id) THEN Entry(id, q)
                                                            ELSE s.cur[c]]]
    ELSE LET c == (CHOOSE cq \in QueuedAt(s, id) : TRUE)[1] IN
         EnqueueOnCpu(Purge(s, id), c, id, q)

-----------------------------------------------------------------------------
(* Work stealing *)

\* The CPUs that CPU c could steal a task of class q from.
Victims(s, c, q) == {v \in Online \ {c} : s.queues[v][q] # <<>>}

StealClasses(s, c) == {q \in Qos : Victims(s, c, q) # {}}

\* The highest class any other CPU has waiting, from the lowest such CPU.
Stolen(s, c) ==
    LET q == Highest(StealClasses(s, c))
        v == Lowest(Victims(s, c, q))
    IN  [cpu |-> v, entry |-> Entry(Head(s.queues[v][q]), q),
         rest |-> SetQueue(s, v, q, Tail(s.queues[v][q]))]

\* A task that may not run here goes to the front of its home CPU's queue,
\* with no check of that queue's capacity.
StealIntoCurrent(s, c, aff, home) ==
    IF StealClasses(s, c) = {} THEN s
    ELSE LET st == Stolen(s, c)
             id == st.entry.id
             q  == st.entry.qos
         IN  IF c \in aff[id] THEN SetCur(st.rest, c, st.entry)
             ELSE SetQueue(st.rest, home[id], q,
                           <<id>> \o st.rest.queues[home[id]][q])
=============================================================================
