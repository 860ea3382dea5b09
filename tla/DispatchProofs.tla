--------------------------- MODULE DispatchProofs ---------------------------
(***************************************************************************)
(* Safety of scheduler, task table and harts together, for any number of   *)
(* CPUs, classes and tasks.                                                *)
(***************************************************************************)
EXTENDS Dispatch, SeqOpsProofs, FiniteSetTheorems, TLAPS

-----------------------------------------------------------------------------
(* The invariant                                                            *)

(* Task p waits in class q of CPU c. *)
In(s, c, q, p) == p \in Elements(s.queues[c][q])

Has(s, p) == (\E c \in Cpu, q \in Qos : In(s, c, q, p)) \/ \E c \in Cpu : Runs(s, c, p)

(* A task has one entry: in one queue, once, or as the current of one CPU.  *)
Single(s) ==
    /\ \A c \in Cpu, q \in Qos : IsDistinct(s.queues[c][q])
    /\ \A p \in TaskId, c, d \in Cpu, q, r \in Qos :
          In(s, c, q, p) /\ In(s, d, r, p) => c = d /\ q = r
    /\ \A p \in TaskId, c, d \in Cpu : Runs(s, c, p) /\ Runs(s, d, p) => c = d
    /\ \A p \in TaskId, c, d \in Cpu, q \in Qos : In(s, c, q, p) => ~ Runs(s, d, p)

GoodSched(s) == s \in SchedulerState /\ Single(s)

KState == [sched : SchedulerState, task : [TaskId -> TaskState]]

(* Neither a blocked nor a suspended task has an entry, and a suspended one  *)
(* is not blocked.                                                           *)
Entitled(kk) ==
    \A p \in TaskId :
        /\ IsBlocked(kk, p) => ~ Has(kk.sched, p)
        /\ kk.task[p].state = "Suspended" => ~ Has(kk.sched, p) /\ ~ IsBlocked(kk, p)

GoodK(kk) == kk \in KState /\ Single(kk.sched) /\ Entitled(kk)

(* A hart's task is one that was started. *)
Started == \A c \in Cpu : hart[c].pid # None => k.task[hart[c].pid].state # "Suspended"

IInv == TypeOK /\ GoodK(k) /\ CurrentAgrees /\ Started

RunnableIn(kk, p) == kk.task[p].state = "Running" /\ ~ IsBlocked(kk, p)

(* Every runnable task has its entry. *)
Tracked(kk) == \A p \in TaskId : RunnableIn(kk, p) => Has(kk.sched, p)

(* A CPU with a current task executes it, or it was reaped. *)
CurrentRuns ==
    \A c \in Cpu : k.sched.cur[c] # None =>
        hart[c].mode = "user" \/ k.task[k.sched.cur[c].id].state = "Reaped"

TInv == IInv /\ Tracked(k) /\ CurrentRuns

-----------------------------------------------------------------------------
(* Queues                                                                   *)

\* What a push at the back does to the elements.
LEMMA AppendElements ==
    ASSUME NEW T, NEW s \in Seq(T), NEW x \in T
    PROVE  /\ Append(s, x) \in Seq(T) /\ Elements(Append(s, x)) = Elements(s) \cup {x}
           /\ Len(Append(s, x)) = Len(s) + 1
           /\ IsDistinct(s) /\ x \notin Elements(s) => IsDistinct(Append(s, x))
<1>1. Len(s) \in Nat /\ DOMAIN s = 1..Len(s) OBVIOUS
<1>2. /\ Append(s, x) \in Seq(T) /\ Len(Append(s, x)) = Len(s) + 1
      /\ DOMAIN Append(s, x) = 1..(Len(s) + 1) /\ Append(s, x)[Len(s) + 1] = x
      /\ \A i \in 1..Len(s) : Append(s, x)[i] = s[i]
  OBVIOUS
<1>3. PICK t : t = Append(s, x) OBVIOUS
<1>4. \A i \in 1..(Len(s) + 1) : t[i] = IF i \in 1..Len(s) THEN s[i] ELSE x
  BY <1>1, <1>2, <1>3
<1>5. Len(t) = Len(s) + 1 /\ DOMAIN t = 1..(Len(s) + 1) BY <1>2, <1>3
<1>6. Elements(t) = Elements(s) \cup {x} BY <1>1, <1>4, <1>5 DEF Elements
<1>7. IsDistinct(s) /\ x \notin Elements(s) => IsDistinct(t)
  BY <1>1, <1>4, <1>5 DEF Elements, IsDistinct
<1>8. QED BY <1>2, <1>3, <1>6, <1>7

\* What a push at the front does to the elements.
LEMMA ConsElements ==
    ASSUME NEW T, NEW s \in Seq(T), NEW x \in T
    PROVE  /\ <<x>> \o s \in Seq(T) /\ Elements(<<x>> \o s) = Elements(s) \cup {x}
           /\ Len(<<x>> \o s) = Len(s) + 1
           /\ IsDistinct(s) /\ x \notin Elements(s) => IsDistinct(<<x>> \o s)
<1>1. Len(s) \in Nat /\ DOMAIN s = 1..Len(s) OBVIOUS
<1>2. /\ <<x>> \o s \in Seq(T) /\ Len(<<x>> \o s) = Len(s) + 1
      /\ DOMAIN (<<x>> \o s) = 1..(Len(s) + 1) /\ (<<x>> \o s)[1] = x
      /\ \A i \in 1..Len(s) : (<<x>> \o s)[i + 1] = s[i]
  OBVIOUS
<1>3. PICK t : t = <<x>> \o s OBVIOUS
<1>4. t[1] = x /\ \A i \in 2..(Len(s) + 1) : i - 1 \in 1..Len(s) /\ t[i] = s[i - 1]
  BY <1>1, <1>2, <1>3
<1>5. Len(t) = Len(s) + 1 /\ DOMAIN t = 1..(Len(s) + 1) BY <1>2, <1>3
<1>6. Elements(t) = Elements(s) \cup {x}
  <2>1. ASSUME NEW i \in DOMAIN t PROVE t[i] \in Elements(s) \cup {x}
    BY <1>1, <1>4, <1>5 DEF Elements
  <2>2. ASSUME NEW i \in DOMAIN s PROVE s[i] \in Elements(t)
    <3>1. i + 1 \in DOMAIN t /\ t[i + 1] = s[i] BY <1>1, <1>2, <1>3, <1>5
    <3>2. QED BY <3>1 DEF Elements
  <2>3. x \in Elements(t)
    <3>1. 1 \in DOMAIN t BY <1>1, <1>5
    <3>2. QED BY <1>4, <3>1 DEF Elements
  <2>4. QED BY <2>1, <2>2, <2>3 DEF Elements
<1>7. ASSUME IsDistinct(s), x \notin Elements(s), NEW i \in DOMAIN t, NEW j \in DOMAIN t,
             t[i] = t[j]
      PROVE  i = j
  <2>1. \A m \in 1..Len(s) : s[m] # x BY <1>1, <1>7 DEF Elements
  <2>2. i \in 1..(Len(s) + 1) /\ j \in 1..(Len(s) + 1) BY <1>5
  <2>3. CASE i = 1 \/ j = 1 BY <1>1, <1>4, <1>7, <2>1, <2>2, <2>3
  <2>4. CASE i # 1 /\ j # 1
    <3>1. i - 1 \in 1..Len(s) /\ j - 1 \in 1..Len(s) /\ s[i - 1] = s[j - 1]
      BY <1>1, <1>4, <1>7, <2>2, <2>4
    <3>2. i - 1 = j - 1 BY <1>1, <1>7, <3>1 DEF IsDistinct
    <3>3. QED BY <2>2, <3>2
  <2>5. QED BY <2>3, <2>4
<1>8. IsDistinct(s) /\ x \notin Elements(s) => IsDistinct(t) BY <1>7 DEF IsDistinct
<1>9. QED BY <1>2, <1>3, <1>6, <1>8

\* What a pop does to the elements.
LEMMA PopElements ==
    ASSUME NEW T, NEW s \in Seq(T), s # <<>>
    PROVE  /\ Head(s) \in T /\ Head(s) \in Elements(s) /\ Tail(s) \in Seq(T)
           /\ Elements(s) = Elements(Tail(s)) \cup {Head(s)} /\ Len(Tail(s)) = Len(s) - 1
           /\ IsDistinct(s) => IsDistinct(Tail(s)) /\ Head(s) \notin Elements(Tail(s))
<1>1. /\ Len(s) \in Nat /\ Len(s) >= 1 /\ DOMAIN s = 1..Len(s) /\ Head(s) = s[1] /\ s[1] \in T
      /\ Tail(s) \in Seq(T) /\ Len(Tail(s)) = Len(s) - 1 /\ DOMAIN Tail(s) = 1..(Len(s) - 1)
      /\ \A i \in 1..(Len(s) - 1) : Tail(s)[i] = s[i + 1]
  OBVIOUS
<1>2. PICK t : t = Tail(s) OBVIOUS
<1>3. \A i \in 1..Len(s) : i # 1 => i - 1 \in 1..(Len(s) - 1) /\ t[i - 1] = s[i] BY <1>1, <1>2
<1>4. \A i \in 1..(Len(s) - 1) : i + 1 \in 1..Len(s) /\ t[i] = s[i + 1] /\ i + 1 # 1 BY <1>1, <1>2
<1>5. Elements(s) = Elements(t) \cup {s[1]}
  <2>1. ASSUME NEW i \in DOMAIN s PROVE s[i] \in Elements(t) \cup {s[1]}
    <3>1. CASE i = 1 BY <3>1
    <3>2. CASE i # 1
      <4>1. i - 1 \in DOMAIN t /\ t[i - 1] = s[i] BY <1>1, <1>2, <1>3, <3>2
      <4>2. QED BY <4>1 DEF Elements
    <3>3. QED BY <3>1, <3>2
  <2>2. ASSUME NEW i \in DOMAIN t PROVE t[i] \in Elements(s)
    <3>1. i + 1 \in DOMAIN s /\ t[i] = s[i + 1] BY <1>1, <1>2, <1>4
    <3>2. QED BY <3>1 DEF Elements
  <2>3. s[1] \in Elements(s) BY <1>1 DEF Elements
  <2>4. QED BY <2>1, <2>2, <2>3 DEF Elements
<1>6. ASSUME IsDistinct(s) PROVE IsDistinct(t) /\ s[1] \notin Elements(t)
  <2>1. \A i, j \in 1..Len(s) : s[i] = s[j] => i = j BY <1>1, <1>6 DEF IsDistinct
  <2>2. s[1] \notin Elements(t) BY <1>1, <1>2, <1>4, <2>1 DEF Elements
  <2>3. IsDistinct(t)
    <3> SUFFICES ASSUME NEW i \in 1..(Len(s) - 1), NEW j \in 1..(Len(s) - 1), t[i] = t[j]
                 PROVE  i = j
      BY <1>1, <1>2 DEF IsDistinct
    <3>1. i + 1 = j + 1 BY <1>4, <2>1
    <3>2. QED BY <1>1, <3>1
  <2>4. QED BY <2>2, <2>3
<1>7. s[1] \in Elements(s) BY <1>1 DEF Elements
<1>8. QED BY <1>1, <1>2, <1>5, <1>6, <1>7

\* A sequence without duplicates has as many elements as it is long.
LEMMA DistinctLength ==
    ASSUME NEW T, NEW s \in Seq(T), IsDistinct(s)
    PROVE  IsFiniteSet(Elements(s)) /\ Cardinality(Elements(s)) = Len(s)
<1>1. Len(s) \in Nat /\ DOMAIN s = 1..Len(s) OBVIOUS
<1>2. s \in [1..Len(s) -> Elements(s)] BY <1>1 DEF Elements
<1>3. s \in Bijection(1..Len(s), Elements(s))
  BY <1>1, <1>2 DEF Bijection, Injection, Surjection, IsInjective, IsDistinct, Elements
<1>4. ExistsBijection(1..Len(s), Elements(s)) BY <1>3 DEF ExistsBijection
<1>5. QED BY <1>1, <1>4, FS_CountingElements, FS_NatBijection

\* A sequence without duplicates that lacks an element of a finite set is
\* shorter than the set is large.
LEMMA DistinctRoom ==
    ASSUME NEW T, IsFiniteSet(T), NEW s \in Seq(T), IsDistinct(s), NEW x \in T,
           x \notin Elements(s)
    PROVE  Len(s) < Cardinality(T)
<1>1. IsFiniteSet(Elements(s)) /\ Cardinality(Elements(s)) = Len(s) BY DistinctLength
<1>2. Elements(s) \in SUBSET T BY DEF Elements
<1>3. Cardinality(Elements(s)) <= Cardinality(T) /\ Cardinality(T) # Cardinality(Elements(s))
  BY <1>2, FS_Subset
<1>4. Cardinality(T) \in Nat /\ Len(s) \in Nat BY FS_CardinalityType
<1>5. QED BY <1>1, <1>3, <1>4

-----------------------------------------------------------------------------
(* Scheduler                                                                *)

EntryType == [id : TaskId, qos : Qos]

\* The parts of a scheduler.
LEMMA SchedFields ==
    ASSUME NEW s \in SchedulerState, NEW c \in Cpu
    PROVE  /\ \A q \in Qos : s.queues[c][q] \in Seq(TaskId)
           /\ s.cur[c] \in EntryType \cup {None}
           /\ \A p : Runs(s, c, p) => p \in TaskId
BY SchedulerAssumption DEF SchedulerState, Queue, EntryType, Runs

\* An entry is not None.
LEMMA EntryIsSome ==
    ASSUME NEW p \in TaskId, NEW q \in Qos
    PROVE  Entry(p, q) \in EntryType /\ Entry(p, q) # None /\ Entry(p, q).id = p
BY SchedulerAssumption DEF Entry, EntryType

\* SetQueue changes one queue.
LEMMA SetQueueFields ==
    ASSUME NEW s \in SchedulerState, NEW c \in Cpu, NEW q \in Qos, NEW seq \in Seq(TaskId),
           NEW t, t = SetQueue(s, c, q, seq)
    PROVE  /\ t \in SchedulerState /\ t.cur = s.cur /\ t.queues[c][q] = seq
           /\ \A d \in Cpu, r \in Qos : d # c \/ r # q => t.queues[d][r] = s.queues[d][r]
<1>1. PICK qs : qs = [s.queues EXCEPT ![c] = [s.queues[c] EXCEPT ![q] = seq]] OBVIOUS
<1>3. s.queues \in [Cpu -> [Qos -> Seq(TaskId)]] BY DEF SchedulerState, Queue
<1>4. /\ qs \in Queue /\ qs[c][q] = seq
      /\ \A d \in Cpu, r \in Qos : d # c \/ r # q => qs[d][r] = s.queues[d][r]
  BY <1>1, <1>3 DEF Queue
<1>5. t.cur = s.cur BY DEF SetQueue, SchedulerState
<1>6. t.queues = qs BY <1>1 DEF SetQueue, SchedulerState
<1>7. t \in SchedulerState BY <1>4, <1>6 DEF SetQueue, SchedulerState
<1>8. QED BY <1>4, <1>5, <1>6, <1>7

\* SetCur changes one current entry.
LEMMA SetCurFields ==
    ASSUME NEW s \in SchedulerState, NEW c \in Cpu, NEW e \in EntryType \cup {None},
           NEW t, t = SetCur(s, c, e)
    PROVE  /\ t \in SchedulerState /\ t.queues = s.queues /\ t.cur[c] = e
           /\ \A d \in Cpu : d # c => t.cur[d] = s.cur[d]
BY DEF SetCur, SchedulerState, EntryType

\* The current entries after SetCur.
LEMMA SetCurIs ==
    ASSUME NEW s \in SchedulerState, NEW c \in Cpu, NEW e, NEW t, t = SetCur(s, c, e)
    PROVE  t.cur = [s.cur EXCEPT ![c] = e]
BY DEF SetCur, SchedulerState

\* A scheduler with fewer entries.
LEMMA SingleLess ==
    ASSUME NEW s, GoodSched(s), NEW t \in SchedulerState,
           \A c \in Cpu, q \in Qos : IsDistinct(t.queues[c][q]),
           \A p \in TaskId, c \in Cpu, q \in Qos : In(t, c, q, p) => In(s, c, q, p),
           \A p \in TaskId, c \in Cpu : Runs(t, c, p) => Runs(s, c, p)
    PROVE  GoodSched(t) /\ \A p \in TaskId : Has(t, p) => Has(s, p)
BY DEF GoodSched, Single, Has

\* A scheduler with one more entry, in a queue.
LEMMA SingleQueued ==
    ASSUME NEW s, GoodSched(s), NEW t \in SchedulerState, NEW x \in TaskId, ~ Has(s, x),
           NEW b \in Cpu, NEW a \in Qos, IsDistinct(t.queues[b][a]), In(t, b, a, x),
           \A c \in Cpu, q \in Qos : c # b \/ q # a => t.queues[c][q] = s.queues[c][q],
           \A p \in TaskId : p # x => (In(t, b, a, p) <=> In(s, b, a, p)),
           t.cur = s.cur
    PROVE  /\ GoodSched(t) /\ Has(t, x)
           /\ \A p \in TaskId : p # x => (Has(t, p) <=> Has(s, p))
<1>1. \A p \in TaskId, c \in Cpu, q \in Qos :
        In(t, c, q, p) <=> In(s, c, q, p) \/ (p = x /\ c = b /\ q = a)
  BY DEF In, Has
<1>2. \A p \in TaskId, c \in Cpu : Runs(t, c, p) <=> Runs(s, c, p) BY DEF Runs
<1>3. \A c \in Cpu, q \in Qos : IsDistinct(t.queues[c][q]) BY DEF GoodSched, Single
<1>4. Single(t) BY <1>1, <1>2, <1>3 DEF GoodSched, Single, Has
<1>5. QED BY <1>1, <1>2, <1>4 DEF GoodSched, Has

\* A scheduler with one more entry, as the current one of a CPU that had none.
LEMMA SingleRuns ==
    ASSUME NEW s, GoodSched(s), NEW x \in TaskId, NEW q \in Qos, ~ Has(s, x),
           NEW b \in Cpu, s.cur[b] = None, NEW t \in SchedulerState,
           t.queues = s.queues, t.cur[b] = Entry(x, q),
           \A d \in Cpu : d # b => t.cur[d] = s.cur[d]
    PROVE  /\ GoodSched(t) /\ Has(t, x)
           /\ \A p \in TaskId : p # x => (Has(t, p) <=> Has(s, p))
<1>1. \A p \in TaskId, c \in Cpu, r \in Qos : In(t, c, r, p) <=> In(s, c, r, p) BY DEF In
<1>2. \A p \in TaskId, c \in Cpu : Runs(t, c, p) <=> Runs(s, c, p) \/ (p = x /\ c = b)
  BY EntryIsSome DEF Runs
<1>3. Single(t) BY <1>1, <1>2 DEF GoodSched, Single, Has
<1>4. QED BY <1>1, <1>2, <1>3 DEF GoodSched, Has

(* The tasks of a queue that nobody has pinned, and the bound on them. *)
Free(seq) == Elements(seq) \ Pinned

Bounded(s) == \A c \in Cpu, q \in Qos : Cardinality(Free(s.queues[c][q])) <= Capacity

(* The queues of t hold no free task that those of s do not. *)
NoneFreed(s, t) == \A c \in Cpu, q \in Qos : Free(t.queues[c][q]) \subseteq Free(s.queues[c][q])

\* Queues that gain only pinned tasks, or that are no longer than the capacity,
\* stay within the bound.
LEMMA BoundedKept ==
    ASSUME NEW s, GoodSched(s), NEW t, GoodSched(t),
           \A c \in Cpu, q \in Qos :
              \/ Free(t.queues[c][q]) \subseteq Free(s.queues[c][q])
              \/ Len(t.queues[c][q]) <= Capacity
    PROVE  Bounded(s) => Bounded(t)
<1> SUFFICES ASSUME Bounded(s), NEW c \in Cpu, NEW q \in Qos
             PROVE  Cardinality(Free(t.queues[c][q])) <= Capacity
  BY DEF Bounded
<1>1. PICK old, new : old = s.queues[c][q] /\ new = t.queues[c][q] OBVIOUS
<1>2. old \in Seq(TaskId) /\ IsDistinct(old) /\ new \in Seq(TaskId) /\ IsDistinct(new)
  BY <1>1, SchedFields DEF GoodSched, Single
<1>3. /\ IsFiniteSet(Elements(old)) /\ IsFiniteSet(Elements(new))
      /\ Cardinality(Elements(new)) = Len(new)
  BY <1>2, DistinctLength
<1>4. /\ IsFiniteSet(Free(old)) /\ IsFiniteSet(Free(new))
      /\ Cardinality(Free(new)) <= Cardinality(Elements(new))
  BY <1>3, FS_Subset DEF Free
<1>5. /\ Cardinality(Free(old)) \in Nat /\ Cardinality(Free(new)) \in Nat
      /\ Len(new) \in Nat /\ Capacity \in Nat
  BY <1>2, <1>4, FS_CardinalityType, SchedulerAssumption
<1>6. Cardinality(Free(old)) <= Capacity BY <1>1 DEF Bounded
<1>7. CASE Free(new) \subseteq Free(old)
  <2>1. Cardinality(Free(new)) <= Cardinality(Free(old)) BY <1>4, <1>7, FS_Subset
  <2>2. QED BY <1>1, <1>5, <1>6, <2>1
<1>8. CASE Len(new) <= Capacity BY <1>1, <1>3, <1>4, <1>5, <1>8
<1>9. QED BY <1>1, <1>7, <1>8

\* A rejected task changes nothing; an accepted one has its entry.
LEMMA EnqueueEffect ==
    ASSUME NEW s, GoodSched(s), NEW c \in Cpu, NEW q \in Qos, NEW p \in TaskId, ~ Has(s, p),
           NEW t, t = EnqueueOnCpu(s, c, p, q)
    PROVE  /\ GoodSched(t) /\ t.cur = s.cur
           /\ \A r \in TaskId : r # p => (Has(t, r) <=> Has(s, r))
           /\ ~ Full(s, c, q) => Has(t, p)
           /\ Bounded(s) => Bounded(t)
<1>1. CASE Full(s, c, q) BY <1>1 DEF EnqueueOnCpu
<1>2. CASE ~ Full(s, c, q)
  <2>1. PICK seq : seq = Append(s.queues[c][q], p) OBVIOUS
  <2>2. s.queues[c][q] \in Seq(TaskId) BY SchedFields DEF GoodSched
  <2>3. /\ seq \in Seq(TaskId) /\ Elements(seq) = Elements(s.queues[c][q]) \cup {p}
        /\ Len(seq) = Len(s.queues[c][q]) + 1
        /\ IsDistinct(s.queues[c][q]) /\ p \notin Elements(s.queues[c][q]) => IsDistinct(seq)
    BY <2>1, <2>2, AppendElements
  <2>4. IsDistinct(s.queues[c][q]) /\ p \notin Elements(s.queues[c][q])
    BY DEF GoodSched, Single, Has, In
  <2>5. t = SetQueue(s, c, q, seq) BY <1>2, <2>1 DEF EnqueueOnCpu
  <2>6. /\ t \in SchedulerState /\ t.cur = s.cur /\ t.queues[c][q] = seq
        /\ \A d \in Cpu, r \in Qos : d # c \/ r # q => t.queues[d][r] = s.queues[d][r]
    BY <2>3, <2>5, SetQueueFields DEF GoodSched
  <2>7. In(t, c, q, p) /\ \A r \in TaskId : r # p => (In(t, c, q, r) <=> In(s, c, q, r))
    BY <2>3, <2>6 DEF In
  <2>8. /\ GoodSched(t) /\ Has(t, p)
        /\ \A r \in TaskId : r # p => (Has(t, r) <=> Has(s, r))
    BY <2>3, <2>4, <2>6, <2>7, SingleQueued
  <2>9. Bounded(s) => Bounded(t)
    <3>1. Len(s.queues[c][q]) \in Nat BY <2>2
    <3>2. Len(seq) <= Capacity BY <1>2, <2>3, <3>1, SchedulerAssumption DEF Full
    <3>3. \A d \in Cpu, r \in Qos :
             \/ Free(t.queues[d][r]) \subseteq Free(s.queues[d][r])
             \/ Len(t.queues[d][r]) <= Capacity
      BY <2>6, <3>2
    <3>4. QED BY <2>8, <3>3, BoundedKept
  <2>10. QED BY <1>2, <2>6, <2>8, <2>9
<1>3. QED BY <1>1, <1>2

\* The current entry of c is dropped.
LEMMA FinishEffect ==
    ASSUME NEW s, GoodSched(s), NEW c \in Cpu, NEW t, t = SetCur(s, c, None)
    PROVE  /\ GoodSched(t) /\ t.queues = s.queues /\ t.cur[c] = None
           /\ \A d \in Cpu : d # c => t.cur[d] = s.cur[d]
           /\ \A r \in TaskId : Has(t, r) <=> Has(s, r) /\ ~ Runs(s, c, r)
           /\ Bounded(s) => Bounded(t)
<1>1. /\ t \in SchedulerState /\ t.queues = s.queues /\ t.cur[c] = None
      /\ \A d \in Cpu : d # c => t.cur[d] = s.cur[d]
  <2>1. s \in SchedulerState BY DEF GoodSched
  <2>2. QED BY <2>1, SetCurFields
<1>2. \A p \in TaskId, d \in Cpu, q \in Qos : In(t, d, q, p) <=> In(s, d, q, p) BY <1>1 DEF In
<1>3. \A p \in TaskId, d \in Cpu : Runs(t, d, p) <=> Runs(s, d, p) /\ d # c BY <1>1 DEF Runs
<1>4. \A d \in Cpu, q \in Qos : IsDistinct(t.queues[d][q]) BY <1>1 DEF GoodSched, Single
<1>5. GoodSched(t) BY <1>1, <1>2, <1>3, <1>4, SingleLess
<1>6. \A r \in TaskId : Has(t, r) <=> Has(s, r) /\ ~ Runs(s, c, r)
  BY <1>2, <1>3 DEF GoodSched, Single, Has
<1>7. QED BY <1>1, <1>5, <1>6 DEF Bounded

\* A purged task has no entry, the others keep theirs.
LEMMA PurgeEffect ==
    ASSUME NEW s, GoodSched(s), NEW p \in TaskId, NEW t, t = Purge(s, p)
    PROVE  /\ GoodSched(t) /\ ~ Has(t, p)
           /\ \A r \in TaskId : r # p => (Has(t, r) <=> Has(s, r))
           /\ \A c \in Cpu : t.cur[c] = IF Runs(s, c, p) THEN None ELSE s.cur[c]
           /\ \A c \in Cpu, q \in Qos : t.queues[c][q] = Without(s.queues[c][q], p)
<1>1. \A c \in Cpu, q \in Qos :
        /\ Without(s.queues[c][q], p) \in Seq(TaskId)
        /\ Elements(Without(s.queues[c][q], p)) = Elements(s.queues[c][q]) \ {p}
        /\ IsDistinct(Without(s.queues[c][q], p))
  BY SchedFields, WithoutProperties DEF GoodSched, Single
<1>2. /\ \A c \in Cpu, q \in Qos : t.queues[c][q] = Without(s.queues[c][q], p)
      /\ \A c \in Cpu : t.cur[c] = IF Runs(s, c, p) THEN None ELSE s.cur[c]
  BY DEF Purge
<1>3. t \in SchedulerState
  BY <1>1, SchedFields DEF Purge, SchedulerState, Queue, GoodSched, EntryType
<1>4. \A r \in TaskId, c \in Cpu, q \in Qos : In(t, c, q, r) <=> In(s, c, q, r) /\ r # p
  BY <1>1, <1>2 DEF In
<1>5. \A r \in TaskId, c \in Cpu : Runs(t, c, r) <=> Runs(s, c, r) /\ r # p
  BY <1>2 DEF Runs
<1>6. GoodSched(t) BY <1>1, <1>2, <1>3, <1>4, <1>5, SingleLess
<1>7. QED BY <1>2, <1>4, <1>5, <1>6 DEF Has

\* A purge adds nothing to a queue.
LEMMA PurgeBounded ==
    ASSUME NEW s, GoodSched(s), NEW p \in TaskId, NEW t, t = Purge(s, p)
    PROVE  Bounded(s) => Bounded(t)
<1>1. /\ GoodSched(t)
      /\ \A c \in Cpu, q \in Qos : t.queues[c][q] = Without(s.queues[c][q], p)
  BY PurgeEffect
<1>2. ASSUME NEW c \in Cpu, NEW q \in Qos
      PROVE  Free(t.queues[c][q]) \subseteq Free(s.queues[c][q])
  <2>1. PICK old, new : old = s.queues[c][q] /\ new = t.queues[c][q] OBVIOUS
  <2>2. old \in Seq(TaskId) BY <2>1, SchedFields DEF GoodSched
  <2>3. Elements(new) \subseteq Elements(old) BY <1>1, <2>1, <2>2, WithoutProperties
  <2>4. QED BY <2>1, <2>3 DEF Free
<1>3. QED BY <1>1, <1>2, BoundedKept

\* The highest of a set of classes, and the lowest of a set of CPUs.
LEMMA HighestIn == ASSUME NEW Q \in SUBSET Qos, Q # {} PROVE Highest(Q) \in Q
<1> DEFINE D == {MaxQos - q : q \in Q}
<1>1. D \subseteq Nat /\ D # {} BY SchedulerAssumption DEF Qos
<1>2. PICK d \in D : \A e \in D : d <= e
  <2> HIDE DEF D
  <2> QED BY <1>1, NatMinimum
<1>3. PICK q \in Q : d = MaxQos - q OBVIOUS
<1>4. \A r \in Q : r <= q
  <2> SUFFICES ASSUME NEW r \in Q PROVE r <= q OBVIOUS
  <2>1. MaxQos - q <= MaxQos - r BY <1>2, <1>3
  <2>2. QED BY <2>1, SchedulerAssumption DEF Qos
<1>5. QED BY <1>4 DEF Highest

\* The lowest of a set of CPUs is one of them.
LEMMA LowestIn == ASSUME NEW C \in SUBSET Cpu, C # {} PROVE Lowest(C) \in C
<1>1. C \subseteq Nat BY SchedulerAssumption DEF Cpu
<1>2. PICK c \in C : \A d \in C : c <= d BY <1>1, NatMinimum
<1>3. QED BY <1>2 DEF Lowest

\* The head of a queue leaves it and may become the current entry of CPU c,
\* which had none.
LEMMA PopEffect ==
    ASSUME NEW s, GoodSched(s), NEW v \in Cpu, NEW q \in Qos, s.queues[v][q] # <<>>,
           NEW t, t = SetQueue(s, v, q, Tail(s.queues[v][q])), NEW x, x = Head(s.queues[v][q])
    PROVE  /\ x \in TaskId /\ Has(s, x) /\ \A c \in Cpu : ~ Runs(s, c, x)
           /\ GoodSched(t) /\ ~ Has(t, x) /\ t.cur = s.cur
           /\ \A r \in TaskId : r # x => (Has(t, r) <=> Has(s, r))
           /\ NoneFreed(s, t)
           /\ \A d \in Cpu, r \in Qos : d # v \/ r # q => t.queues[d][r] = s.queues[d][r]
<1>1. PICK old : old = s.queues[v][q] OBVIOUS
<1>2. old \in Seq(TaskId) /\ IsDistinct(old) BY <1>1, SchedFields DEF GoodSched, Single
<1>3. /\ x \in TaskId /\ x \in Elements(old) /\ Tail(old) \in Seq(TaskId)
      /\ Elements(old) = Elements(Tail(old)) \cup {x} /\ Len(Tail(old)) = Len(old) - 1
      /\ IsDistinct(Tail(old)) /\ x \notin Elements(Tail(old))
  BY <1>1, <1>2, PopElements
<1>4. /\ t \in SchedulerState /\ t.cur = s.cur /\ t.queues[v][q] = Tail(old)
      /\ \A d \in Cpu, r \in Qos : d # v \/ r # q => t.queues[d][r] = s.queues[d][r]
  <2>1. PICK seq : seq = Tail(old) OBVIOUS
  <2>2. t = SetQueue(s, v, q, seq) /\ seq \in Seq(TaskId) BY <1>1, <1>3, <2>1
  <2>3. /\ t \in SchedulerState /\ t.cur = s.cur /\ t.queues[v][q] = seq
        /\ \A d \in Cpu, r \in Qos : d # v \/ r # q => t.queues[d][r] = s.queues[d][r]
    BY <2>2, SetQueueFields DEF GoodSched
  <2>4. QED BY <2>1, <2>3
<1>5. In(s, v, q, x) BY <1>1, <1>3 DEF In
<1>6. \A p \in TaskId, c \in Cpu, r \in Qos : In(t, c, r, p) <=> In(s, c, r, p) /\ p # x
  <2> SUFFICES ASSUME NEW p \in TaskId, NEW c \in Cpu, NEW r \in Qos
               PROVE  In(t, c, r, p) <=> In(s, c, r, p) /\ p # x
    OBVIOUS
  <2>1. CASE c = v /\ r = q BY <1>1, <1>3, <1>4, <2>1 DEF In
  <2>2. CASE c # v \/ r # q
    <3>1. In(t, c, r, p) <=> In(s, c, r, p) BY <1>4, <2>2 DEF In
    <3>2. ~ In(s, c, r, x) BY <1>3, <1>5, <2>2 DEF GoodSched, Single
    <3>3. QED BY <3>1, <3>2
  <2>3. QED BY <2>1, <2>2
<1>7. \A p \in TaskId, c \in Cpu : Runs(t, c, p) <=> Runs(s, c, p) BY <1>4 DEF Runs
<1>8. \A c \in Cpu, r \in Qos : IsDistinct(t.queues[c][r]) BY <1>3, <1>4 DEF GoodSched, Single
<1>9. GoodSched(t) BY <1>4, <1>6, <1>7, <1>8, SingleLess
<1>10. \A c \in Cpu : ~ Runs(s, c, x) BY <1>3, <1>5 DEF GoodSched, Single
<1>11. NoneFreed(s, t) BY <1>1, <1>3, <1>4 DEF Free, NoneFreed
<1>12. QED BY <1>1, <1>3, <1>4, <1>5, <1>6, <1>7, <1>9, <1>10, <1>11 DEF Has

\* What ScheduleNext(s, c) may change: only the current entry of c, which goes.
LEMMA ScheduleNextEffect ==
    ASSUME NEW s, GoodSched(s), NEW c \in Cpu, NEW t, t = ScheduleNext(s, c)
    PROVE  /\ GoodSched(t)
           /\ \A d \in Cpu : d # c => t.cur[d] = s.cur[d]
           /\ \A r \in TaskId : Has(t, r) => Has(s, r)
           /\ \A r \in TaskId : Has(s, r) /\ ~ Runs(s, c, r) => Has(t, r)
           /\ Bounded(s) => Bounded(t)
<1>1. CASE Waiting(s, c) = {}
  <2>1. t = SetCur(s, c, None) BY <1>1 DEF ScheduleNext
  <2>2. QED BY <2>1, FinishEffect
<1>2. CASE Waiting(s, c) # {}
  <2>1. PICK q : q = Highest(Waiting(s, c)) OBVIOUS
  <2>2. q \in Qos /\ s.queues[c][q] # <<>> BY <1>2, <2>1, HighestIn DEF Waiting
  <2>3. PICK x : x = Head(s.queues[c][q]) OBVIOUS
  <2>4. PICK u : u = SetQueue(s, c, q, Tail(s.queues[c][q])) OBVIOUS
  <2>5. t = SetCur(u, c, Entry(x, q)) BY <1>2, <2>1, <2>3, <2>4 DEF ScheduleNext
  <2>6. /\ x \in TaskId /\ Has(s, x) /\ \A d \in Cpu : ~ Runs(s, d, x)
        /\ GoodSched(u) /\ ~ Has(u, x) /\ u.cur = s.cur
        /\ \A r \in TaskId : r # x => (Has(u, r) <=> Has(s, r))
        /\ NoneFreed(s, u)
        /\ \A d \in Cpu, r \in Qos : d # c \/ r # q => u.queues[d][r] = s.queues[d][r]
    BY <2>2, <2>3, <2>4, PopEffect
  <2>7. PICK w : w = SetCur(u, c, None) OBVIOUS
  <2>8. /\ GoodSched(w) /\ w.queues = u.queues /\ w.cur[c] = None
        /\ \A d \in Cpu : d # c => w.cur[d] = u.cur[d]
        /\ \A r \in TaskId : Has(w, r) <=> Has(u, r) /\ ~ Runs(u, c, r)
    BY <2>6, <2>7, FinishEffect
  <2>9. Entry(x, q) \in EntryType \cup {None} BY <2>2, <2>6, EntryIsSome
  <2>10. /\ t \in SchedulerState /\ t.queues = u.queues /\ t.cur[c] = Entry(x, q)
         /\ \A d \in Cpu : d # c => t.cur[d] = u.cur[d]
    <3>1. PICK e : e = Entry(x, q) OBVIOUS
    <3>2. u \in SchedulerState BY <2>6 DEF GoodSched
    <3>3. t = SetCur(u, c, e) /\ e \in EntryType \cup {None} BY <2>5, <2>9, <3>1
    <3>4. /\ t \in SchedulerState /\ t.queues = u.queues /\ t.cur[c] = e
          /\ \A d \in Cpu : d # c => t.cur[d] = u.cur[d]
      BY <3>2, <3>3, SetCurFields
    <3>5. QED BY <3>1, <3>4
  <2>11. /\ t.queues = w.queues /\ \A d \in Cpu : d # c => t.cur[d] = w.cur[d]
    BY <2>8, <2>10
  <2>12. ~ Has(w, x) BY <2>6, <2>8
  <2>13. /\ GoodSched(t) /\ Has(t, x)
         /\ \A r \in TaskId : r # x => (Has(t, r) <=> Has(w, r))
    BY <2>2, <2>6, <2>8, <2>10, <2>11, <2>12, SingleRuns
  <2>14. \A r \in TaskId : Runs(u, c, r) <=> Runs(s, c, r) BY <2>6 DEF Runs
  <2>15. Bounded(s) => Bounded(t) BY <2>6, <2>10, <2>13, BoundedKept DEF NoneFreed
  <2>16. QED BY <2>6, <2>8, <2>10, <2>13, <2>14, <2>15
<1>3. QED BY <1>1, <1>2

\* A yield moves the current entry of c to its queue unless that is full.
LEMMA YieldEffect ==
    ASSUME NEW s, GoodSched(s), NEW c \in Cpu, NEW t, t = YieldCurrent(s, c)
    PROVE  /\ GoodSched(t)
           /\ \A d \in Cpu : d # c => t.cur[d] = s.cur[d]
           /\ \A r \in TaskId : Has(t, r) <=> Has(s, r)
           /\ t.cur[c] = None \/ (t = s /\ s.cur[c] # None /\ Full(s, c, s.cur[c].qos))
           /\ Bounded(s) => Bounded(t)
<1>1. CASE s.cur[c] = None \/ Full(s, c, s.cur[c].qos) BY <1>1 DEF YieldCurrent
<1>2. CASE ~ (s.cur[c] = None \/ Full(s, c, s.cur[c].qos))
  <2>1. PICK p, q : p = s.cur[c].id /\ q = s.cur[c].qos OBVIOUS
  <2>2. p \in TaskId /\ q \in Qos /\ Runs(s, c, p)
    BY <1>2, <2>1, SchedFields DEF GoodSched, EntryType, Runs
  <2>3. PICK seq : seq = Append(s.queues[c][q], p) OBVIOUS
  <2>4. s.queues[c][q] \in Seq(TaskId) BY <2>2, SchedFields DEF GoodSched
  <2>5. /\ seq \in Seq(TaskId) /\ Elements(seq) = Elements(s.queues[c][q]) \cup {p}
        /\ Len(seq) = Len(s.queues[c][q]) + 1
        /\ IsDistinct(s.queues[c][q]) /\ p \notin Elements(s.queues[c][q]) => IsDistinct(seq)
    BY <2>2, <2>3, <2>4, AppendElements
  <2>6. IsDistinct(s.queues[c][q]) /\ p \notin Elements(s.queues[c][q])
    BY <2>2 DEF GoodSched, Single, In
  <2>7. PICK u : u = SetQueue(s, c, q, seq) OBVIOUS
  <2>8. t = SetCur(u, c, None) BY <1>2, <2>1, <2>3, <2>7 DEF YieldCurrent, EnqueueOnCpu
  <2>9. /\ u \in SchedulerState /\ u.cur = s.cur /\ u.queues[c][q] = seq
        /\ \A d \in Cpu, r \in Qos : d # c \/ r # q => u.queues[d][r] = s.queues[d][r]
    BY <2>2, <2>5, <2>7, SetQueueFields DEF GoodSched
  <2>10. /\ t \in SchedulerState /\ t.queues = u.queues /\ t.cur[c] = None
         /\ \A d \in Cpu : d # c => t.cur[d] = u.cur[d]
    BY <2>8, <2>9, SetCurFields
  <2>11. PICK w : w = SetCur(s, c, None) OBVIOUS
  <2>12. /\ GoodSched(w) /\ w.queues = s.queues
         /\ \A r \in TaskId : Has(w, r) <=> Has(s, r) /\ ~ Runs(s, c, r)
    BY <2>11, FinishEffect
  <2>13. /\ w.cur = [s.cur EXCEPT ![c] = None]
         /\ t.cur = [u.cur EXCEPT ![c] = None]
    BY <2>8, <2>9, <2>11, SetCurIs DEF GoodSched
  <2>14. t.cur = w.cur BY <2>9, <2>13
  <2>15. ~ Has(w, p) BY <2>2, <2>12
  <2>16. /\ IsDistinct(t.queues[c][q]) /\ In(t, c, q, p)
         /\ \A r \in TaskId : r # p => (In(t, c, q, r) <=> In(w, c, q, r))
    BY <2>5, <2>6, <2>9, <2>10, <2>12 DEF In
  <2>17. \A d \in Cpu, r \in Qos : d # c \/ r # q => t.queues[d][r] = w.queues[d][r]
    BY <2>9, <2>10, <2>12
  <2>18. /\ GoodSched(t) /\ Has(t, p)
         /\ \A r \in TaskId : r # p => (Has(t, r) <=> Has(w, r))
    BY <2>2, <2>10, <2>12, <2>14, <2>15, <2>16, <2>17, SingleQueued
  <2>19. \A r \in TaskId : r # p => ~ Runs(s, c, r) BY <2>1 DEF Runs
  <2>20. Has(s, p) BY <2>2 DEF Has
  <2>21. Bounded(s) => Bounded(t)
    <3>1. Len(s.queues[c][q]) \in Nat BY <2>4
    <3>2. Len(seq) <= Capacity BY <1>2, <2>1, <2>5, <3>1, SchedulerAssumption DEF Full
    <3>3. \A d \in Cpu, r \in Qos :
             \/ Free(t.queues[d][r]) \subseteq Free(s.queues[d][r])
             \/ Len(t.queues[d][r]) <= Capacity
      BY <2>9, <2>10, <3>2
    <3>4. QED BY <2>18, <3>3, BoundedKept
  <2>22. QED BY <2>9, <2>10, <2>12, <2>18, <2>19, <2>20, <2>21
<1>3. QED BY <1>1, <1>2

\* A change of class keeps every entry: a current one in place, a queued one
\* at the back of its new class.
LEMMA SetTaskQosEffect ==
    ASSUME NEW s, GoodSched(s), NEW p \in TaskId, NEW q \in Qos,
           SetTaskQosErr(s, p, q) # "QueueFull", NEW t, t = SetTaskQos(s, p, q)
    PROVE  /\ GoodSched(t)
           /\ \A d \in Cpu, r \in TaskId : Runs(t, d, r) <=> Runs(s, d, r)
           /\ \A r \in TaskId : Has(t, r) <=> Has(s, r)
           /\ Bounded(s) => Bounded(t)
<1>1. CASE SetTaskQosErr(s, p, q) # "Updated" BY <1>1 DEF SetTaskQos
<1>2. CASE SetTaskQosErr(s, p, q) = "Updated" /\ \E c \in Cpu : Runs(s, c, p)
  <2>1. PICK cur : cur = [c \in Cpu |-> IF Runs(s, c, p) THEN Entry(p, q) ELSE s.cur[c]]
    OBVIOUS
  <2>2. t = [s EXCEPT !.cur = cur] BY <1>2, <2>1 DEF SetTaskQos
  <2>3. cur \in [Cpu -> EntryType \cup {None}]
    BY <2>1, EntryIsSome, SchedFields DEF GoodSched
  <2>4. t \in SchedulerState /\ t.cur = cur /\ t.queues = s.queues
    BY <2>2, <2>3 DEF GoodSched, SchedulerState, EntryType
  <2>5. \A d \in Cpu, r \in TaskId : Runs(t, d, r) <=> Runs(s, d, r)
    BY <2>1, <2>4, EntryIsSome DEF Runs
  <2>6. \A d \in Cpu, a \in Qos, r \in TaskId : In(t, d, a, r) <=> In(s, d, a, r)
    BY <2>4 DEF In
  <2>7. \A d \in Cpu, a \in Qos : IsDistinct(t.queues[d][a]) BY <2>4 DEF GoodSched, Single
  <2>8. GoodSched(t) BY <2>4, <2>5, <2>6, <2>7, SingleLess
  <2>9. QED BY <2>4, <2>5, <2>6, <2>8 DEF Has, Bounded
<1>3. CASE SetTaskQosErr(s, p, q) = "Updated" /\ ~ \E c \in Cpu : Runs(s, c, p)
  <2>1. QueuedAt(s, p) # {} BY <1>3 DEF SetTaskQosErr
  <2>2. PICK at : at = CHOOSE cq \in QueuedAt(s, p) : TRUE OBVIOUS
  <2>3. at \in QueuedAt(s, p) BY <2>1, <2>2
  <2>4. at[1] \in Cpu /\ at[2] \in Qos /\ Contains(s.queues[at[1]][at[2]], p)
    BY <2>3 DEF QueuedAt
  <2>5. PICK c : c = at[1] OBVIOUS
  <2>6. PICK u : u = Purge(s, p) OBVIOUS
  <2>7. t = EnqueueOnCpu(u, c, p, q) BY <1>3, <2>2, <2>5, <2>6 DEF SetTaskQos
  <2>8. /\ GoodSched(u) /\ ~ Has(u, p)
        /\ \A r \in TaskId : r # p => (Has(u, r) <=> Has(s, r))
        /\ \A d \in Cpu : u.cur[d] = IF Runs(s, d, p) THEN None ELSE s.cur[d]
        /\ \A d \in Cpu, a \in Qos : u.queues[d][a] = Without(s.queues[d][a], p)
    BY <2>6, PurgeEffect
  <2>9. ~ Full(u, c, q)
    <3>1. ~ (Len(Without(s.queues[at[1]][q], p)) >= Capacity)
      BY <1>3, <2>1, <2>2 DEF SetTaskQosErr
    <3>2. QED BY <2>4, <2>5, <2>8, <3>1 DEF Full
  <2>10. /\ GoodSched(t) /\ t.cur = u.cur
         /\ \A r \in TaskId : r # p => (Has(t, r) <=> Has(u, r))
         /\ ~ Full(u, c, q) => Has(t, p)
         /\ Bounded(u) => Bounded(t)
    BY <2>4, <2>5, <2>7, <2>8, EnqueueEffect
  <2>11. Has(s, p)
    BY <2>4 DEF Has, In, Contains, Elements
  <2>12. \A d \in Cpu, r \in TaskId : Runs(t, d, r) <=> Runs(s, d, r)
    BY <1>3, <2>8, <2>10 DEF Runs
  <2>13. Bounded(s) => Bounded(u) BY <2>6, PurgeBounded
  <2>14. QED BY <2>8, <2>9, <2>10, <2>11, <2>12, <2>13
<1>4. QED BY <1>1, <1>2, <1>3

\* A steal by a CPU without a current entry moves one entry, to that CPU or to
\* the queue of its task's home CPU.
LEMMA StealEffect ==
    ASSUME NEW s, GoodSched(s), NEW c \in Cpu, s.cur[c] = None,
           NEW aff \in [TaskId -> SUBSET Cpu], NEW home \in [TaskId -> Cpu],
           NEW t, t = StealIntoCurrent(s, c, aff, home)
    PROVE  /\ GoodSched(t)
           /\ \A d \in Cpu : d # c => t.cur[d] = s.cur[d]
           /\ \A r \in TaskId : Has(t, r) <=> Has(s, r)
           /\ Bounded(s) /\ (\A r \in TaskId : aff[r] = Cpu \/ r \in Pinned) => Bounded(t)
<1>1. CASE StealClasses(s, c) = {} BY <1>1 DEF StealIntoCurrent
<1>2. CASE StealClasses(s, c) # {}
  <2>1. PICK q : q = Highest(StealClasses(s, c)) OBVIOUS
  <2>2. q \in Qos /\ Victims(s, c, q) # {} BY <1>2, <2>1, HighestIn DEF StealClasses
  <2>3. PICK v : v = Lowest(Victims(s, c, q)) OBVIOUS
  <2>4. v \in Cpu /\ s.queues[v][q] # <<>>
    <3>1. Victims(s, c, q) \in SUBSET Cpu BY SchedulerAssumption DEF Victims
    <3>2. v \in Victims(s, c, q) BY <2>2, <2>3, <3>1, LowestIn
    <3>3. QED BY <3>1, <3>2 DEF Victims
  <2>5. PICK x : x = Head(s.queues[v][q]) OBVIOUS
  <2>6. PICK u : u = SetQueue(s, v, q, Tail(s.queues[v][q])) OBVIOUS
  <2>7. /\ Stolen(s, c).entry = Entry(x, q) /\ Stolen(s, c).rest = u
        /\ Stolen(s, c).entry.id = x /\ Stolen(s, c).entry.qos = q
    BY <2>1, <2>3, <2>5, <2>6 DEF Stolen, Entry
  <2>8. /\ x \in TaskId /\ Has(s, x)
        /\ GoodSched(u) /\ ~ Has(u, x) /\ u.cur = s.cur
        /\ \A r \in TaskId : r # x => (Has(u, r) <=> Has(s, r))
        /\ NoneFreed(s, u)
        /\ \A d \in Cpu, r \in Qos : d # v \/ r # q => u.queues[d][r] = s.queues[d][r]
    BY <2>2, <2>4, <2>5, <2>6, PopEffect
  <2>9. Bounded(s) => Bounded(u) BY <2>8, BoundedKept DEF NoneFreed
  <2>10. CASE c \in aff[x]
    <3>1. PICK e : e = Entry(x, q) OBVIOUS
    <3>2. t = SetCur(u, c, e) BY <1>2, <2>7, <2>10, <3>1 DEF StealIntoCurrent
    <3>3. e \in EntryType \cup {None} /\ u \in SchedulerState
      BY <2>2, <2>8, <3>1, EntryIsSome DEF GoodSched
    <3>4. /\ t \in SchedulerState /\ t.queues = u.queues /\ t.cur[c] = Entry(x, q)
          /\ \A d \in Cpu : d # c => t.cur[d] = u.cur[d]
      BY <3>1, <3>2, <3>3, SetCurFields
    <3>5. u.cur[c] = None BY <2>8
    <3>6. /\ GoodSched(t) /\ Has(t, x)
          /\ \A r \in TaskId : r # x => (Has(t, r) <=> Has(u, r))
      BY <2>2, <2>8, <3>4, <3>5, SingleRuns
    <3>7. QED BY <2>8, <2>9, <3>4, <3>6 DEF Bounded
  <2>11. CASE c \notin aff[x]
    <3>1. PICK h : h = home[x] OBVIOUS
    <3>2. h \in Cpu BY <2>8, <3>1
    <3>3. PICK seq : seq = <<x>> \o u.queues[h][q] OBVIOUS
    <3>4. t = SetQueue(u, h, q, seq) BY <1>2, <2>7, <2>11, <3>1, <3>3 DEF StealIntoCurrent
    <3>5. u.queues[h][q] \in Seq(TaskId) BY <2>2, <2>8, <3>2, SchedFields DEF GoodSched
    <3>6. /\ seq \in Seq(TaskId) /\ Elements(seq) = Elements(u.queues[h][q]) \cup {x}
          /\ IsDistinct(u.queues[h][q]) /\ x \notin Elements(u.queues[h][q]) => IsDistinct(seq)
      BY <2>8, <3>3, <3>5, ConsElements
    <3>7. IsDistinct(u.queues[h][q]) /\ x \notin Elements(u.queues[h][q])
      BY <2>2, <2>8, <3>2 DEF GoodSched, Single, Has, In
    <3>8. /\ t \in SchedulerState /\ t.cur = u.cur /\ t.queues[h][q] = seq
          /\ \A d \in Cpu, r \in Qos : d # h \/ r # q => t.queues[d][r] = u.queues[d][r]
      BY <2>2, <2>8, <3>2, <3>4, <3>6, SetQueueFields DEF GoodSched
    <3>9. In(t, h, q, x) /\ \A r \in TaskId : r # x => (In(t, h, q, r) <=> In(u, h, q, r))
      BY <3>6, <3>8 DEF In
    <3>10. /\ GoodSched(t) /\ Has(t, x)
           /\ \A r \in TaskId : r # x => (Has(t, r) <=> Has(u, r))
      BY <2>2, <2>8, <3>2, <3>6, <3>7, <3>8, <3>9, SingleQueued
    <3>11. ASSUME \A r \in TaskId : aff[r] = Cpu \/ r \in Pinned
           PROVE  Bounded(s) => Bounded(t)
      <4>1. x \in Pinned BY <2>8, <2>11, <3>11
      <4>2. \A d \in Cpu, r \in Qos : Free(t.queues[d][r]) \subseteq Free(u.queues[d][r])
        BY <3>6, <3>8, <4>1 DEF Free
      <4>3. QED BY <2>8, <2>9, <3>10, <4>2, BoundedKept
    <3>12. QED BY <2>8, <3>8, <3>10, <3>11
  <2>12. QED BY <2>10, <2>11
<1>3. QED BY <1>1, <1>2

-----------------------------------------------------------------------------
(* Scheduler and task table                                                 *)

\* The parts of the kernel's state, and those of a task.
LEMMA KFields ==
    ASSUME NEW kk, GoodK(kk)
    PROVE  /\ kk \in KState /\ kk.sched \in SchedulerState /\ GoodSched(kk.sched)
           /\ kk.task \in [TaskId -> TaskState]
           /\ \A p \in TaskId : kk.task[p] \in TaskState
BY DEF GoodK, KState, GoodSched

\* A new scheduler for the same tasks, with no new entry for any of them.
LEMMA SchedReplaced ==
    ASSUME NEW kk, GoodK(kk), NEW s, GoodSched(s), \A r \in TaskId : Has(s, r) => Has(kk.sched, r),
           NEW k1, k1 = [kk EXCEPT !.sched = s]
    PROVE  GoodK(k1) /\ k1.sched = s /\ k1.task = kk.task
<1>1. k1 \in KState /\ k1.sched = s /\ k1.task = kk.task BY DEF GoodK, KState, GoodSched
<1>2. QED BY <1>1 DEF GoodK, GoodSched, Entitled, IsBlocked

\* The CPU a woken task is queued on.
LEMMA HomeOfType ==
    ASSUME NEW kk \in KState, NEW p \in TaskId
    PROVE  HomeOf(kk, p) \in Cpu
<1>1. kk.task[p].home \in Cpu BY DEF KState, TaskState
<1>2. 0 \in Cpu BY SchedulerAssumption DEF Cpu
<1>3. kk.task[p].aff \cap Online \in SUBSET Cpu BY SchedulerAssumption
<1>4. QED BY <1>1, <1>2, <1>3, LowestIn DEF HomeOf, ClampHomeToAffinity

(* k1 comes from kk by waking some tasks. *)
Woken(kk, k1) ==
    /\ \A c \in Cpu : k1.sched.cur[c] = kk.sched.cur[c]
    /\ \A r \in TaskId :
        /\ k1.task[r].state = kk.task[r].state
        /\ k1.task[r].aff = kk.task[r].aff
        /\ k1.task[r].blocked \in {kk.task[r].blocked, NotBlocked}
        /\ Has(kk.sched, r) => Has(k1.sched, r)
        /\ IsBlocked(kk, r) /\ ~ IsBlocked(k1, r) => Has(k1.sched, r)
    /\ Bounded(kk.sched) => Bounded(k1.sched)

\* Waking in several steps.
LEMMA WokenTransitive ==
    ASSUME NEW ka, NEW kb, NEW kc, Woken(ka, kb), Woken(kb, kc)
    PROVE  Woken(ka, kc)
BY DEF Woken, IsBlocked, NotBlocked

\* A wake-up.  It fails only if the queue is full.
LEMMA WakeEffect ==
    ASSUME NEW kk, GoodK(kk), NEW p \in TaskId, NEW k1, k1 = Wake(kk, p)
    PROVE  /\ GoodK(k1) /\ Woken(kk, k1)
           /\ IsBlocked(k1, p) => \E c \in Cpu, q \in Qos : Full(Purge(kk.sched, p), c, q)
<1>1. CASE ~ IsBlocked(kk, p) BY <1>1 DEF Wake, Woken
<1>2. CASE IsBlocked(kk, p)
  <2>1. PICK s : s = Purge(kk.sched, p) OBVIOUS
  <2>2. PICK c : c = HomeOf(kk, p) OBVIOUS
  <2>3. PICK q : q = kk.task[p].qos OBVIOUS
  <2>4. c \in Cpu /\ q \in Qos BY <2>2, <2>3, HomeOfType, KFields DEF TaskState
  <2>5. ~ Has(kk.sched, p) BY <1>2 DEF GoodK, Entitled
  <2>6. /\ GoodSched(s) /\ ~ Has(s, p)
        /\ \A r \in TaskId : r # p => (Has(s, r) <=> Has(kk.sched, r))
        /\ \A d \in Cpu : s.cur[d] = IF Runs(kk.sched, d, p) THEN None ELSE kk.sched.cur[d]
    BY <2>1, KFields, PurgeEffect
  <2>7. Bounded(kk.sched) => Bounded(s) BY <2>1, KFields, PurgeBounded
  <2>8. \A d \in Cpu : s.cur[d] = kk.sched.cur[d] BY <2>5, <2>6 DEF Has
  <2>9. CASE Full(s, c, q)
    <3>1. k1 = [kk EXCEPT !.sched = s] BY <1>2, <2>1, <2>2, <2>3, <2>9 DEF Wake
    <3>2. GoodK(k1) /\ k1.sched = s /\ k1.task = kk.task
      BY <2>5, <2>6, <3>1, SchedReplaced
    <3>3. Woken(kk, k1) BY <2>5, <2>6, <2>7, <2>8, <3>2 DEF Woken, IsBlocked
    <3>4. QED BY <2>1, <2>4, <2>6, <2>9, <3>2, <3>3
  <2>10. CASE ~ Full(s, c, q)
    <3>1. PICK t : t = EnqueueOnCpu(s, c, p, q) OBVIOUS
    <3>2. PICK tasks : tasks = [kk.task EXCEPT ![p].blocked = NotBlocked] OBVIOUS
    <3>3. k1 = [sched |-> t, task |-> tasks]
      BY <1>2, <2>1, <2>2, <2>3, <2>10, <3>1, <3>2 DEF Wake
    <3>4. /\ GoodSched(t) /\ t.cur = s.cur
          /\ \A r \in TaskId : r # p => (Has(t, r) <=> Has(s, r))
          /\ ~ Full(s, c, q) => Has(t, p)
          /\ Bounded(s) => Bounded(t)
      BY <2>4, <2>6, <3>1, EnqueueEffect
    <3>5. /\ tasks \in [TaskId -> TaskState]
          /\ \A r \in TaskId : r # p => tasks[r] = kk.task[r]
          /\ tasks[p].state = kk.task[p].state /\ tasks[p].blocked = NotBlocked
          /\ tasks[p].aff = kk.task[p].aff
      BY <3>2, KFields DEF TaskState, NotBlocked
    <3>6. k1 \in KState /\ k1.sched = t /\ k1.task = tasks
      BY <3>3, <3>4, <3>5 DEF KState, GoodSched
    <3>7. kk.task[p].state # "Suspended" BY <1>2 DEF GoodK, Entitled
    <3>8. ASSUME NEW r \in TaskId
          PROVE  /\ IsBlocked(k1, r) => ~ Has(t, r)
                 /\ k1.task[r].state = "Suspended" => ~ Has(t, r) /\ ~ IsBlocked(k1, r)
      <4>1. CASE r = p BY <3>5, <3>6, <3>7, <4>1 DEF IsBlocked, NotBlocked
      <4>2. CASE r # p BY <2>6, <3>4, <3>5, <3>6, <4>2 DEF GoodK, Entitled, IsBlocked
      <4>3. QED BY <4>1, <4>2
    <3>9. GoodK(k1) BY <3>4, <3>6, <3>8 DEF GoodK, GoodSched, Entitled
    <3>10. Woken(kk, k1)
      <4>1. \A d \in Cpu : k1.sched.cur[d] = kk.sched.cur[d] BY <2>8, <3>4, <3>6
      <4>2. ASSUME NEW r \in TaskId
            PROVE  /\ k1.task[r].state = kk.task[r].state
                   /\ k1.task[r].aff = kk.task[r].aff
                   /\ k1.task[r].blocked \in {kk.task[r].blocked, NotBlocked}
                   /\ Has(kk.sched, r) => Has(k1.sched, r)
                   /\ IsBlocked(kk, r) /\ ~ IsBlocked(k1, r) => Has(k1.sched, r)
        <5>1. CASE r = p BY <2>5, <2>10, <3>4, <3>5, <3>6, <5>1
        <5>2. CASE r # p BY <2>6, <3>4, <3>5, <3>6, <5>2 DEF IsBlocked
        <5>3. QED BY <5>1, <5>2
      <4>3. QED BY <2>7, <3>4, <3>6, <4>1, <4>2 DEF Woken
    <3>11. ~ IsBlocked(k1, p) BY <3>5, <3>6 DEF IsBlocked, NotBlocked
    <3>12. QED BY <3>9, <3>10, <3>11
  <2>11. QED BY <2>9, <2>10
<1>3. QED BY <1>1, <1>2

(* No class of a CPU can be full: it holds every task. *)
Roomy == IsFiniteSet(TaskId) /\ Cardinality(TaskId) <= Capacity

\* A queue that lacks a task is not full.
LEMMA RoomInQueue ==
    ASSUME Roomy, NEW s, GoodSched(s), NEW c \in Cpu, NEW q \in Qos, NEW p \in TaskId,
           ~ In(s, c, q, p)
    PROVE  ~ Full(s, c, q)
<1>1. PICK seq : seq = s.queues[c][q] OBVIOUS
<1>2. seq \in Seq(TaskId) /\ IsDistinct(seq) /\ p \notin Elements(seq)
  BY <1>1, SchedFields DEF GoodSched, Single, In
<1>3. Len(seq) < Cardinality(TaskId) BY <1>2, DistinctRoom DEF Roomy
<1>4. Len(seq) \in Nat /\ Cardinality(TaskId) \in Nat BY <1>2, FS_CardinalityType DEF Roomy
<1>5. QED BY <1>1, <1>3, <1>4, SchedulerAssumption DEF Full, Roomy

\* With room for every task a wake-up succeeds.
LEMMA WakeSucceeds ==
    ASSUME Roomy, NEW kk, GoodK(kk), NEW p \in TaskId, NEW k1, k1 = Wake(kk, p)
    PROVE  ~ IsBlocked(k1, p)
<1>1. ASSUME IsBlocked(k1, p) PROVE FALSE
  <2>1. PICK s : s = Purge(kk.sched, p) OBVIOUS
  <2>2. GoodSched(s) /\ ~ Has(s, p) BY <2>1, KFields, PurgeEffect
  <2>3. PICK c \in Cpu, q \in Qos : Full(s, c, q) BY <1>1, <2>1, WakeEffect
  <2>4. ~ In(s, c, q, p) BY <2>2 DEF Has
  <2>5. QED BY <2>2, <2>3, <2>4, RoomInQueue
<1>2. QED BY <1>1

\* Waking a list of tasks.
LEMMA WakeAllEffect ==
    ASSUME NEW kk, GoodK(kk), NEW ps \in Seq(TaskId), NEW k1, k1 = WakeAll(kk, ps)
    PROVE  GoodK(k1) /\ Woken(kk, k1)
<1> DEFINE n == Len(ps)
           V == {x \in KState : GoodK(x)}
           step == [x \in (1..n) \X V |-> Wake(x[2], ps[x[1]])]
           Body(h) == [i \in 0..n |-> IF i = 0 THEN kk ELSE Wake(h[i - 1], ps[i])]
           c == CHOOSE h : h = Body(h)
<1>1. n \in Nat /\ \A i \in 1..n : ps[i] \in TaskId OBVIOUS
<1>2. ASSUME NEW v \in V, NEW i \in 1..n
      PROVE  Wake(v, ps[i]) \in V /\ Woken(v, Wake(v, ps[i]))
  <2>1. PICK w : w = Wake(v, ps[i]) OBVIOUS
  <2>2. GoodK(w) /\ Woken(v, w) BY <1>1, <2>1, WakeEffect
  <2>3. QED BY <2>1, <2>2 DEF GoodK
<1>3. kk \in V BY DEF GoodK
<1>4. step \in [(1..n) \X V -> V] BY <1>2
<1>5. PICK f : DefinedTo(f, n, V, kk, step)
  <2> HIDE DEF step, n, V
  <2> QED BY <1>1, <1>3, <1>4, RecursionTo
<1>6. ASSUME NEW i \in 1..n PROVE f[i] = Wake(f[i - 1], ps[i])
  <2>1. i - 1 \in 0..n BY <1>1
  <2>2. <<i, f[i - 1]>> \in (1..n) \X V BY <1>5, <2>1 DEF DefinedTo
  <2>3. QED BY <1>5, <2>2 DEF DefinedTo
<1>7. f = Body(f)
  <2>1. \A i \in 0..n : i = 0 \/ i \in 1..n BY <1>1
  <2>2. f \in [0..n -> V] /\ f[0] = kk BY <1>5 DEF DefinedTo
  <2> HIDE DEF V
  <2>3. ASSUME NEW i \in 0..n PROVE f[i] = Body(f)[i] BY <1>6, <2>1, <2>2
  <2>4. DOMAIN f = 0..n /\ DOMAIN Body(f) = 0..n BY <2>2
  <2>5. QED BY <2>2, <2>3
<1>8. c = Body(c) BY <1>7
<1>9. k1 = c[n] BY DEF WakeAll
<1> HIDE DEF c
<1> DEFINE S == {i \in 0..n : c[i] \in V /\ Woken(kk, c[i])}
<1>10. 0 \in S
  <2>1. c[0] = kk BY <1>1, <1>8
  <2>2. Woken(kk, kk) BY DEF Woken
  <2>3. QED BY <1>1, <1>3, <2>1, <2>2
<1>11. ASSUME NEW i \in 0..n, i # n, i \in S PROVE i + 1 \in S
  <2>1. i \in Nat /\ i + 1 \in 1..n /\ i + 1 \in 0..n /\ i + 1 # 0 /\ (i + 1) - 1 = i
    BY <1>1, <1>11
  <2>2. c[i + 1] = Wake(c[i], ps[i + 1]) BY <1>8, <2>1
  <2>3. c[i] \in V /\ Woken(kk, c[i]) BY <1>11
  <2>4. c[i + 1] \in V /\ Woken(c[i], c[i + 1]) BY <1>2, <2>1, <2>2, <2>3
  <2>5. Woken(kk, c[i + 1]) BY <2>3, <2>4, WokenTransitive
  <2>6. QED BY <2>1, <2>4, <2>5
<1>12. \A i \in 0..n : i \in S
  <2> HIDE DEF S
  <2> QED BY <1>1, <1>10, <1>11, InductionTo
<1>13. n \in S
  <2>1. n \in 0..n BY <1>1
  <2> HIDE DEF S
  <2> QED BY <1>12, <2>1
<1>14. QED BY <1>9, <1>13

(* Only a pinned task is kept from a CPU. *)
FreeAnywhere(kk) == \A r \in TaskId : kk.task[r].aff = Cpu \/ r \in Pinned

(* What the kernel work of CPU c leaves alone: the current tasks of the other *)
(* CPUs, who was started, who was reaped, and (if no task is pinned) the      *)
(* bound of the queues.                                                       *)
Moved(c, kk, k1) ==
    /\ \A d \in Cpu, r \in TaskId : d # c /\ Runs(k1.sched, d, r) => Runs(kk.sched, d, r)
    /\ \A r \in TaskId :
        /\ k1.task[r].state = "Suspended" => kk.task[r].state = "Suspended"
        /\ kk.task[r].state = "Reaped" => k1.task[r].state = "Reaped"
    /\ FreeAnywhere(kk) => FreeAnywhere(k1) /\ (Bounded(kk.sched) => Bounded(k1.sched))

(* No parent waits for a zombie. *)
Sees(kk) ==
    \A p, q \in TaskId :
        /\ kk.task[p].state = "Running"
        /\ Parent[q] = p /\ kk.task[q].state = "Zombie"
        => kk.task[p].blocked \notin {OnChild(None), OnChild(q)}

\* The work of c in several steps.
LEMMA MovedTransitive ==
    ASSUME NEW c \in Cpu, NEW ka, NEW kb, NEW kc, Moved(c, ka, kb), Moved(c, kb, kc)
    PROVE  Moved(c, ka, kc)
BY DEF Moved

\* Waking tasks is such a step, keeps track of runnable tasks and blocks nobody.
LEMMA WokenIsMoved ==
    ASSUME NEW c \in Cpu, NEW kk, NEW k1, Woken(kk, k1)
    PROVE  /\ Moved(c, kk, k1)
           /\ \A d \in Cpu, r \in TaskId : Runs(k1.sched, d, r) <=> Runs(kk.sched, d, r)
           /\ Tracked(kk) => Tracked(k1)
           /\ Sees(kk) => Sees(k1)
<1>1. \A d \in Cpu, r \in TaskId : Runs(k1.sched, d, r) <=> Runs(kk.sched, d, r)
  BY DEF Woken, Runs
<1>2. FreeAnywhere(kk) => FreeAnywhere(k1) BY DEF Woken, FreeAnywhere
<1>3. Moved(c, kk, k1) BY <1>1, <1>2 DEF Woken, Moved
<1>4. Tracked(kk) => Tracked(k1) BY DEF Woken, Tracked, RunnableIn
<1>5. Sees(kk) => Sees(k1) BY DEF Woken, Sees, NotBlocked, OnChild
<1>6. QED BY <1>1, <1>3, <1>4, <1>5

\* So is replacing the scheduler by one without new entries.
LEMMA SchedMoved ==
    ASSUME NEW c \in Cpu, NEW kk, GoodK(kk), NEW s, GoodSched(s),
           \A r \in TaskId : Has(s, r) => Has(kk.sched, r),
           \A d \in Cpu, r \in TaskId : d # c /\ Runs(s, d, r) => Runs(kk.sched, d, r),
           Bounded(kk.sched) => Bounded(s),
           NEW k1, k1 = [kk EXCEPT !.sched = s]
    PROVE  /\ GoodK(k1) /\ k1.sched = s /\ k1.task = kk.task
           /\ Moved(c, kk, k1)
           /\ Sees(kk) => Sees(k1)
           /\ Tracked(kk) /\ (\A r \in TaskId : Has(kk.sched, r) /\ RunnableIn(kk, r) => Has(s, r))
                => Tracked(k1)
<1>1. GoodK(k1) /\ k1.sched = s /\ k1.task = kk.task BY SchedReplaced
<1>2. Moved(c, kk, k1) BY <1>1 DEF Moved, FreeAnywhere, Runs
<1>3. Sees(kk) => Sees(k1) BY <1>1 DEF Sees
<1>4. Tracked(kk) /\ (\A r \in TaskId : Has(kk.sched, r) /\ RunnableIn(kk, r) => Has(s, r))
        => Tracked(k1)
  BY <1>1 DEF Tracked, RunnableIn, IsBlocked
<1>5. QED BY <1>1, <1>2, <1>3, <1>4

\* Blocking the task p of CPU c.
LEMMA BlockEffect ==
    ASSUME NEW c \in Cpu, NEW kk, GoodK(kk), NEW p \in TaskId, kk.task[p].state = "Running",
           \A r \in TaskId : Runs(kk.sched, c, r) => r = p,
           NEW reason \in [on : {"None", "Event", "Child"}, child : TaskId \cup {None}],
           reason.on # "None", NEW k1, k1 = BlockCurrent(kk, c, p, reason)
    PROVE  /\ GoodK(k1) /\ Moved(c, kk, k1) /\ \A r \in TaskId : ~ Runs(k1.sched, c, r)
           /\ Tracked(kk) => Tracked(k1)
           /\ \A r \in TaskId : r # p => k1.task[r] = kk.task[r]
           /\ k1.task[p].blocked = reason /\ k1.task[p].state = "Running"
<1>1. PICK u : u = Purge(kk.sched, p) OBVIOUS
<1>2. PICK s : s = SetCur(u, c, None) OBVIOUS
<1>3. PICK tasks : tasks = [kk.task EXCEPT ![p].blocked = reason] OBVIOUS
<1>4. k1 = [sched |-> s, task |-> tasks]
  BY <1>1, <1>2, <1>3 DEF BlockCurrent, FinishCurrent
<1>5. /\ GoodSched(u) /\ ~ Has(u, p)
      /\ \A r \in TaskId : r # p => (Has(u, r) <=> Has(kk.sched, r))
      /\ \A d \in Cpu : u.cur[d] = IF Runs(kk.sched, d, p) THEN None ELSE kk.sched.cur[d]
  BY <1>1, KFields, PurgeEffect
<1>6. /\ GoodSched(s) /\ s.cur[c] = None
      /\ \A d \in Cpu : d # c => s.cur[d] = u.cur[d]
      /\ \A r \in TaskId : Has(s, r) <=> Has(u, r) /\ ~ Runs(u, c, r)
      /\ Bounded(u) => Bounded(s)
  BY <1>2, <1>5, FinishEffect
<1>7. \A r \in TaskId : ~ Runs(u, c, r) BY <1>5 DEF Runs
<1>8. /\ tasks \in [TaskId -> TaskState]
      /\ \A r \in TaskId : r # p => tasks[r] = kk.task[r]
      /\ tasks[p].state = "Running" /\ tasks[p].blocked = reason
      /\ tasks[p].aff = kk.task[p].aff
  BY <1>3, KFields DEF TaskState
<1>9. k1 \in KState /\ k1.sched = s /\ k1.task = tasks BY <1>4, <1>6, <1>8 DEF KState, GoodSched
<1>10. \A r \in TaskId : Has(s, r) <=> Has(kk.sched, r) /\ r # p BY <1>5, <1>6, <1>7
<1>11. ASSUME NEW r \in TaskId
       PROVE  /\ IsBlocked(k1, r) => ~ Has(s, r)
              /\ k1.task[r].state = "Suspended" => ~ Has(s, r) /\ ~ IsBlocked(k1, r)
  <2>1. CASE r = p BY <1>8, <1>9, <1>10, <2>1
  <2>2. CASE r # p BY <1>8, <1>9, <1>10, <2>2 DEF GoodK, Entitled, IsBlocked
  <2>3. QED BY <2>1, <2>2
<1>12. GoodK(k1) BY <1>6, <1>9, <1>11 DEF GoodK, GoodSched, Entitled
<1>13. Moved(c, kk, k1)
  <2>1. \A d \in Cpu, r \in TaskId : d # c /\ Runs(s, d, r) => Runs(kk.sched, d, r)
    BY <1>5, <1>6 DEF Runs
  <2>2. \A r \in TaskId :
          tasks[r].state = kk.task[r].state /\ tasks[r].aff = kk.task[r].aff
    BY <1>8
  <2>3. Bounded(kk.sched) => Bounded(s) BY <1>1, <1>6, KFields, PurgeBounded
  <2>4. QED BY <1>9, <2>1, <2>2, <2>3 DEF Moved, FreeAnywhere
<1>14. Tracked(kk) => Tracked(k1)
  <2>1. ~ RunnableIn(k1, p) BY <1>8, <1>9 DEF RunnableIn, IsBlocked
  <2>2. \A r \in TaskId : r # p /\ RunnableIn(k1, r) => RunnableIn(kk, r)
    BY <1>8, <1>9 DEF RunnableIn, IsBlocked
  <2>3. QED BY <1>9, <1>10, <2>1, <2>2 DEF Tracked
<1>15. \A r \in TaskId : ~ Runs(k1.sched, c, r) BY <1>6, <1>9 DEF Runs
<1>16. QED BY <1>8, <1>9, <1>12, <1>13, <1>14, <1>15

\* A started task that becomes a zombie or is reaped.
LEMMA EndEffect ==
    ASSUME NEW c \in Cpu, NEW kk, GoodK(kk), NEW p \in TaskId,
           kk.task[p].state # "Suspended", NEW v \in {"Zombie", "Reaped"},
           kk.task[p].state = "Reaped" => v = "Reaped",
           NEW k1, k1 = [kk EXCEPT !.task[p].state = v]
    PROVE  /\ GoodK(k1) /\ Moved(c, kk, k1) /\ k1.sched = kk.sched
           /\ Tracked(kk) => Tracked(k1)
           /\ \A r \in TaskId : r # p => k1.task[r] = kk.task[r]
           /\ k1.task[p].state = v /\ k1.task[p].blocked = kk.task[p].blocked
<1>1. PICK tasks : tasks = [kk.task EXCEPT ![p].state = v] OBVIOUS
<1>2. k1.sched = kk.sched /\ k1.task = tasks BY <1>1 DEF GoodK, KState
<1>3. /\ tasks \in [TaskId -> TaskState]
      /\ \A r \in TaskId : r # p => tasks[r] = kk.task[r]
      /\ tasks[p].state = v /\ tasks[p].blocked = kk.task[p].blocked
      /\ tasks[p].aff = kk.task[p].aff
  BY <1>1, KFields DEF TaskState
<1>4. k1 \in KState BY <1>1, <1>3 DEF GoodK, KState
<1>5. \A r \in TaskId : IsBlocked(k1, r) <=> IsBlocked(kk, r) BY <1>2, <1>3 DEF IsBlocked
<1>6. \A r \in TaskId : k1.task[r].state = "Suspended" => kk.task[r].state = "Suspended"
  BY <1>2, <1>3
<1>7. GoodK(k1) BY <1>2, <1>4, <1>5, <1>6 DEF GoodK, Entitled
<1>8. \A r \in TaskId : k1.task[r].aff = kk.task[r].aff BY <1>2, <1>3
<1>9. \A r \in TaskId : kk.task[r].state = "Reaped" => k1.task[r].state = "Reaped"
  BY <1>2, <1>3
<1>10. Moved(c, kk, k1) BY <1>2, <1>6, <1>8, <1>9 DEF Moved, FreeAnywhere
<1>11. \A r \in TaskId : RunnableIn(k1, r) => RunnableIn(kk, r)
  BY <1>2, <1>3 DEF RunnableIn, IsBlocked
<1>12. QED BY <1>2, <1>3, <1>7, <1>10, <1>11 DEF Tracked

\* Yielding and dispatching the next task.  A full queue may drop the task.
LEMMA YieldDispatch ==
    ASSUME NEW c \in Cpu, NEW kk, GoodK(kk),
           NEW s, s = ScheduleNext(YieldCurrent(kk.sched, c), c),
           NEW k1, k1 = [kk EXCEPT !.sched = s]
    PROVE  /\ GoodK(k1) /\ k1.sched = s /\ k1.task = kk.task /\ Moved(c, kk, k1)
           /\ Sees(kk) => Sees(k1)
           /\ Roomy /\ Tracked(kk) => Tracked(k1)
<1>1. PICK y : y = YieldCurrent(kk.sched, c) OBVIOUS
<1>2. /\ GoodSched(y)
      /\ \A d \in Cpu : d # c => y.cur[d] = kk.sched.cur[d]
      /\ \A r \in TaskId : Has(y, r) <=> Has(kk.sched, r)
      /\ \/ y.cur[c] = None
         \/ y = kk.sched /\ y.cur[c] # None /\ Full(y, c, y.cur[c].qos)
      /\ Bounded(kk.sched) => Bounded(y)
  BY <1>1, KFields, YieldEffect
<1>3. /\ GoodSched(s)
      /\ \A d \in Cpu : d # c => s.cur[d] = y.cur[d]
      /\ \A r \in TaskId : Has(s, r) => Has(y, r)
      /\ \A r \in TaskId : Has(y, r) /\ ~ Runs(y, c, r) => Has(s, r)
      /\ Bounded(y) => Bounded(s)
  BY <1>1, <1>2, ScheduleNextEffect
<1>4. /\ \A r \in TaskId : Has(s, r) => Has(kk.sched, r)
      /\ \A d \in Cpu, r \in TaskId : d # c /\ Runs(s, d, r) => Runs(kk.sched, d, r)
      /\ Bounded(kk.sched) => Bounded(s)
  BY <1>2, <1>3 DEF Runs
<1>5. /\ GoodK(k1) /\ k1.sched = s /\ k1.task = kk.task
      /\ Moved(c, kk, k1)
      /\ Sees(kk) => Sees(k1)
      /\ Tracked(kk) /\ (\A r \in TaskId : Has(kk.sched, r) /\ RunnableIn(kk, r) => Has(s, r))
           => Tracked(k1)
  BY <1>3, <1>4, SchedMoved
<1>6. ASSUME Roomy PROVE y.cur[c] = None
  <2>1. SUFFICES ASSUME y.cur[c] # None PROVE ~ Full(y, c, y.cur[c].qos) BY <1>2
  <2>2. PICK p, q : p = y.cur[c].id /\ q = y.cur[c].qos OBVIOUS
  <2>3. p \in TaskId /\ q \in Qos /\ Runs(y, c, p)
    BY <1>2, <2>1, <2>2, SchedFields DEF GoodSched, EntryType, Runs
  <2>4. ~ In(y, c, q, p) BY <1>2, <2>3 DEF GoodSched, Single
  <2>5. QED BY <1>2, <1>6, <2>2, <2>3, <2>4, RoomInQueue
<1>7. Roomy => \A r \in TaskId : Has(kk.sched, r) => Has(s, r)
  BY <1>2, <1>3, <1>6 DEF Runs
<1>8. QED BY <1>5, <1>7

\* Dispatching the next task, which drops the current one.
LEMMA Dispatched ==
    ASSUME NEW c \in Cpu, NEW kk, GoodK(kk), NEW s, s = ScheduleNext(kk.sched, c),
           NEW k1, k1 = [kk EXCEPT !.sched = s]
    PROVE  /\ GoodK(k1) /\ k1.sched = s /\ k1.task = kk.task /\ Moved(c, kk, k1)
           /\ Sees(kk) => Sees(k1)
           /\ Tracked(kk) /\ (\A r \in TaskId : Runs(kk.sched, c, r) => ~ RunnableIn(kk, r))
                => Tracked(k1)
<1>1. /\ GoodSched(s)
      /\ \A d \in Cpu : d # c => s.cur[d] = kk.sched.cur[d]
      /\ \A r \in TaskId : Has(s, r) => Has(kk.sched, r)
      /\ \A r \in TaskId : Has(kk.sched, r) /\ ~ Runs(kk.sched, c, r) => Has(s, r)
      /\ Bounded(kk.sched) => Bounded(s)
  BY KFields, ScheduleNextEffect
<1>0. \A d \in Cpu, r \in TaskId : d # c /\ Runs(s, d, r) => Runs(kk.sched, d, r)
  BY <1>1 DEF Runs
<1>2. /\ GoodK(k1) /\ k1.sched = s /\ k1.task = kk.task
      /\ Moved(c, kk, k1)
      /\ Sees(kk) => Sees(k1)
      /\ Tracked(kk) /\ (\A r \in TaskId : Has(kk.sched, r) /\ RunnableIn(kk, r) => Has(s, r))
           => Tracked(k1)
  BY <1>0, <1>1, SchedMoved
<1>3. QED BY <1>1, <1>2

\* Dropping the current entry of CPU c.
LEMMA Finished ==
    ASSUME NEW c \in Cpu, NEW kk, GoodK(kk), NEW s, s = SetCur(kk.sched, c, None),
           NEW k1, k1 = [kk EXCEPT !.sched = s]
    PROVE  /\ GoodK(k1) /\ k1.sched = s /\ k1.task = kk.task /\ Moved(c, kk, k1)
           /\ \A r \in TaskId : ~ Runs(k1.sched, c, r)
           /\ Sees(kk) => Sees(k1)
           /\ Tracked(kk) /\ (\A r \in TaskId : Runs(kk.sched, c, r) => ~ RunnableIn(kk, r))
                => Tracked(k1)
<1>1. /\ GoodSched(s) /\ s.cur[c] = None
      /\ \A d \in Cpu : d # c => s.cur[d] = kk.sched.cur[d]
      /\ \A r \in TaskId : Has(s, r) <=> Has(kk.sched, r) /\ ~ Runs(kk.sched, c, r)
      /\ Bounded(kk.sched) => Bounded(s)
  BY KFields, FinishEffect
<1>0. \A d \in Cpu, r \in TaskId : d # c /\ Runs(s, d, r) => Runs(kk.sched, d, r)
  BY <1>1 DEF Runs
<1>2. /\ GoodK(k1) /\ k1.sched = s /\ k1.task = kk.task
      /\ Moved(c, kk, k1)
      /\ Sees(kk) => Sees(k1)
      /\ Tracked(kk) /\ (\A r \in TaskId : Has(kk.sched, r) /\ RunnableIn(kk, r) => Has(s, r))
           => Tracked(k1)
  BY <1>0, <1>1, SchedMoved
<1>3. \A r \in TaskId : ~ Runs(k1.sched, c, r) BY <1>1, <1>2 DEF Runs
<1>4. QED BY <1>1, <1>2, <1>3

\* Dispatching after the entries of exited tasks were dropped.
LEMMA Dropped ==
    ASSUME NEW c \in Cpu, NEW kk, GoodK(kk), NEW u, GoodSched(u), u.cur[c] = None,
           \A r \in TaskId : Has(u, r) => Has(kk.sched, r),
           \A d \in Cpu, r \in TaskId : d # c /\ Runs(u, d, r) => Runs(kk.sched, d, r),
           Bounded(kk.sched) => Bounded(u),
           NEW s, s = ScheduleNext(u, c), NEW k1, k1 = [kk EXCEPT !.sched = s]
    PROVE  /\ GoodK(k1) /\ k1.sched = s /\ k1.task = kk.task /\ Moved(c, kk, k1)
           /\ Sees(kk) => Sees(k1)
           /\ Tracked(kk) /\ (\A r \in TaskId : Has(kk.sched, r) /\ RunnableIn(kk, r) => Has(u, r))
                => Tracked(k1)
<1>1. /\ GoodSched(s)
      /\ \A d \in Cpu : d # c => s.cur[d] = u.cur[d]
      /\ \A r \in TaskId : Has(s, r) => Has(u, r)
      /\ \A r \in TaskId : Has(u, r) /\ ~ Runs(u, c, r) => Has(s, r)
      /\ Bounded(u) => Bounded(s)
  BY ScheduleNextEffect
<1>2. \A d \in Cpu, r \in TaskId : d # c /\ Runs(s, d, r) => Runs(kk.sched, d, r)
  BY <1>1 DEF Runs
<1>3. \A r \in TaskId : Has(u, r) <=> Has(s, r) BY <1>1 DEF Runs
<1>4. /\ GoodK(k1) /\ k1.sched = s /\ k1.task = kk.task
      /\ Moved(c, kk, k1)
      /\ Sees(kk) => Sees(k1)
      /\ Tracked(kk) /\ (\A r \in TaskId : Has(kk.sched, r) /\ RunnableIn(kk, r) => Has(s, r))
           => Tracked(k1)
  BY <1>1, <1>2, SchedMoved
<1>5. QED BY <1>3, <1>4

-----------------------------------------------------------------------------
(* Kernel entries                                                           *)

HartState == [pid : TaskId \cup {None}, mode : Mode]

(* h is what CPU c may execute in the kernel state k1. *)
Fits(c, h, k1) ==
    /\ h \in HartState
    /\ \A r \in TaskId : Runs(k1.sched, c, r) =>
         h.pid = r /\ (h.mode = "user" \/ k1.task[r].state = "Reaped")
    /\ h.pid # None => k1.task[h.pid].state # "Suspended"

(* A kernel entry of CPU c that keeps the tables in agreement. *)
Step(c) ==
    /\ GoodK(k') /\ Moved(c, k, k')
    /\ \E h : hart' = [hart EXCEPT ![c] = h] /\ Fits(c, h, k')

KeepsTrack == Roomy /\ Tracked(k) /\ CurrentRuns => Tracked(k')

KeepsSeeing == Roomy /\ Faulty = {} /\ Sees(k) => Sees(k')

\* What the invariant says of one CPU.
LEMMA AtHart ==
    ASSUME IInv, NEW c \in Cpu
    PROVE  /\ GoodK(k) /\ hart[c] \in HartState /\ hart \in [Cpu -> HartState]
           /\ \A r \in TaskId : Runs(k.sched, c, r) => hart[c].pid = r
           /\ hart[c].pid # None => hart[c].pid \in TaskId
           /\ hart[c].pid # None => k.task[hart[c].pid].state # "Suspended"
BY DEF IInv, TypeOK, HartState, CurrentAgrees, Runs, Started

\* A list of signalled tasks.
LEMMA SignalsType == ASSUME NEW ps \in Signals PROVE ps \in Seq(TaskId)
BY DEF Signals

\* A hart that goes on with what it did.
LEMMA SameHart ==
    ASSUME IInv, NEW c \in Cpu, UNCHANGED hart, GoodK(k'), Moved(c, k, k'),
           \A r \in TaskId : Runs(k'.sched, c, r) => hart[c].pid = r,
           hart[c].mode = "user" \/ \A r \in TaskId : ~ Runs(k'.sched, c, r)
    PROVE  Step(c)
<1>1. hart' = [hart EXCEPT ![c] = hart[c]] BY AtHart
<1>2. Fits(c, hart[c], k')
  BY AtHart DEF Fits, Moved
<1>3. QED BY <1>1, <1>2 DEF Step

\* A hart that resumes the current task of the scheduler, or its old one.
LEMMA Resumed ==
    ASSUME IInv, NEW c \in Cpu, GoodK(k'), Moved(c, k, k'), NEW old,
           old \in {None, hart[c].pid}, NEW s, s.cur[c] = k'.sched.cur[c],
           Resume(c, NextOr(s, c, old))
    PROVE  Step(c)
<1>1. PICK k1 : k1 = k' OBVIOUS
<1>2. PICK pid : pid = NextOr(s, c, old) OBVIOUS
<1>3. PICK h : h = [pid |-> pid,
                    mode |-> IF pid = None THEN "idle"
                             ELSE IF k.task[pid].state = "Reaped" THEN "idle" ELSE "user"]
  OBVIOUS
<1>4. hart' = [hart EXCEPT ![c] = h] BY <1>2, <1>3 DEF Resume
<1>5. s.cur[c] \in EntryType \cup {None} BY <1>1, SchedFields, KFields
<1>6. pid = (IF s.cur[c] = None THEN old ELSE s.cur[c].id) /\ pid \in TaskId \cup {None}
  BY <1>2, <1>5, AtHart DEF NextOr, EntryType
<1>7. \A r \in TaskId : Runs(k1.sched, c, r) => pid = r BY <1>1, <1>6 DEF Runs
<1>8. h \in HartState BY <1>3, <1>6 DEF HartState, Mode
<1>9. \A r \in TaskId : Runs(k1.sched, c, r) =>
        h.pid = r /\ (h.mode = "user" \/ k1.task[r].state = "Reaped")
  BY <1>1, <1>3, <1>7, SchedulerAssumption DEF Moved
<1>10. ASSUME pid # None PROVE k1.task[pid].state # "Suspended"
  <2>1. CASE s.cur[c] = None
    <3>1. pid = hart[c].pid BY <1>6, <1>10, <2>1
    <3>2. QED BY <1>1, <1>10, <3>1, AtHart DEF Moved
  <2>2. CASE s.cur[c] # None
    <3>1. Runs(k1.sched, c, pid) /\ pid \in TaskId BY <1>1, <1>5, <1>6, <2>2 DEF Runs, EntryType
    <3>2. QED BY <1>1, <3>1 DEF GoodK, Entitled, Has
  <2>3. QED BY <2>1, <2>2
<1>11. h.pid = pid BY <1>3
<1>12. Fits(c, h, k1) BY <1>8, <1>9, <1>10, <1>11 DEF Fits
<1>13. QED BY <1>1, <1>4, <1>12 DEF Step

\* sys_yield
LEMMA SysYieldStep ==
    ASSUME IInv, NEW c \in Cpu, SysYield(c) PROVE Step(c) /\ KeepsTrack /\ KeepsSeeing
<1>1. PICK ps \in Signals :
        LET kk == WakeAll(k, ps)
            s  == ScheduleNext(YieldCurrent(kk.sched, c), c)
        IN  /\ k' = [kk EXCEPT !.sched = s]
            /\ Resume(c, NextOr(s, c, hart[c].pid))
  BY DEF SysYield
<1>2. PICK kk : kk = WakeAll(k, ps) OBVIOUS
<1>3. PICK s : s = ScheduleNext(YieldCurrent(kk.sched, c), c) OBVIOUS
<1>4. PICK k1 : k1 = [kk EXCEPT !.sched = s] OBVIOUS
<1>5. k' = k1 /\ Resume(c, NextOr(s, c, hart[c].pid)) BY <1>1, <1>2, <1>3, <1>4
<1>6. GoodK(kk) /\ Woken(k, kk) BY <1>2, SignalsType, AtHart, WakeAllEffect
<1>7. Moved(c, k, kk) /\ (Tracked(k) => Tracked(kk)) /\ (Sees(k) => Sees(kk))
  BY <1>6, WokenIsMoved
<1>8. /\ GoodK(k1) /\ k1.sched = s /\ Moved(c, kk, k1)
      /\ Sees(kk) => Sees(k1)
      /\ Roomy /\ Tracked(kk) => Tracked(k1)
  BY <1>3, <1>4, <1>6, YieldDispatch
<1>9. Moved(c, k, k1) BY <1>7, <1>8, MovedTransitive
<1>10. Step(c) BY <1>5, <1>8, <1>9, Resumed
<1>11. QED BY <1>5, <1>7, <1>8, <1>10 DEF KeepsTrack, KeepsSeeing

\* A preemption.
LEMMA PreemptStep ==
    ASSUME IInv, NEW c \in Cpu, Preempt(c) PROVE Step(c) /\ KeepsTrack /\ KeepsSeeing
<1>1. PICK ps \in Signals :
        LET kk == WakeAll(k, ps)
            s  == ScheduleNext(YieldCurrent(kk.sched, c), c)
        IN  /\ k' = [kk EXCEPT !.sched = s]
            /\ hart' = [hart EXCEPT ![c].pid = NextOr(s, c, @)]
  BY DEF Preempt
<1>2. PICK kk : kk = WakeAll(k, ps) OBVIOUS
<1>3. PICK s : s = ScheduleNext(YieldCurrent(kk.sched, c), c) OBVIOUS
<1>4. PICK k1 : k1 = [kk EXCEPT !.sched = s] OBVIOUS
<1>5. PICK pid : pid = NextOr(s, c, hart[c].pid) OBVIOUS
<1>6. PICK h : h = [hart[c] EXCEPT !.pid = pid] OBVIOUS
<1>7. k' = k1 /\ hart' = [hart EXCEPT ![c] = h] BY <1>1, <1>2, <1>3, <1>4, <1>5, <1>6
<1>8. GoodK(kk) /\ Woken(k, kk) BY <1>2, SignalsType, AtHart, WakeAllEffect
<1>9. Moved(c, k, kk) /\ (Tracked(k) => Tracked(kk)) /\ (Sees(k) => Sees(kk))
  BY <1>8, WokenIsMoved
<1>10. /\ GoodK(k1) /\ k1.sched = s /\ Moved(c, kk, k1)
       /\ Sees(kk) => Sees(k1)
       /\ Roomy /\ Tracked(kk) => Tracked(k1)
  BY <1>3, <1>4, <1>8, YieldDispatch
<1>11. Moved(c, k, k1) BY <1>9, <1>10, MovedTransitive
<1>12. s.cur[c] \in EntryType \cup {None} BY <1>10, SchedFields, KFields
<1>13. pid \in TaskId \cup {None} BY <1>5, <1>12, AtHart DEF NextOr, EntryType
<1>14. h \in HartState /\ h.pid = pid /\ h.mode = "user"
  BY <1>6, <1>13, AtHart DEF HartState, Preempt, InUser
<1>15. \A r \in TaskId : Runs(k1.sched, c, r) => pid = r BY <1>5, <1>10 DEF Runs, NextOr
<1>16. ASSUME pid # None PROVE k1.task[pid].state # "Suspended"
  <2>1. CASE s.cur[c] = None
    <3>1. pid = hart[c].pid BY <1>5, <2>1 DEF NextOr
    <3>2. QED BY <1>11, <1>16, <3>1, AtHart DEF Moved
  <2>2. CASE s.cur[c] # None
    <3>1. Runs(k1.sched, c, pid) /\ pid \in TaskId
      BY <1>5, <1>10, <1>12, <2>2 DEF Runs, EntryType, NextOr
    <3>2. QED BY <1>10, <3>1 DEF GoodK, Entitled, Has
  <2>3. QED BY <2>1, <2>2
<1>17. Fits(c, h, k1) BY <1>14, <1>15, <1>16 DEF Fits
<1>18. Step(c) BY <1>7, <1>10, <1>11, <1>17 DEF Step
<1>19. QED BY <1>7, <1>9, <1>10, <1>18 DEF KeepsTrack, KeepsSeeing

\* A call that blocks its task.
LEMMA BlockOnStep ==
    ASSUME IInv, NEW c \in Cpu, Executing(c), NEW ps \in Seq(TaskId),
           NEW reason \in [on : {"None", "Event", "Child"}, child : TaskId \cup {None}],
           reason.on # "None", BlockOn(c, reason, ps),
           Sees(k) => Sees(BlockCurrent(k, c, hart[c].pid, reason))
    PROVE  Step(c) /\ KeepsTrack /\ KeepsSeeing
<1>1. PICK p : p = hart[c].pid OBVIOUS
<1>2. PICK ka : ka = BlockCurrent(k, c, p, reason) OBVIOUS
<1>3. PICK kk : kk = WakeAll(ka, ps) OBVIOUS
<1>4. PICK s : s = ScheduleNext(kk.sched, c) OBVIOUS
<1>5. PICK k1 : k1 = [kk EXCEPT !.sched = s] OBVIOUS
<1>6. PICK k2 : k2 = Wake(k1, p) OBVIOUS
<1>7. k' = (IF s.cur[c] = None THEN k2 ELSE k1) /\ Resume(c, NextOr(s, c, p))
  BY <1>1, <1>2, <1>3, <1>4, <1>5, <1>6 DEF BlockOn
<1>8. /\ p \in TaskId /\ k.task[p].state = "Running"
      /\ \A r \in TaskId : Runs(k.sched, c, r) => r = p
  BY <1>1, AtHart DEF Executing, InUser
<1>9. /\ GoodK(ka) /\ Moved(c, k, ka) /\ \A r \in TaskId : ~ Runs(ka.sched, c, r)
      /\ Tracked(k) => Tracked(ka)
  BY <1>2, <1>8, AtHart, BlockEffect
<1>10. GoodK(kk) /\ Woken(ka, kk) BY <1>3, <1>9, WakeAllEffect
<1>11. /\ Moved(c, ka, kk) /\ (Tracked(ka) => Tracked(kk)) /\ (Sees(ka) => Sees(kk))
       /\ \A r \in TaskId : ~ Runs(kk.sched, c, r)
  BY <1>9, <1>10, WokenIsMoved
<1>12. /\ GoodK(k1) /\ k1.sched = s /\ Moved(c, kk, k1)
       /\ Sees(kk) => Sees(k1)
       /\ Tracked(kk) /\ (\A r \in TaskId : Runs(kk.sched, c, r) => ~ RunnableIn(kk, r))
            => Tracked(k1)
  BY <1>4, <1>5, <1>10, Dispatched
<1>13. GoodK(k2) /\ Woken(k1, k2) BY <1>6, <1>8, <1>12, WakeEffect
<1>14. Moved(c, k1, k2) /\ (Tracked(k1) => Tracked(k2)) /\ (Sees(k1) => Sees(k2))
  BY <1>13, WokenIsMoved
<1>15. Moved(c, k, k1) /\ Moved(c, k, k2)
  BY <1>9, <1>11, <1>12, <1>14, MovedTransitive
<1>16. k2.sched.cur[c] = k1.sched.cur[c] BY <1>13 DEF Woken
<1>17. k'.sched.cur[c] = s.cur[c] /\ GoodK(k') /\ Moved(c, k, k')
  BY <1>7, <1>12, <1>13, <1>15, <1>16
<1>18. Step(c) BY <1>1, <1>7, <1>17, Resumed
<1>19. KeepsTrack BY <1>7, <1>9, <1>11, <1>12, <1>14 DEF KeepsTrack
<1>20. KeepsSeeing BY <1>1, <1>2, <1>7, <1>11, <1>12, <1>14 DEF KeepsSeeing
<1>21. QED BY <1>18, <1>19, <1>20

\* A call that waits for an event.
LEMMA SysBlockStep ==
    ASSUME IInv, NEW c \in Cpu, SysBlock(c) PROVE Step(c) /\ KeepsTrack /\ KeepsSeeing
<1>1. PICK ps \in Signals : BlockOn(c, OnEvent, ps) BY DEF SysBlock
<1>2. Executing(c) BY DEF SysBlock
<1>3. PICK reason : reason = OnEvent OBVIOUS
<1>4. /\ reason \in [on : {"None", "Event", "Child"}, child : TaskId \cup {None}]
      /\ reason.on # "None"
      /\ reason.on = "Event"
  BY <1>3 DEF OnEvent
<1>5. PICK p, ka : p = hart[c].pid /\ ka = BlockCurrent(k, c, p, reason) OBVIOUS
<1>6. /\ p \in TaskId /\ k.task[p].state = "Running"
      /\ \A r \in TaskId : Runs(k.sched, c, r) => r = p
  BY <1>2, <1>5, AtHart DEF Executing, InUser
<1>7. /\ \A r \in TaskId : r # p => ka.task[r] = k.task[r]
      /\ ka.task[p].blocked = reason /\ ka.task[p].state = "Running"
  BY <1>4, <1>5, <1>6, AtHart, BlockEffect
<1>8. Sees(k) => Sees(ka) BY <1>4, <1>6, <1>7 DEF Sees, OnChild
<1>9. BlockOn(c, reason, ps) BY <1>1, <1>3
<1>10. QED BY <1>2, <1>4, <1>5, <1>8, <1>9, SignalsType, BlockOnStep

\* A call that signals other tasks.
LEMMA SysSignalStep ==
    ASSUME IInv, NEW c \in Cpu, SysSignal(c) PROVE Step(c) /\ KeepsTrack /\ KeepsSeeing
<1>1. PICK ps \in Signals : k' = WakeAll(k, ps) BY DEF SysSignal
<1>2. PICK k1 : k1 = WakeAll(k, ps) OBVIOUS
<1>3. UNCHANGED hart /\ hart[c].mode = "user" BY DEF SysSignal, Executing, InUser
<1>4. GoodK(k1) /\ Woken(k, k1) BY <1>2, SignalsType, AtHart, WakeAllEffect
<1>5. /\ Moved(c, k, k1) /\ (Tracked(k) => Tracked(k1)) /\ (Sees(k) => Sees(k1))
      /\ \A r \in TaskId : Runs(k1.sched, c, r) <=> Runs(k.sched, c, r)
  BY <1>4, WokenIsMoved
<1>6. k' = k1 BY <1>1, <1>2
<1>7. Step(c) BY <1>3, <1>4, <1>5, <1>6, AtHart, SameHart
<1>8. QED BY <1>5, <1>6, <1>7 DEF KeepsTrack, KeepsSeeing

\* sys_wait
LEMMA SysWaitStep ==
    ASSUME IInv, NEW c \in Cpu, NEW target \in TaskId \cup {None}, SysWait(c, target)
    PROVE  Step(c) /\ KeepsTrack /\ KeepsSeeing
<1>1. PICK p : p = hart[c].pid OBVIOUS
<1>2. PICK wanted : wanted = IF target = None THEN Children(p) ELSE Children(p) \cap {target}
  OBVIOUS
<1>3. PICK zombies : zombies = {z \in wanted : k.task[z].state = "Zombie"} OBVIOUS
<1>4. Executing(c) BY DEF SysWait
<1>5. /\ p \in TaskId /\ k.task[p].state = "Running" /\ hart[c].mode = "user"
      /\ \A r \in TaskId : Runs(k.sched, c, r) => r = p
  BY <1>1, <1>4, AtHart DEF Executing, InUser
<1>6. CASE zombies = {}
  <2>1. PICK reason : reason = OnChild(target) OBVIOUS
  <2>2. BlockOn(c, reason, <<>>) BY <1>1, <1>2, <1>3, <1>6, <2>1 DEF SysWait
  <2>3. /\ reason \in [on : {"None", "Event", "Child"}, child : TaskId \cup {None}]
        /\ reason.on # "None" /\ reason.child = target
    BY <2>1 DEF OnChild
  <2>4. PICK ka : ka = BlockCurrent(k, c, p, reason) OBVIOUS
  <2>5. /\ \A r \in TaskId : r # p => ka.task[r] = k.task[r]
        /\ ka.task[p].blocked = reason /\ ka.task[p].state = "Running"
    BY <1>5, <2>3, <2>4, AtHart, BlockEffect
  <2>6. ASSUME Sees(k), NEW a \in TaskId, NEW q \in TaskId, ka.task[a].state = "Running",
               Parent[q] = a, ka.task[q].state = "Zombie"
        PROVE  ka.task[a].blocked \notin {OnChild(None), OnChild(q)}
    <3>1. q # p BY <2>5, <2>6
    <3>2. CASE a = p
      <4>1. q \in Children(p) BY <2>5, <2>6, <3>1, <3>2 DEF Children
      <4>2. q \notin wanted BY <1>3, <1>6, <2>5, <2>6, <3>1
      <4>3. target # None /\ target # q BY <1>2, <4>1, <4>2
      <4>4. QED BY <2>3, <2>5, <3>2, <4>3 DEF OnChild
    <3>3. CASE a # p BY <2>5, <2>6, <3>1, <3>3 DEF Sees
    <3>4. QED BY <3>2, <3>3
  <2>7. Sees(k) => Sees(ka) BY <2>6 DEF Sees
  <2>8. <<>> \in Seq(TaskId) OBVIOUS
  <2>9. QED BY <1>1, <1>4, <2>2, <2>3, <2>4, <2>7, <2>8, BlockOnStep
<1>7. CASE zombies # {}
  <2>1. PICK z \in zombies : k' = [k EXCEPT !.task[z].state = "Reaped"]
    BY <1>1, <1>2, <1>3, <1>7 DEF SysWait
  <2>2. UNCHANGED hart BY <1>1, <1>2, <1>3, <1>7 DEF SysWait
  <2>3. z \in TaskId /\ k.task[z].state = "Zombie" BY <1>2, <1>3 DEF Children
  <2>4. PICK v : v = "Reaped" OBVIOUS
  <2>5. PICK k1 : k1 = [k EXCEPT !.task[z].state = v] OBVIOUS
  <2>6. /\ GoodK(k1) /\ Moved(c, k, k1) /\ k1.sched = k.sched
        /\ Tracked(k) => Tracked(k1)
        /\ \A r \in TaskId : r # z => k1.task[r] = k.task[r]
        /\ k1.task[z].state = v /\ k1.task[z].blocked = k.task[z].blocked
    BY <2>3, <2>4, <2>5, AtHart, EndEffect
  <2>7. k' = k1 BY <2>1, <2>4, <2>5
  <2>8. Step(c) BY <1>5, <2>2, <2>6, <2>7, AtHart, SameHart
  <2>9. Sees(k) => Sees(k1) BY <2>4, <2>6 DEF Sees
  <2>10. QED BY <2>6, <2>7, <2>8, <2>9 DEF KeepsTrack, KeepsSeeing
<1>8. QED BY <1>6, <1>7

\* A task ends: a reaped one stays reaped, any other becomes a zombie.
LEMMA ExitEffect ==
    ASSUME NEW c \in Cpu, NEW kk, GoodK(kk), NEW p \in TaskId,
           kk.task[p].state # "Suspended", NEW k1, k1 = ExitCurrent(kk, p)
    PROVE  /\ GoodK(k1) /\ Moved(c, kk, k1) /\ k1.sched = kk.sched
           /\ Tracked(kk) => Tracked(k1)
           /\ \A r \in TaskId : r # p => k1.task[r] = kk.task[r]
           /\ k1.task[p].state = IF kk.task[p].state = "Reaped" THEN "Reaped" ELSE "Zombie"
           /\ k1.task[p].blocked = kk.task[p].blocked
<1>1. PICK v : v = IF kk.task[p].state = "Reaped" THEN "Reaped" ELSE "Zombie" OBVIOUS
<1>2. k1 = [kk EXCEPT !.task[p].state = v] BY <1>1 DEF ExitCurrent
<1>3. v \in {"Zombie", "Reaped"} /\ (kk.task[p].state = "Reaped" => v = "Reaped") BY <1>1
<1>4. /\ GoodK(k1) /\ Moved(c, kk, k1) /\ k1.sched = kk.sched
      /\ Tracked(kk) => Tracked(k1)
      /\ \A r \in TaskId : r # p => k1.task[r] = kk.task[r]
      /\ k1.task[p].state = v /\ k1.task[p].blocked = kk.task[p].blocked
  BY <1>2, <1>3, EndEffect
<1>5. QED BY <1>1, <1>4

\* The parent of an exited task is woken if it waits for it.
LEMMA WakeParentEffect ==
    ASSUME NEW kk, GoodK(kk), NEW p \in TaskId, NEW k1, k1 = WakeParentWaiter(kk, p)
    PROVE  /\ GoodK(k1) /\ Woken(kk, k1)
           /\ Roomy /\ Parent[p] # None /\ kk.task[p].state = "Zombie"
                => k1.task[Parent[p]].blocked \notin {OnChild(None), OnChild(p)}
<1>1. PICK a : a = Parent[p] OBVIOUS
<1>2. a \in TaskId \cup {None} BY <1>1, DispatchAssumption
<1>3. CASE /\ a # None /\ kk.task[p].state = "Zombie"
           /\ kk.task[a].blocked \in {OnChild(None), OnChild(p)}
  <2>1. k1 = Wake(kk, a) BY <1>1, <1>3 DEF WakeParentWaiter
  <2>2. a \in TaskId BY <1>2, <1>3
  <2>3. GoodK(k1) /\ Woken(kk, k1) BY <2>1, <2>2, WakeEffect
  <2>4. Roomy => ~ IsBlocked(k1, a) BY <2>1, <2>2, WakeSucceeds
  <2>5. QED BY <1>1, <2>3, <2>4 DEF IsBlocked, OnChild
<1>4. CASE ~ /\ a # None /\ kk.task[p].state = "Zombie"
             /\ kk.task[a].blocked \in {OnChild(None), OnChild(p)}
  <2>1. k1 = kk BY <1>1, <1>4 DEF WakeParentWaiter
  <2>2. Woken(kk, kk) BY DEF Woken
  <2>3. QED BY <1>1, <1>4, <2>1, <2>2
<1>5. QED BY <1>3, <1>4

\* sys_exit
LEMMA SysExitStep ==
    ASSUME IInv, NEW c \in Cpu, SysExit(c) PROVE Step(c) /\ KeepsTrack /\ KeepsSeeing
<1>1. PICK ps \in Signals :
        LET p  == hart[c].pid
            kk == WakeParentWaiter(WakeAll(ExitCurrent(k, p), ps), p)
            s  == ScheduleNext(FinishCurrent(kk.sched, c), c)
        IN  /\ k' = [kk EXCEPT !.sched = s]
            /\ Resume(c, NextOr(s, c, None))
  BY DEF SysExit
<1>2. PICK p : p = hart[c].pid OBVIOUS
<1>3. PICK ka : ka = ExitCurrent(k, p) OBVIOUS
<1>4. PICK kb : kb = WakeAll(ka, ps) OBVIOUS
<1>5. PICK kk : kk = WakeParentWaiter(kb, p) OBVIOUS
<1>6. PICK u : u = SetCur(kk.sched, c, None) OBVIOUS
<1>7. PICK s : s = ScheduleNext(u, c) OBVIOUS
<1>8. PICK k1 : k1 = [kk EXCEPT !.sched = s] OBVIOUS
<1>9. k' = k1 /\ Resume(c, NextOr(s, c, None))
  BY <1>1, <1>2, <1>3, <1>4, <1>5, <1>6, <1>7, <1>8 DEF FinishCurrent
<1>10. /\ p \in TaskId /\ k.task[p].state = "Running"
       /\ \A r \in TaskId : Runs(k.sched, c, r) => r = p
  BY <1>2, AtHart DEF SysExit, Executing, InUser
<1>11. /\ GoodK(ka) /\ Moved(c, k, ka) /\ ka.sched = k.sched
       /\ Tracked(k) => Tracked(ka)
       /\ \A r \in TaskId : r # p => ka.task[r] = k.task[r]
       /\ ka.task[p].state = "Zombie"
  BY <1>3, <1>10, AtHart, ExitEffect
<1>12. GoodK(kb) /\ Woken(ka, kb) BY <1>4, <1>11, SignalsType, WakeAllEffect
<1>13. /\ GoodK(kk) /\ Woken(kb, kk)
       /\ Roomy /\ Parent[p] # None /\ kb.task[p].state = "Zombie"
            => kk.task[Parent[p]].blocked \notin {OnChild(None), OnChild(p)}
  BY <1>5, <1>10, <1>12, WakeParentEffect
<1>14. Woken(ka, kk) BY <1>12, <1>13, WokenTransitive
<1>15. /\ Moved(c, ka, kk) /\ (Tracked(ka) => Tracked(kk))
       /\ \A d \in Cpu, r \in TaskId : Runs(kk.sched, d, r) <=> Runs(ka.sched, d, r)
  BY <1>14, WokenIsMoved
<1>16. /\ GoodSched(u) /\ u.cur[c] = None
       /\ \A d \in Cpu : d # c => u.cur[d] = kk.sched.cur[d]
       /\ \A r \in TaskId : Has(u, r) <=> Has(kk.sched, r) /\ ~ Runs(kk.sched, c, r)
       /\ Bounded(kk.sched) => Bounded(u)
  BY <1>6, <1>13, KFields, FinishEffect
<1>17. \A d \in Cpu, r \in TaskId : d # c /\ Runs(u, d, r) => Runs(kk.sched, d, r)
  BY <1>16 DEF Runs
<1>18. /\ GoodK(k1) /\ k1.sched = s /\ k1.task = kk.task /\ Moved(c, kk, k1)
       /\ Sees(kk) => Sees(k1)
       /\ Tracked(kk) /\ (\A r \in TaskId : Has(kk.sched, r) /\ RunnableIn(kk, r) => Has(u, r))
            => Tracked(k1)
  BY <1>7, <1>8, <1>13, <1>16, <1>17, Dropped
<1>19. Moved(c, k, k1) BY <1>11, <1>15, <1>18, MovedTransitive
<1>20. Step(c) BY <1>9, <1>18, <1>19, Resumed
<1>21. kk.task[p].state = "Zombie" /\ kb.task[p].state = "Zombie"
  BY <1>10, <1>11, <1>12, <1>14 DEF Woken
<1>22. KeepsTrack
  <2>1. \A r \in TaskId : Has(kk.sched, r) /\ RunnableIn(kk, r) => Has(u, r)
    BY <1>10, <1>11, <1>15, <1>16, <1>21 DEF RunnableIn
  <2>2. QED BY <1>9, <1>11, <1>15, <1>18, <2>1 DEF KeepsTrack
<1>23. ASSUME Roomy, Sees(k) PROVE Sees(kk)
  <2> SUFFICES ASSUME NEW a \in TaskId, NEW q \in TaskId, kk.task[a].state = "Running",
                      Parent[q] = a, kk.task[q].state = "Zombie"
               PROVE  kk.task[a].blocked \notin {OnChild(None), OnChild(q)}
    BY DEF Sees
  <2>1. a # p BY <1>21
  <2>2. CASE q = p BY <1>13, <1>21, <1>23, <2>2, SchedulerAssumption
  <2>3. CASE q # p
    <3>1. k.task[a].state = "Running" /\ k.task[q].state = "Zombie"
      BY <1>11, <1>14, <2>1, <2>3 DEF Woken
    <3>2. k.task[a].blocked \notin {OnChild(None), OnChild(q)} BY <1>23, <3>1 DEF Sees
    <3>3. kk.task[a].blocked \in {k.task[a].blocked, NotBlocked} BY <1>11, <1>14, <2>1 DEF Woken
    <3>4. QED BY <3>2, <3>3 DEF NotBlocked, OnChild
  <2>4. QED BY <2>2, <2>3
<1>24. KeepsSeeing BY <1>9, <1>18, <1>23 DEF KeepsSeeing
<1>25. QED BY <1>20, <1>22, <1>24

\* A fault.
LEMMA FaultStep ==
    ASSUME IInv, NEW c \in Cpu, Fault(c) PROVE Step(c) /\ KeepsTrack /\ KeepsSeeing
<1>1. PICK ps \in Signals :
        LET p  == hart[c].pid
            kk == ExitCurrent(WakeAll(k, ps), p)
            s  == ScheduleNext(FinishCurrent(Purge(kk.sched, p), c), c)
        IN  /\ k' = [kk EXCEPT !.sched = s]
            /\ hart' = [hart EXCEPT ![c] =
                 IF s.cur[c] = None THEN [pid |-> None, mode |-> "pid0"]
                 ELSE [pid |-> s.cur[c].id, mode |-> "user"]]
  BY DEF Fault
<1>2. PICK p : p = hart[c].pid OBVIOUS
<1>3. PICK kb : kb = WakeAll(k, ps) OBVIOUS
<1>4. PICK kk : kk = ExitCurrent(kb, p) OBVIOUS
<1>5. PICK w : w = Purge(kk.sched, p) OBVIOUS
<1>6. PICK u : u = SetCur(w, c, None) OBVIOUS
<1>7. PICK s : s = ScheduleNext(u, c) OBVIOUS
<1>8. PICK k1 : k1 = [kk EXCEPT !.sched = s] OBVIOUS
<1>9. PICK h : h = IF s.cur[c] = None THEN [pid |-> None, mode |-> "pid0"]
                   ELSE [pid |-> s.cur[c].id, mode |-> "user"]
  OBVIOUS
<1>10. k' = k1 /\ hart' = [hart EXCEPT ![c] = h]
  BY <1>1, <1>2, <1>3, <1>4, <1>5, <1>6, <1>7, <1>8, <1>9 DEF FinishCurrent
<1>11. /\ p \in TaskId /\ k.task[p].state # "Suspended"
       /\ \A r \in TaskId : Runs(k.sched, c, r) => r = p
  BY <1>2, AtHart DEF Fault, InUser
<1>12. GoodK(kb) /\ Woken(k, kb) BY <1>3, SignalsType, AtHart, WakeAllEffect
<1>13. /\ Moved(c, k, kb) /\ (Tracked(k) => Tracked(kb)) /\ (Sees(k) => Sees(kb))
       /\ \A r \in TaskId : Runs(kb.sched, c, r) <=> Runs(k.sched, c, r)
  BY <1>12, WokenIsMoved
<1>14. kb.task[p].state = k.task[p].state BY <1>11, <1>12 DEF Woken
<1>15. /\ GoodK(kk) /\ Moved(c, kb, kk) /\ kk.sched = kb.sched
       /\ Tracked(kb) => Tracked(kk)
       /\ \A r \in TaskId : r # p => kk.task[r] = kb.task[r]
       /\ kk.task[p].state = IF kb.task[p].state = "Reaped" THEN "Reaped" ELSE "Zombie"
       /\ kk.task[p].blocked = kb.task[p].blocked
  BY <1>4, <1>11, <1>12, <1>14, ExitEffect
<1>16. /\ GoodSched(w) /\ ~ Has(w, p)
       /\ \A r \in TaskId : r # p => (Has(w, r) <=> Has(kk.sched, r))
       /\ \A d \in Cpu : w.cur[d] = IF Runs(kk.sched, d, p) THEN None ELSE kk.sched.cur[d]
  BY <1>5, <1>11, <1>15, KFields, PurgeEffect
<1>17. Bounded(kk.sched) => Bounded(w) BY <1>5, <1>11, <1>15, KFields, PurgeBounded
<1>18. /\ GoodSched(u) /\ u.cur[c] = None
       /\ \A d \in Cpu : d # c => u.cur[d] = w.cur[d]
       /\ \A r \in TaskId : Has(u, r) <=> Has(w, r) /\ ~ Runs(w, c, r)
       /\ Bounded(w) => Bounded(u)
  BY <1>6, <1>16, FinishEffect
<1>19. \A d \in Cpu, r \in TaskId : d # c /\ Runs(u, d, r) => Runs(kk.sched, d, r)
  BY <1>16, <1>18 DEF Runs
<1>20. \A r \in TaskId : Has(u, r) => Has(kk.sched, r) BY <1>11, <1>16, <1>18
<1>21. /\ GoodK(k1) /\ k1.sched = s /\ k1.task = kk.task /\ Moved(c, kk, k1)
       /\ Sees(kk) => Sees(k1)
       /\ Tracked(kk) /\ (\A r \in TaskId : Has(kk.sched, r) /\ RunnableIn(kk, r) => Has(u, r))
            => Tracked(k1)
  BY <1>7, <1>8, <1>15, <1>17, <1>18, <1>19, <1>20, Dropped
<1>22. Moved(c, k, k1)
  <2>1. Moved(c, k, kk) BY <1>13, <1>15, MovedTransitive
  <2>2. QED BY <1>21, <2>1, MovedTransitive
<1>23. Step(c)
  <2>1. s.cur[c] \in EntryType \cup {None} BY <1>21, SchedFields, KFields
  <2>2. CASE s.cur[c] = None
    <3>1. h \in HartState /\ h.pid = None BY <1>9, <2>2 DEF HartState, Mode
    <3>2. Fits(c, h, k1) BY <1>21, <2>2, <3>1 DEF Fits, Runs
    <3>3. QED BY <1>10, <1>21, <1>22, <3>2 DEF Step
  <2>3. CASE s.cur[c] # None
    <3>1. PICK r : r = s.cur[c].id OBVIOUS
    <3>2. r \in TaskId /\ Runs(k1.sched, c, r)
      BY <1>21, <2>1, <2>3, <3>1 DEF EntryType, Runs
    <3>3. h \in HartState /\ h.pid = r /\ h.mode = "user"
      BY <1>9, <2>3, <3>1, <3>2 DEF HartState, Mode
    <3>4. k1.task[r].state # "Suspended" BY <1>21, <3>2 DEF GoodK, Entitled, Has
    <3>5. Fits(c, h, k1) BY <1>21, <3>1, <3>3, <3>4 DEF Fits, Runs
    <3>6. QED BY <1>10, <1>21, <1>22, <3>5 DEF Step
  <2>4. QED BY <2>2, <2>3
<1>24. KeepsTrack
  <2>1. ~ RunnableIn(kk, p) BY <1>15 DEF RunnableIn
  <2>2. \A r \in TaskId : Runs(w, c, r) => r = p
    BY <1>11, <1>13, <1>15, <1>16 DEF Runs
  <2>3. \A r \in TaskId : Has(kk.sched, r) /\ RunnableIn(kk, r) => Has(u, r)
    BY <1>16, <1>18, <2>1, <2>2
  <2>4. QED BY <1>10, <1>13, <1>15, <1>21, <2>3 DEF KeepsTrack
<1>25. ASSUME Faulty = {}, Sees(k) PROVE Sees(kk)
  <2>1. k.task[p].state # "Running" BY <1>2, <1>25 DEF Fault
  <2>2. k.task[p].state \in {"Suspended", "Running", "Zombie", "Reaped"}
    BY <1>11, AtHart, KFields DEF TaskState
  <2>3. kk.task[p].state = kb.task[p].state BY <1>11, <1>14, <1>15, <2>1, <2>2
  <2>4. \A r \in TaskId : /\ kk.task[r].state = kb.task[r].state
                          /\ kk.task[r].blocked = kb.task[r].blocked
    BY <1>15, <2>3
  <2>5. Sees(kb) BY <1>13, <1>25
  <2>6. QED BY <2>4, <2>5 DEF Sees
<1>26. KeepsSeeing BY <1>10, <1>21, <1>25 DEF KeepsSeeing
<1>27. QED BY <1>23, <1>24, <1>26

\* A scheduler and a task table that replace others: same entries, tasks in
\* the same states.
LEMMA TablesReplaced ==
    ASSUME NEW c \in Cpu, NEW kk, GoodK(kk), NEW s, GoodSched(s),
           \A r \in TaskId : Has(s, r) <=> Has(kk.sched, r),
           \A d \in Cpu, r \in TaskId : d # c /\ Runs(s, d, r) => Runs(kk.sched, d, r),
           FreeAnywhere(kk) /\ Bounded(kk.sched) => Bounded(s),
           NEW tasks \in [TaskId -> TaskState],
           \A r \in TaskId :
              /\ tasks[r].state = kk.task[r].state /\ tasks[r].blocked = kk.task[r].blocked
              /\ tasks[r].aff = kk.task[r].aff \/ r \in Pinned,
           NEW k1, k1.sched = s, k1.task = tasks, k1 \in KState
    PROVE  /\ GoodK(k1) /\ Moved(c, kk, k1)
           /\ Tracked(kk) => Tracked(k1)
           /\ Sees(kk) => Sees(k1)
<1>1. GoodK(k1) BY DEF GoodK, GoodSched, Entitled, IsBlocked
<1>2. FreeAnywhere(kk) => FreeAnywhere(k1) BY DEF FreeAnywhere
<1>3. Moved(c, kk, k1) BY <1>2 DEF Moved
<1>4. Tracked(kk) => Tracked(k1) BY DEF Tracked, RunnableIn, IsBlocked
<1>5. Sees(kk) => Sees(k1) BY DEF Sees
<1>6. QED BY <1>1, <1>3, <1>4, <1>5

\* sys_task_qos
LEMMA SysTaskQosStep ==
    ASSUME IInv, NEW c \in Cpu, NEW p \in TaskId, NEW q \in QosUsed, SysTaskQos(c, p, q)
    PROVE  Step(c) /\ KeepsTrack /\ KeepsSeeing
<1>1. PICK s : s = SetTaskQos(k.sched, p, q) OBVIOUS
<1>2. PICK tasks : tasks = [k.task EXCEPT ![p].qos = q] OBVIOUS
<1>3. PICK k1 : k1 = [sched |-> s, task |-> tasks] OBVIOUS
<1>4. /\ k' = k1 /\ UNCHANGED hart /\ hart[c].mode = "user"
      /\ SetTaskQosErr(k.sched, p, q) # "QueueFull"
  BY <1>1, <1>2, <1>3 DEF SysTaskQos, Executing, InUser
<1>5. q \in Qos BY DispatchAssumption
<1>6. GoodK(k) /\ GoodSched(k.sched) BY AtHart, KFields
<1>7. /\ GoodSched(s)
      /\ \A d \in Cpu, r \in TaskId : Runs(s, d, r) <=> Runs(k.sched, d, r)
      /\ \A r \in TaskId : Has(s, r) <=> Has(k.sched, r)
      /\ Bounded(k.sched) => Bounded(s)
  BY <1>1, <1>4, <1>5, <1>6, SetTaskQosEffect
<1>8. /\ tasks \in [TaskId -> TaskState]
      /\ \A r \in TaskId : /\ tasks[r].state = k.task[r].state
                           /\ tasks[r].blocked = k.task[r].blocked
                           /\ tasks[r].aff = k.task[r].aff
  BY <1>2, <1>5, <1>6, KFields DEF TaskState
<1>9. k1 \in KState /\ k1.sched = s /\ k1.task = tasks
  BY <1>3, <1>7, <1>8 DEF KState, GoodSched
<1>10. /\ GoodK(k1) /\ Moved(c, k, k1)
       /\ Tracked(k) => Tracked(k1)
       /\ Sees(k) => Sees(k1)
  BY <1>6, <1>7, <1>8, <1>9, TablesReplaced
<1>11. Step(c) BY <1>4, <1>7, <1>9, <1>10, AtHart, SameHart
<1>12. QED BY <1>4, <1>10, <1>11 DEF KeepsTrack, KeepsSeeing

\* A change of affinity.
LEMMA SysSetAffinityStep ==
    ASSUME IInv, NEW c \in Cpu, NEW p \in Pinned, NEW mask \in Masks, SysSetAffinity(c, p, mask)
    PROVE  Step(c) /\ KeepsTrack /\ KeepsSeeing
<1>0. p \in TaskId BY DispatchAssumption
<1>1. PICK home : home = ClampHomeToAffinity(mask, k.task[p].home) OBVIOUS
<1>2. PICK tasks : tasks = [k.task EXCEPT ![p].aff = mask, ![p].home = home] OBVIOUS
<1>3. GoodK(k) /\ GoodSched(k.sched) BY AtHart, KFields
<1>4. k.task[p].home \in Cpu BY <1>0, <1>3, KFields DEF TaskState
<1>5. home \in Cpu
  <2>1. 0 \in Cpu BY SchedulerAssumption DEF Cpu
  <2>2. mask \cap Online \in SUBSET Cpu BY SchedulerAssumption
  <2>3. QED BY <1>1, <1>4, <2>1, <2>2, LowestIn DEF ClampHomeToAffinity
<1>6. PICK k1 : k1 = k' OBVIOUS
<1>7. /\ k1 = [k EXCEPT !.task[p].aff = mask, !.task[p].home = home]
      /\ UNCHANGED hart /\ hart[c].mode = "user"
  BY <1>0, <1>1, <1>3, <1>6 DEF SysSetAffinity, Executing, InUser, GoodK, KState, TaskState
<1>8. mask \in SUBSET Cpu BY DispatchAssumption
<1>9. /\ tasks \in [TaskId -> TaskState]
      /\ \A r \in TaskId : /\ tasks[r].state = k.task[r].state
                           /\ tasks[r].blocked = k.task[r].blocked
                           /\ tasks[r].aff = k.task[r].aff \/ r \in Pinned
  <2>1. PICK t : t = [k.task EXCEPT ![p].aff = mask] OBVIOUS
  <2>2. tasks = [t EXCEPT ![p].home = home] BY <1>2, <2>1
  <2>3. /\ t \in [TaskId -> TaskState]
        /\ \A r \in TaskId : /\ t[r].state = k.task[r].state
                             /\ t[r].blocked = k.task[r].blocked
                             /\ t[r].aff = k.task[r].aff \/ r \in Pinned
    BY <1>0, <1>3, <1>8, <2>1, KFields DEF TaskState
  <2>4. tasks \in [TaskId -> TaskState] BY <1>0, <1>5, <2>2, <2>3 DEF TaskState
  <2>5. \A r \in TaskId : /\ tasks[r].state = t[r].state
                          /\ tasks[r].blocked = t[r].blocked
                          /\ tasks[r].aff = t[r].aff
    BY <1>0, <2>2, <2>3 DEF TaskState
  <2>6. QED BY <2>3, <2>4, <2>5
<1>10. k1.sched = k.sched /\ k1.task = tasks BY <1>2, <1>3, <1>7 DEF GoodK, KState
<1>11. k1 \in KState BY <1>3, <1>7, <1>9, <1>10 DEF GoodK, KState
<1>12. /\ GoodK(k1) /\ Moved(c, k, k1)
       /\ Tracked(k) => Tracked(k1)
       /\ Sees(k) => Sees(k1)
  BY <1>3, <1>9, <1>10, <1>11, TablesReplaced
<1>13. Step(c) BY <1>6, <1>7, <1>10, <1>12, AtHart, SameHart
<1>14. QED BY <1>6, <1>12, <1>13 DEF KeepsTrack, KeepsSeeing

\* sys_task_resume
LEMMA SysResumeStep ==
    ASSUME IInv, NEW c \in Cpu, NEW p \in TaskId, SysResume(c, p)
    PROVE  Step(c) /\ KeepsTrack /\ KeepsSeeing
<1>1. PICK b, q : b = HomeOf(k, p) /\ q = k.task[p].qos OBVIOUS
<1>2. PICK s : s = EnqueueOnCpu(k.sched, b, p, q) OBVIOUS
<1>3. PICK tasks : tasks = [k.task EXCEPT ![p].state = "Running"] OBVIOUS
<1>4. PICK k1 : k1 = [sched |-> s, task |-> tasks] OBVIOUS
<1>5. /\ k' = k1 /\ UNCHANGED hart /\ hart[c].mode = "user"
      /\ k.task[p].state = "Suspended" /\ ~ Full(k.sched, b, q)
  BY <1>1, <1>2, <1>3, <1>4 DEF SysResume, Executing, InUser
<1>6. GoodK(k) /\ GoodSched(k.sched) BY AtHart, KFields
<1>7. b \in Cpu /\ q \in Qos BY <1>1, <1>6, HomeOfType, KFields DEF TaskState
<1>8. ~ Has(k.sched, p) /\ ~ IsBlocked(k, p) BY <1>5, <1>6 DEF GoodK, Entitled
<1>9. /\ GoodSched(s) /\ s.cur = k.sched.cur
      /\ \A r \in TaskId : r # p => (Has(s, r) <=> Has(k.sched, r))
      /\ ~ Full(k.sched, b, q) => Has(s, p)
      /\ Bounded(k.sched) => Bounded(s)
  BY <1>2, <1>6, <1>7, <1>8, EnqueueEffect
<1>10. /\ tasks \in [TaskId -> TaskState]
       /\ \A r \in TaskId : r # p => tasks[r] = k.task[r]
       /\ tasks[p].state = "Running" /\ tasks[p].blocked = k.task[p].blocked
       /\ tasks[p].aff = k.task[p].aff
  BY <1>3, <1>6, KFields DEF TaskState
<1>11. k1 \in KState /\ k1.sched = s /\ k1.task = tasks
  BY <1>4, <1>9, <1>10 DEF KState, GoodSched
<1>12. ~ IsBlocked(k1, p) /\ \A r \in TaskId : IsBlocked(k1, r) <=> IsBlocked(k, r)
  BY <1>8, <1>10, <1>11 DEF IsBlocked
<1>13. ASSUME NEW r \in TaskId
       PROVE  /\ IsBlocked(k1, r) => ~ Has(s, r)
              /\ k1.task[r].state = "Suspended" => ~ Has(s, r) /\ ~ IsBlocked(k1, r)
  <2>1. CASE r = p BY <1>10, <1>11, <1>12, <2>1
  <2>2. CASE r # p BY <1>6, <1>9, <1>10, <1>11, <1>12, <2>2 DEF GoodK, Entitled
  <2>3. QED BY <2>1, <2>2
<1>14. GoodK(k1) BY <1>9, <1>11, <1>13 DEF GoodK, GoodSched, Entitled
<1>15. \A d \in Cpu, r \in TaskId : Runs(s, d, r) <=> Runs(k.sched, d, r) BY <1>9 DEF Runs
<1>16. Moved(c, k, k1)
  <2>1. \A r \in TaskId : tasks[r].aff = k.task[r].aff BY <1>10
  <2>2. \A r \in TaskId : /\ tasks[r].state = "Suspended" => k.task[r].state = "Suspended"
                          /\ k.task[r].state = "Reaped" => tasks[r].state = "Reaped"
    BY <1>5, <1>10
  <2>3. QED BY <1>9, <1>11, <1>15, <2>1, <2>2 DEF Moved, FreeAnywhere
<1>17. Step(c) BY <1>5, <1>11, <1>14, <1>15, <1>16, AtHart, SameHart
<1>18. Tracked(k) => Tracked(k1)
  BY <1>5, <1>9, <1>10, <1>11, <1>12 DEF Tracked, RunnableIn
<1>19. Sees(k) => Sees(k1)
  <2>1. k1.task[p].blocked.on = "None" BY <1>12 DEF IsBlocked
  <2>2. QED BY <1>10, <1>11, <2>1 DEF Sees, OnChild
<1>20. QED BY <1>5, <1>17, <1>18, <1>19 DEF KeepsTrack, KeepsSeeing

\* Delivery by the idle boot hart.
LEMMA IdleDeliveryStep ==
    ASSUME IInv, NEW c \in Cpu, IdleDelivery(c) PROVE Step(c) /\ KeepsTrack /\ KeepsSeeing
<1>1. PICK ps \in Signals : k' = WakeAll([k EXCEPT !.sched = SetCur(@, c, None)], ps)
  BY DEF IdleDelivery
<1>2. UNCHANGED hart /\ hart[c].mode # "user" BY DEF IdleDelivery
<1>3. PICK s : s = SetCur(k.sched, c, None) OBVIOUS
<1>4. PICK ka : ka = [k EXCEPT !.sched = s] OBVIOUS
<1>5. PICK k1 : k1 = WakeAll(ka, ps) OBVIOUS
<1>6. k' = k1 BY <1>1, <1>3, <1>4, <1>5
<1>7. /\ GoodK(ka) /\ Moved(c, k, ka) /\ \A r \in TaskId : ~ Runs(ka.sched, c, r)
      /\ Sees(k) => Sees(ka)
      /\ Tracked(k) /\ (\A r \in TaskId : Runs(k.sched, c, r) => ~ RunnableIn(k, r))
           => Tracked(ka)
  BY <1>3, <1>4, AtHart, Finished
<1>8. GoodK(k1) /\ Woken(ka, k1) BY <1>5, <1>7, SignalsType, WakeAllEffect
<1>9. /\ Moved(c, ka, k1) /\ (Tracked(ka) => Tracked(k1)) /\ (Sees(ka) => Sees(k1))
      /\ \A r \in TaskId : Runs(k1.sched, c, r) <=> Runs(ka.sched, c, r)
  BY <1>8, WokenIsMoved
<1>10. Moved(c, k, k1) BY <1>7, <1>9, MovedTransitive
<1>11. Step(c) BY <1>2, <1>6, <1>7, <1>8, <1>9, <1>10, SameHart
<1>12. CurrentRuns => \A r \in TaskId : Runs(k.sched, c, r) => ~ RunnableIn(k, r)
  BY <1>2 DEF CurrentRuns, Runs, RunnableIn
<1>13. QED BY <1>6, <1>7, <1>9, <1>11, <1>12 DEF KeepsTrack, KeepsSeeing

\* One round of the idle loop.
LEMMA IdleRoundStep ==
    ASSUME IInv, NEW c \in Cpu, IdleRound(c) PROVE Step(c) /\ KeepsTrack /\ KeepsSeeing
<1>1. PICK own : own = ScheduleNext(k.sched, c) OBVIOUS
<1>2. PICK aff : aff = [p \in TaskId |-> k.task[p].aff] OBVIOUS
<1>3. PICK homes : homes = [p \in TaskId |-> k.task[p].home] OBVIOUS
<1>4. PICK st : st = StealIntoCurrent(own, c, aff, homes) OBVIOUS
<1>5. PICK ka : ka = [k EXCEPT !.sched = own] OBVIOUS
<1>6. hart[c].mode # "user" BY DEF IdleRound
<1>7. GoodK(k) /\ GoodSched(k.sched) /\ k \in KState BY AtHart, KFields
<1>8. /\ GoodK(ka) /\ ka.sched = own /\ ka.task = k.task /\ Moved(c, k, ka)
      /\ Sees(k) => Sees(ka)
      /\ Tracked(k) /\ (\A r \in TaskId : Runs(k.sched, c, r) => ~ RunnableIn(k, r))
           => Tracked(ka)
  BY <1>1, <1>5, <1>7, Dispatched
<1>9. CurrentRuns => \A r \in TaskId : Runs(k.sched, c, r) => ~ RunnableIn(k, r)
  BY <1>6 DEF CurrentRuns, Runs, RunnableIn
<1>10. Tracked(k) /\ CurrentRuns => Tracked(ka) BY <1>8, <1>9
<1>11. ASSUME NEW s, s.cur[c] # None, s = k'.sched, GoodK(k'), Moved(c, k, k'),
              Resume(c, s.cur[c].id)
       PROVE  Step(c)
  <2>1. s.cur[c].id = NextOr(s, c, None) BY <1>11 DEF NextOr
  <2>2. Resume(c, NextOr(s, c, None)) BY <1>11, <2>1
  <2>3. QED BY <1>11, <2>2, Resumed
<1>12. CASE own.cur[c] # None
  <2>1. k' = [sched |-> own, task |-> k.task] /\ Resume(c, own.cur[c].id)
    BY <1>1, <1>12 DEF IdleRound
  <2>2. k'.sched = own /\ k'.task = ka.task BY <1>8, <2>1
  <2>3. k' \in KState BY <1>7, <1>8, <2>1 DEF GoodK, KState
  <2>4. PICK k1 : k1 = k' OBVIOUS
  <2>5. GoodK(k1) /\ Moved(c, ka, k1) /\ (Tracked(ka) => Tracked(k1)) /\ (Sees(ka) => Sees(k1))
    <3>1. k1.sched = ka.sched /\ k1.task = ka.task /\ k1 \in KState BY <1>8, <2>2, <2>3, <2>4
    <3>2. GoodK(k1) BY <1>8, <3>1 DEF GoodK, Entitled, IsBlocked
    <3>3. QED BY <3>1, <3>2 DEF Moved, FreeAnywhere, Tracked, RunnableIn, IsBlocked, Sees
  <2>6. Moved(c, k, k1) BY <1>8, <2>5, MovedTransitive
  <2>7. Step(c) BY <1>11, <1>12, <2>1, <2>2, <2>4, <2>5, <2>6
  <2>8. QED BY <1>8, <1>10, <2>4, <2>5, <2>7 DEF KeepsTrack, KeepsSeeing
<1>13. CASE own.cur[c] = None
  <2>1. aff \in [TaskId -> SUBSET Cpu] /\ homes \in [TaskId -> Cpu]
    BY <1>2, <1>3, <1>7, KFields DEF TaskState
  <2>2. /\ GoodSched(st)
        /\ \A d \in Cpu : d # c => st.cur[d] = own.cur[d]
        /\ \A r \in TaskId : Has(st, r) <=> Has(own, r)
        /\ Bounded(own) /\ (\A r \in TaskId : aff[r] = Cpu \/ r \in Pinned) => Bounded(st)
    BY <1>4, <1>8, <1>13, <2>1, KFields, StealEffect
  <2>3. FreeAnywhere(ka) /\ Bounded(own) => Bounded(st) BY <1>2, <1>8, <2>2 DEF FreeAnywhere
  <2>4. \A d \in Cpu, r \in TaskId : d # c /\ Runs(st, d, r) => Runs(ka.sched, d, r)
    BY <1>8, <2>2 DEF Runs
  <2>5. CASE /\ k' = [sched |-> st, task |-> [k.task EXCEPT ![NextOr(st, c, Root)].home = c]]
             /\ st.cur[c] # None /\ Resume(c, st.cur[c].id)
    <3>1. PICK tasks : tasks = [k.task EXCEPT ![NextOr(st, c, Root)].home = c] OBVIOUS
    <3>2. PICK k1 : k1 = [sched |-> st, task |-> tasks] OBVIOUS
    <3>3. k' = k1 BY <2>5, <3>1, <3>2
    <3>4. PICK x : x = NextOr(st, c, Root) OBVIOUS
    <3>5. st.cur[c] \in EntryType \cup {None} BY <2>2, SchedFields DEF GoodSched
    <3>6. x \in TaskId BY <2>5, <3>4, <3>5 DEF NextOr, EntryType
    <3>7. tasks = [k.task EXCEPT ![x].home = c] BY <3>1, <3>4
    <3>8. /\ tasks \in [TaskId -> TaskState]
          /\ \A r \in TaskId : /\ tasks[r].state = k.task[r].state
                               /\ tasks[r].blocked = k.task[r].blocked
                               /\ tasks[r].aff = k.task[r].aff
      BY <1>7, <3>6, <3>7, KFields DEF TaskState
    <3>9. k1 \in KState /\ k1.sched = st /\ k1.task = tasks
      BY <2>2, <3>2, <3>8 DEF KState, GoodSched
    <3>10. /\ GoodK(k1) /\ Moved(c, ka, k1)
           /\ Tracked(ka) => Tracked(k1)
           /\ Sees(ka) => Sees(k1)
      BY <1>8, <2>2, <2>3, <2>4, <3>8, <3>9, TablesReplaced
    <3>11. Moved(c, k, k1) BY <1>8, <3>10, MovedTransitive
    <3>12. Step(c) BY <1>11, <2>5, <3>3, <3>9, <3>10, <3>11
    <3>13. QED BY <1>8, <1>10, <3>3, <3>10, <3>12 DEF KeepsTrack, KeepsSeeing
  <2>6. CASE k' = [k EXCEPT !.sched = IF st.cur[c] = None THEN st ELSE own] /\ UNCHANGED hart
    <3>1. PICK s : s = IF st.cur[c] = None THEN st ELSE own OBVIOUS
    <3>2. PICK k1 : k1 = [k EXCEPT !.sched = s] OBVIOUS
    <3>3. k' = k1 BY <2>6, <3>1, <3>2
    <3>4. /\ GoodSched(s) /\ s.cur[c] = None
          /\ \A r \in TaskId : Has(s, r) <=> Has(own, r)
          /\ \A d \in Cpu, r \in TaskId : d # c /\ Runs(s, d, r) => Runs(ka.sched, d, r)
          /\ FreeAnywhere(ka) /\ Bounded(own) => Bounded(s)
      BY <1>8, <1>13, <2>2, <2>3, <2>4, <3>1, KFields
    <3>5. k1.sched = s /\ k1.task = ka.task BY <1>7, <1>8, <3>2 DEF KState
    <3>6. k1 \in KState BY <1>7, <3>2, <3>4 DEF KState, GoodSched
    <3>7. PICK tasks : tasks = ka.task OBVIOUS
    <3>8. /\ tasks \in [TaskId -> TaskState]
          /\ \A r \in TaskId : /\ tasks[r].state = ka.task[r].state
                               /\ tasks[r].blocked = ka.task[r].blocked
                               /\ tasks[r].aff = ka.task[r].aff \/ r \in Pinned
      BY <1>8, <3>7, KFields
    <3>9. /\ GoodK(k1) /\ Moved(c, ka, k1)
          /\ Tracked(ka) => Tracked(k1)
          /\ Sees(ka) => Sees(k1)
      BY <1>8, <3>4, <3>5, <3>6, <3>7, <3>8, TablesReplaced
    <3>10. Moved(c, k, k1) BY <1>8, <3>9, MovedTransitive
    <3>11. \A r \in TaskId : ~ Runs(k1.sched, c, r) BY <3>4, <3>5 DEF Runs
    <3>12. Step(c) BY <2>6, <3>3, <3>9, <3>10, <3>11, SameHart
    <3>13. QED BY <1>8, <1>10, <3>3, <3>9, <3>12 DEF KeepsTrack, KeepsSeeing
  <2>7. QED BY <1>1, <1>2, <1>3, <1>4, <1>13, <2>5, <2>6 DEF IdleRound
<1>14. QED BY <1>12, <1>13

\* Every kernel entry is a step in this sense.
LEMMA NextIsStep ==
    ASSUME IInv, Next PROVE (\E c \in Cpu : Step(c)) /\ KeepsTrack /\ KeepsSeeing
BY SysYieldStep, PreemptStep, SysBlockStep, SysSignalStep, SysWaitStep, SysExitStep,
   FaultStep, SysTaskQosStep, SysSetAffinityStep, SysResumeStep, IdleRoundStep,
   IdleDeliveryStep
   DEF Next

-----------------------------------------------------------------------------
(* The invariants are inductive                                             *)

\* The kernel starts in a good state.
LEMMA InitGood ==
    ASSUME Init
    PROVE  /\ IInv /\ CurrentRuns /\ Sees(k) /\ Bounded(k.sched)
           /\ Roomy => Tracked(k)
           /\ FreeAnywhere(k)
<1>1. PICK home \in Homes :
        /\ k = [sched |-> EnqueueOnCpu(NewScheduler, 0, Root, Normal),
                task |-> [p \in TaskId |->
                    [state |-> IF p = Root THEN "Running" ELSE "Suspended",
                     blocked |-> NotBlocked, qos |-> Normal,
                     home |-> home[p], aff |-> Cpu]]]
        /\ hart = [c \in Cpu |-> [pid |-> None, mode |-> "idle"]]
  BY DEF Init
<1>2. PICK new : new = NewScheduler OBVIOUS
<1>3. PICK q : q = Normal OBVIOUS
<1>4. q \in Qos /\ 0 \in Cpu /\ Root \in TaskId
  BY <1>3, SchedulerAssumption, DispatchAssumption DEF Normal, Qos, Cpu
<1>5. /\ new \in SchedulerState
      /\ \A c \in Cpu, r \in Qos : new.queues[c][r] = <<>>
      /\ \A c \in Cpu : new.cur[c] = None
  BY <1>2 DEF NewScheduler, SchedulerState, Queue
<1>6. /\ \A c \in Cpu, r \in Qos, p \in TaskId : ~ In(new, c, r, p)
      /\ \A c \in Cpu, p \in TaskId : ~ Runs(new, c, p)
  BY <1>5 DEF In, Elements, Runs
<1>7. GoodSched(new) /\ \A p \in TaskId : ~ Has(new, p)
  BY <1>5, <1>6 DEF GoodSched, Single, IsDistinct, Has
<1>8. Bounded(new)
  <2>1. \A c \in Cpu, r \in Qos : Free(new.queues[c][r]) = {} BY <1>5 DEF Free, Elements
  <2>2. Cardinality({}) = 0 BY FS_EmptySet
  <2>3. QED BY <2>1, <2>2, SchedulerAssumption DEF Bounded
<1>9. /\ GoodSched(k.sched) /\ k.sched.cur = new.cur
      /\ \A r \in TaskId : r # Root => (Has(k.sched, r) <=> Has(new, r))
      /\ ~ Full(new, 0, q) => Has(k.sched, Root)
      /\ Bounded(new) => Bounded(k.sched)
  <2>1. k.sched = EnqueueOnCpu(new, 0, Root, q) BY <1>1, <1>2, <1>3
  <2>2. QED BY <1>4, <1>7, <2>1, EnqueueEffect
<1>10. \A p \in TaskId : /\ k.task[p].state = IF p = Root THEN "Running" ELSE "Suspended"
                         /\ k.task[p].blocked = NotBlocked /\ k.task[p].aff = Cpu
  BY <1>1
<1>11. k.task \in [TaskId -> TaskState]
  BY <1>1, <1>3, DispatchAssumption, <1>4, SchedulerAssumption DEF TaskState, NotBlocked
<1>12. k \in KState BY <1>1, <1>9, <1>11 DEF KState, GoodSched
<1>13. Entitled(k) BY <1>7, <1>9, <1>10 DEF Entitled, IsBlocked, NotBlocked
<1>14. GoodK(k) BY <1>9, <1>12, <1>13 DEF GoodK, GoodSched
<1>15. hart \in [Cpu -> HartState] /\ \A c \in Cpu : hart[c].pid = None
  BY <1>1 DEF HartState, Mode
<1>16. \A c \in Cpu : k.sched.cur[c] = None BY <1>5, <1>9
<1>17. IInv /\ CurrentRuns
  BY <1>12, <1>14, <1>15, <1>16
     DEF IInv, TypeOK, KState, HartState, CurrentAgrees, Started, CurrentRuns
<1>18. Sees(k) BY <1>10 DEF Sees, NotBlocked, OnChild
<1>19. Roomy => Tracked(k)
  <2>1. Roomy => ~ Full(new, 0, q) BY <1>4, <1>6, <1>7, RoomInQueue
  <2>2. QED BY <1>9, <1>10, <2>1 DEF Tracked, RunnableIn
<1>20. FreeAnywhere(k) BY <1>10 DEF FreeAnywhere
<1>21. QED BY <1>8, <1>9, <1>17, <1>18, <1>19, <1>20

\* A step of one hart preserves the agreement of the tables.
LEMMA StepKeeps ==
    ASSUME IInv, NEW c \in Cpu, Step(c) PROVE IInv' /\ (CurrentRuns => CurrentRuns')
<1>1. PICK h : hart' = [hart EXCEPT ![c] = h] /\ Fits(c, h, k') BY DEF Step
<1>2. PICK k1 : k1 = k' OBVIOUS
<1>3. GoodK(k1) /\ Moved(c, k, k1) /\ Fits(c, h, k1) BY <1>1, <1>2 DEF Step
<1>4. hart \in [Cpu -> HartState] BY AtHart
<1>5. hart' \in [Cpu -> HartState] /\ hart'[c] = h /\ \A d \in Cpu : d # c => hart'[d] = hart[d]
  BY <1>1, <1>3, <1>4 DEF Fits
<1>6. TypeOK' BY <1>2, <1>3, <1>5 DEF TypeOK, GoodK, KState, HartState
<1>7. GoodK(k)' BY <1>2, <1>3 DEF GoodK, KState, Single, Entitled, In, Has, Runs, IsBlocked
<1>8. ASSUME NEW d \in Cpu, NEW r \in TaskId, Runs(k1.sched, d, r)
      PROVE  /\ hart'[d].pid = r
             /\ CurrentRuns => (hart'[d].mode = "user" \/ k1.task[r].state = "Reaped")
  <2>1. CASE d = c BY <1>3, <1>5, <1>8, <2>1 DEF Fits
  <2>2. CASE d # c
    <3>1. Runs(k.sched, d, r) /\ hart'[d] = hart[d] BY <1>3, <1>5, <1>8, <2>2 DEF Moved
    <3>2. hart[d].pid = r BY <3>1, AtHart
    <3>3. CurrentRuns => (hart[d].mode = "user" \/ k.task[r].state = "Reaped")
      BY <3>1 DEF CurrentRuns, Runs
    <3>4. QED BY <1>3, <3>1, <3>2, <3>3 DEF Moved
  <2>3. QED BY <2>1, <2>2
<1>9. \A d \in Cpu : k1.sched.cur[d] # None =>
        k1.sched.cur[d].id \in TaskId /\ Runs(k1.sched, d, k1.sched.cur[d].id)
  BY <1>3, KFields, SchedFields DEF EntryType, Runs
<1>10. CurrentAgrees' BY <1>2, <1>8, <1>9 DEF CurrentAgrees
<1>11. CurrentRuns => CurrentRuns' BY <1>2, <1>8, <1>9 DEF CurrentRuns
<1>12. ASSUME NEW d \in Cpu, hart'[d].pid # None
       PROVE  k1.task[hart'[d].pid].state # "Suspended"
  <2>1. CASE d = c BY <1>3, <1>5, <1>12, <2>1 DEF Fits
  <2>2. CASE d # c
    <3>1. hart'[d] = hart[d] BY <1>5, <2>2
    <3>2. hart[d].pid \in TaskId /\ k.task[hart[d].pid].state # "Suspended"
      BY <1>12, <3>1, AtHart
    <3>3. QED BY <1>3, <3>1, <3>2 DEF Moved
  <2>3. QED BY <2>1, <2>2
<1>13. Started' BY <1>2, <1>12 DEF Started
<1>14. QED BY <1>6, <1>7, <1>10, <1>11, <1>13 DEF IInv

\* The agreement of the tables is inductive.
LEMMA IInvInductive == ASSUME IInv, [Next]_vars PROVE IInv' /\ (CurrentRuns => CurrentRuns')
<1>1. CASE Next BY <1>1, NextIsStep, StepKeeps
<1>2. CASE UNCHANGED vars
  <2>1. k' = k /\ hart' = hart BY <1>2 DEF vars
  <2>2. QED BY <2>1 DEF IInv, TypeOK, GoodK, KState, Single, Entitled, In, Has, Runs, IsBlocked,
                        CurrentAgrees, Started, CurrentRuns
<1>3. QED BY <1>1, <1>2

\* IInv holds in every reachable state.
LEMMA IInvHolds == Spec => []IInv
<1>1. Init => IInv BY InitGood
<1>2. IInv /\ [Next]_vars => IInv' BY IInvInductive
<1>3. QED BY <1>1, <1>2, PTL DEF Spec

\* A set without two different elements.
LEMMA AtMostOne ==
    ASSUME NEW S, \A x, y \in S : x = y
    PROVE  Cardinality(S) \in {0, 1} /\ (S = {} => Cardinality(S) = 0)
<1>1. CASE S = {} BY <1>1, FS_EmptySet
<1>2. CASE S # {}
  <2>1. PICK x : S = {x} BY <1>2
  <2>2. QED BY <1>2, <2>1, FS_Singleton
<1>3. QED BY <1>1, <1>2

\* Single is OneEntry.
LEMMA SingleIsOneEntry == ASSUME IInv PROVE OneEntry
<1> SUFFICES ASSUME NEW p \in TaskId
             PROVE  /\ \A c \in Cpu, q \in Qos : Occurrences(k.sched.queues[c][q], p) <= 1
                    /\ Cardinality(QueuedAt(k.sched, p))
                         + Cardinality({c \in Cpu : Runs(k.sched, c, p)}) <= 1
  BY DEF OneEntry
<1>1. GoodSched(k.sched) BY KFields DEF IInv
<1>2. ASSUME NEW c \in Cpu, NEW q \in Qos PROVE Occurrences(k.sched.queues[c][q], p) <= 1
  <2>1. PICK seq : seq = k.sched.queues[c][q] OBVIOUS
  <2>2. IsDistinct(seq) BY <1>1, <2>1 DEF GoodSched, Single
  <2>3. PICK S : S = {i \in DOMAIN seq : seq[i] = p} OBVIOUS
  <2>4. \A x, y \in S : x = y BY <2>2, <2>3 DEF IsDistinct
  <2>5. Cardinality(S) \in {0, 1} BY <2>4, AtMostOne
  <2>6. QED BY <2>1, <2>3, <2>5 DEF Occurrences
<1>3. \A c \in Cpu, q \in Qos : Contains(k.sched.queues[c][q], p) <=> In(k.sched, c, q, p)
  BY <1>1, SchedFields DEF GoodSched, Contains, In, Elements
<1>4. PICK Q : Q = QueuedAt(k.sched, p) OBVIOUS
<1>5. PICK C : C = {c \in Cpu : Runs(k.sched, c, p)} OBVIOUS
<1>6. ASSUME NEW x \in Q PROVE x = <<x[1], x[2]>> /\ x[1] \in Cpu /\ x[2] \in Qos
                               /\ In(k.sched, x[1], x[2], p)
  BY <1>3, <1>4 DEF QueuedAt
<1>7. ASSUME NEW x \in Q, NEW y \in Q PROVE x = y
  <2>1. /\ x[1] \in Cpu /\ x[2] \in Qos /\ In(k.sched, x[1], x[2], p)
        /\ y[1] \in Cpu /\ y[2] \in Qos /\ In(k.sched, y[1], y[2], p)
    BY <1>6
  <2>2. x[1] = y[1] /\ x[2] = y[2] BY <1>1, <2>1 DEF GoodSched, Single
  <2>3. QED BY <1>6, <2>2
<1>8. \A x, y \in C : x = y BY <1>1, <1>5 DEF GoodSched, Single
<1>9. Q = {} \/ C = {} BY <1>1, <1>5, <1>6 DEF GoodSched, Single
<1>10. Cardinality(Q) \in {0, 1} /\ (Q = {} => Cardinality(Q) = 0) BY <1>7, AtMostOne
<1>11. Cardinality(C) \in {0, 1} /\ (C = {} => Cardinality(C) = 0) BY <1>8, AtMostOne
<1>12. Cardinality(Q) + Cardinality(C) <= 1 BY <1>9, <1>10, <1>11
<1>13. QED BY <1>2, <1>4, <1>5, <1>12

\* Scheduler, task table and harts never disagree, whatever the number of CPUs,
\* classes and tasks and however small the queues: no yield, preemption, block,
\* wake-up, exit, fault, change of class or affinity, or steal leaves a task
\* with two entries or a blocked task with one, or the current task of a CPU
\* unknown to its hart (TaskTable::wake, block_current, Scheduler::steal).
THEOREM DispatchTablesAgree == Spec => []TablesAgree
<1>1. IInv => TablesAgree
  <2> SUFFICES ASSUME IInv PROVE TablesAgree OBVIOUS
  <2>1. OneEntry BY SingleIsOneEntry
  <2>2. GoodK(k) /\ GoodSched(k.sched) BY KFields DEF IInv
  <2>3. \A c \in Cpu, q \in Qos, p \in TaskId :
          Contains(k.sched.queues[c][q], p) <=> In(k.sched, c, q, p)
    BY <2>2, SchedFields DEF GoodSched, Contains, In, Elements
  <2>4. BlockedHasNoEntry
    BY <2>2, <2>3 DEF BlockedHasNoEntry, Queued, QueuedAt, Current, GoodK, Entitled, Has
  <2>5. CurrentAgrees BY DEF IInv
  <2>6. QED BY <2>1, <2>4, <2>5 DEF TablesAgree
<1>2. QED BY <1>1, IInvHolds, PTL

\* With queues that hold every task, no runnable task is lost: it stays queued
\* or executed by a hart through every interleaving of kernel entries.  (At a
\* full queue yield_current keeps the entry and schedule_next then drops it.)
THEOREM DispatchLosesNoTask ==
    ASSUME IsFiniteSet(TaskId), Cardinality(TaskId) <= Capacity
    PROVE  Spec => []NoTaskLost
<1>1. Roomy BY DEF Roomy
<1>2. Init => TInv BY <1>1, InitGood DEF TInv
<1>3. TInv /\ [Next]_vars => TInv'
  <2> SUFFICES ASSUME TInv, [Next]_vars PROVE TInv' OBVIOUS
  <2>1. IInv' /\ CurrentRuns' BY IInvInductive DEF TInv
  <2>2. Tracked(k')
    <3>1. CASE Next BY <1>1, <3>1, NextIsStep DEF TInv, KeepsTrack
    <3>2. CASE UNCHANGED vars BY <3>2 DEF vars, TInv
    <3>3. QED BY <3>1, <3>2
  <2>3. Tracked(k)' BY <2>2 DEF Tracked, RunnableIn, IsBlocked, Has, In, Runs
  <2>4. QED BY <2>1, <2>3 DEF TInv
<1>4. TInv => NoTaskLost
  <2> SUFFICES ASSUME TInv, NEW p \in TaskId, Runnable(p)
               PROVE  Queued(p) \/ \E c \in Cpu : hart[c] = [pid |-> p, mode |-> "user"]
    BY DEF NoTaskLost
  <2>1. IInv BY DEF TInv
  <2>2. GoodK(k) /\ GoodSched(k.sched) BY <2>1, KFields DEF IInv
  <2>3. Has(k.sched, p) BY DEF TInv, Tracked, RunnableIn, Runnable
  <2>4. CASE \E c \in Cpu, q \in Qos : In(k.sched, c, q, p)
    <3>1. PICK c \in Cpu, q \in Qos : In(k.sched, c, q, p) BY <2>4
    <3>2. Contains(k.sched.queues[c][q], p)
      BY <2>2, <3>1, SchedFields DEF GoodSched, Contains, In, Elements
    <3>3. <<c, q>> \in QueuedAt(k.sched, p) BY <3>2 DEF QueuedAt
    <3>4. QED BY <3>3 DEF Queued
  <2>5. CASE \E c \in Cpu : Runs(k.sched, c, p)
    <3>1. PICK c \in Cpu : Runs(k.sched, c, p) BY <2>5
    <3>2. hart[c].pid = p /\ hart[c] \in HartState BY <2>1, <3>1, AtHart
    <3>3. hart[c].mode = "user" BY <3>1 DEF TInv, CurrentRuns, Runs, Runnable
    <3>4. hart[c] = [pid |-> p, mode |-> "user"] BY <3>2, <3>3 DEF HartState
    <3>5. QED BY <3>4
  <2>6. QED BY <2>3, <2>4, <2>5 DEF Has
<1>5. QED BY <1>2, <1>3, <1>4, PTL DEF Spec

\* Whatever tasks are pinned, to whatever CPUs, enqueues, changes of class,
\* yields and steals at full queues never duplicate an entry, and a queue
\* outgrows its capacity by pinned tasks only: with none it never does.  The
\* unchecked push back of a steal (steal_into_current) is part of the argument:
\* it happens only to a task that its mask keeps from the thief.
THEOREM DispatchQueuesSound == Spec => []QueuesSound
<1> DEFINE J == IInv /\ FreeAnywhere(k) /\ Bounded(k.sched)
<1>1. Init => J BY InitGood
<1>2. J /\ [Next]_vars => J'
  <2> SUFFICES ASSUME J, [Next]_vars PROVE J' OBVIOUS
  <2>1. IInv' BY IInvInductive
  <2>2. FreeAnywhere(k') /\ Bounded(k'.sched)
    <3>1. CASE Next BY <3>1, NextIsStep DEF Step, Moved
    <3>2. CASE UNCHANGED vars BY <3>2 DEF vars
    <3>3. QED BY <3>1, <3>2
  <2>3. QED BY <2>1, <2>2 DEF FreeAnywhere, Bounded
<1>3. J => QueuesSound
  <2>1. \A seq : ToSet(seq) = Elements(seq) BY DEF ToSet, Elements
  <2>2. Bounded(k.sched) => QueuesBounded BY <2>1 DEF QueuesBounded, Bounded, Free
  <2>3. QED BY <2>2, SingleIsOneEntry DEF QueuesSound
<1>4. QED
  <2> HIDE DEF J
  <2> QED BY <1>1, <1>2, <1>3, PTL DEF Spec

\* With room for every task, a parent is never left waiting for a child that
\* has exited, whatever runs between the exit, the wake-up of the parent and
\* the next wait (sys_wait, sys_exit, wake_parent_waiter).  A fault does not
\* wake the parent, so no task may fault.
THEOREM DispatchWaitSeesZombie ==
    ASSUME IsFiniteSet(TaskId), Cardinality(TaskId) <= Capacity, Faulty = {}
    PROVE  Spec => []WaitSeesZombie
<1> DEFINE J == IInv /\ Sees(k)
<1>1. Roomy BY DEF Roomy
<1>2. Init => J BY InitGood
<1>3. J /\ [Next]_vars => J'
  <2> SUFFICES ASSUME J, [Next]_vars PROVE J' OBVIOUS
  <2>1. IInv' BY IInvInductive
  <2>2. Sees(k')
    <3>1. CASE Next BY <1>1, <3>1, NextIsStep DEF KeepsSeeing
    <3>2. CASE UNCHANGED vars BY <3>2 DEF vars
    <3>3. QED BY <3>1, <3>2
  <2>3. QED BY <2>1, <2>2 DEF Sees, OnChild
<1>4. J => WaitSeesZombie BY DEF WaitSeesZombie, Sees
<1>5. QED
  <2> HIDE DEF J
  <2> QED BY <1>2, <1>3, <1>4, PTL DEF Spec

\* Every reachable state has its type.
THEOREM DispatchTypeOK == Spec => []TypeOK
<1>1. IInv => TypeOK BY DEF IInv
<1>2. QED BY <1>1, IInvHolds, PTL
=============================================================================
