---------------------------- MODULE KernelTimers ----------------------------
(***************************************************************************)
(* Timer capabilities and the per-hart wake-up comparator (timer.rs,       *)
(* trap/runtime.rs, the timer interrupt of trap/handler.rs, cpu_main.rs).  *)
(*                                                                         *)
(* Times are relative to now, so that time can pass for ever: a deadline   *)
(* of 0 or less has elapsed.  A deadline that is MaxLate overdue stays so. *)
(* One blocked task with a timed IPC wait stands for all of them.          *)
(***************************************************************************)
EXTENDS Integers, Sequences, FiniteSets, FiniteSetsExt

CONSTANTS
    Timer,       \* timer ids; as many as MAX_TIMERS
    TmHart, Boot,
    Interval,    \* intervals a caller may ask for, 0 for a one-shot timer
    Delay,       \* deadlines a caller may ask for
    TickLen,     \* DEFAULT_TICK_CYCLES
    MaxLate

VARIABLES
    tmTable,     \* timer id -> state
    tmQueue,     \* the deadline queue: entries [id, left]
    tmWait,      \* deadline of the blocked task, NoWait if none
    tmMode,      \* hart -> "user" or "idle"
    tmCmp,       \* hart -> time to its timer interrupt; 0: it is pending
    tmShadow,    \* hart -> ARMED_DEADLINE_NS; NoWait for 0
    tmFired      \* history: timers popped by the last step

tmVars == <<tmTable, tmQueue, tmWait, tmMode, tmCmp, tmShadow, tmFired>>

NoWait == 99     \* larger than every deadline
FreeTimer == [used |-> FALSE, interval |-> 0, left |-> 0, armed |-> FALSE]

ASSUME TimerBounds ==
    /\ Boot \in TmHart /\ TickLen \in Nat /\ MaxLate \in Nat /\ TickLen < NoWait
    /\ \A i \in Interval : i \in Nat
    /\ \A d \in Delay : d \in Int /\ d < NoWait

TmInit ==
    /\ tmTable = [t \in Timer |-> FreeTimer] /\ tmQueue = {} /\ tmWait = NoWait
    /\ tmMode = [h \in TmHart |-> "idle"]
    /\ tmCmp = [h \in TmHart |-> TickLen]
    /\ tmShadow = [h \in TmHart |-> NoWait]
    /\ tmFired = {}

-----------------------------------------------------------------------------
(* runtime.rs: arm_wakeup keeps the earliest deadline; an elapsed shadow    *)
(* does not count.                                                          *)

ArmWakeup(cmp, shadow, h, d) ==
    IF shadow[h] > 0 /\ shadow[h] # NoWait /\ shadow[h] <= d
    THEN tmCmp' = cmp /\ tmShadow' = shadow
    ELSE tmCmp' = [cmp EXCEPT ![h] = Max({d, 0})] /\ tmShadow' = [shadow EXCEPT ![h] = d]

-----------------------------------------------------------------------------
(* System calls, made by a user task on hart h                              *)

TimerCreate(interval) ==
    /\ \E h \in TmHart : tmMode[h] = "user"
    /\ \E t \in Timer :
         /\ ~tmTable[t].used /\ \A u \in Timer : u < t => tmTable[u].used
         /\ tmTable' = [tmTable EXCEPT ![t] = [FreeTimer EXCEPT !.used = TRUE, !.interval = interval]]
    /\ tmFired' = {}
    /\ UNCHANGED <<tmQueue, tmWait, tmMode, tmCmp, tmShadow>>

(* sys_timer_set: an armed timer is refused. *)
TimerSet(h, t, d) ==
    /\ tmMode[h] = "user" /\ tmTable[t].used /\ ~tmTable[t].armed
    /\ tmTable' = [tmTable EXCEPT ![t].left = d, ![t].armed = TRUE]
    /\ tmQueue' = tmQueue \cup {[id |-> t, left |-> d]}
    /\ ArmWakeup(tmCmp, tmShadow, h, d)
    /\ tmFired' = {}
    /\ UNCHANGED <<tmWait, tmMode>>

Disarmed_Fault(t) == tmQueue
Disarmed(t) == tmQueue \ {[id |-> t, left |-> tmTable[t].left]}

TimerCancel(t) ==
    /\ \E h \in TmHart : tmMode[h] = "user"
    /\ tmTable[t].used /\ tmTable[t].armed
    /\ tmTable' = [tmTable EXCEPT ![t].armed = FALSE]
    /\ tmQueue' = Disarmed(t)
    /\ tmFired' = {}
    /\ UNCHANGED <<tmWait, tmMode, tmCmp, tmShadow>>

(* sys_cap_close of a copy of the capability: disarm and free. *)
TimerFree(t) ==
    /\ \E h \in TmHart : tmMode[h] = "user"
    /\ tmTable[t].used
    /\ tmTable' = [tmTable EXCEPT ![t] = FreeTimer]
    /\ tmQueue' = IF tmTable[t].armed THEN Disarmed(t) ELSE tmQueue
    /\ tmFired' = {}
    /\ UNCHANGED <<tmWait, tmMode, tmCmp, tmShadow>>

(* A timed receive or send blocks; the hart runs another task or none. *)
TimedWait(h, d) ==
    /\ tmMode[h] = "user" /\ tmWait = NoWait
    /\ tmWait' = d
    /\ ArmWakeup(tmCmp, tmShadow, h, d)
    /\ \E m \in {"user", "idle"} : tmMode' = [tmMode EXCEPT ![h] = m]
    /\ tmFired' = {}
    /\ UNCHANGED <<tmTable, tmQueue>>

(* The message arrived. *)
WaitOver ==
    /\ tmWait # NoWait
    /\ tmWait' = NoWait /\ tmFired' = {}
    /\ UNCHANGED <<tmTable, tmQueue, tmMode, tmCmp, tmShadow>>

-----------------------------------------------------------------------------
(* pop_expired: every queued deadline that has elapsed when the pass        *)
(* starts; a periodic timer is queued again one interval later, in the past *)
(* if it is that late.                                                      *)

Expired_Fault == {e \in tmQueue : e.left = 0}
Expired == {e \in tmQueue : e.left <= 0}
Popped  == {t \in Timer : tmTable[t].armed /\ tmTable[t].left <= 0
                            /\ \E e \in Expired : e.id = t}
Requeued(t) == [tmTable[t] EXCEPT !.left = @ + tmTable[t].interval,
                                  !.armed = tmTable[t].interval > 0]

(* process_expired_timers, then the expired IPC waits: events are sent (or  *)
(* lost if the endpoint is full), the shadow is cleared and the comparator  *)
(* set to the earliest deadline of all, or to the heartbeat if there is     *)
(* none.                                                                    *)
Process(h) ==
    /\ tmTable' = [t \in Timer |-> IF t \in Popped THEN Requeued(t) ELSE tmTable[t]]
    /\ tmQueue' = (tmQueue \ Expired)
                    \cup {[id |-> t, left |-> tmTable'[t].left] : t \in {u \in Popped : tmTable'[u].armed}}
    /\ LET pending == {e.left : e \in tmQueue'} \cup ({tmWait} \cap (1..(NoWait - 1)))
       IN ArmWakeup(tmCmp, [tmShadow EXCEPT ![h] = NoWait], h,
                    IF pending = {} THEN TickLen ELSE Min(pending))
    /\ tmWait' = IF tmWait <= 0 THEN NoWait ELSE tmWait
    /\ tmFired' = Popped
    /\ UNCHANGED tmMode

UserTimerIrq(h) == tmMode[h] = "user" /\ tmCmp[h] = 0 /\ Process(h)

(* The idle loop of the boot hart; other idle harts only sleep. *)
IdlePass == tmMode[Boot] = "idle" /\ Process(Boot)

(* The interrupt found the kernel: only the heartbeat is set. *)
KernelTimerIrq(h) ==
    /\ tmMode[h] = "idle" /\ tmCmp[h] = 0
    /\ tmCmp' = [tmCmp EXCEPT ![h] = TickLen]
    /\ tmFired' = {}
    /\ UNCHANGED <<tmTable, tmQueue, tmWait, tmMode, tmShadow>>

(* cpu_main enters user mode with timer_arm, which ignores the shadow. *)
Enter(h) ==
    /\ tmMode[h] = "idle"
    /\ tmMode' = [tmMode EXCEPT ![h] = "user"]
    /\ tmCmp' = [tmCmp EXCEPT ![h] = TickLen]
    /\ tmFired' = {}
    /\ UNCHANGED <<tmTable, tmQueue, tmWait, tmShadow>>

Leave(h) ==
    /\ tmMode[h] = "user"
    /\ tmMode' = [tmMode EXCEPT ![h] = "idle"]
    /\ tmFired' = {}
    /\ UNCHANGED <<tmTable, tmQueue, tmWait, tmCmp, tmShadow>>

Earlier(d) == IF d = NoWait THEN NoWait ELSE Max({d - 1, 0 - MaxLate})

TimeGoesOn ==
    /\ tmTable' = [t \in Timer |-> IF tmTable[t].armed THEN [tmTable[t] EXCEPT !.left = Earlier(@)]
                                   ELSE [tmTable[t] EXCEPT !.left = 0]]
    /\ tmQueue' = {[e EXCEPT !.left = Earlier(@)] : e \in tmQueue}
    /\ tmWait' = Earlier(tmWait)
    /\ tmCmp' = [h \in TmHart |-> Max({tmCmp[h] - 1, 0})]
    /\ tmShadow' = [h \in TmHart |-> IF tmShadow[h] = NoWait THEN NoWait ELSE Max({tmShadow[h] - 1, 0})]
    /\ tmFired' = {}
    /\ UNCHANGED tmMode

TmNext ==
    \/ \E i \in Interval : TimerCreate(i)
    \/ \E h \in TmHart, t \in Timer, d \in Delay : TimerSet(h, t, d)
    \/ \E t \in Timer : TimerCancel(t) \/ TimerFree(t)
    \/ \E h \in TmHart, d \in Delay : TimedWait(h, d)
    \/ \E h \in TmHart : UserTimerIrq(h) \/ KernelTimerIrq(h) \/ Enter(h) \/ Leave(h)
    \/ WaitOver \/ IdlePass \/ TimeGoesOn

TimersSpec == TmInit /\ [][TmNext]_tmVars

-----------------------------------------------------------------------------
(* The queue has one entry for each armed timer, at its deadline, and none  *)
(* for the others, over any order of set, cancel, expiry, re-arm and free:  *)
(* no timer is forgotten and none fires after it was cancelled              *)
(* (arm, disarm, pop_expired).                                              *)
TmQueued ==
    tmQueue = {[id |-> t, left |-> tmTable[t].left] : t \in {u \in Timer : tmTable[u].armed}}

(* Whatever the shadow suppresses and the heartbeat overwrites, every       *)
(* pending deadline has a timer interrupt of some hart at that deadline or  *)
(* within one tick from now (arm_wakeup, ADR-0052).                         *)
TmCovered ==
    \A d \in {e.left : e \in tmQueue} \cup ({tmWait} \ {NoWait}) :
        \E h \in TmHart : tmCmp[h] <= Max({d, TickLen})

(* A timer whose deadline elapsed fires, unless it is cancelled, and a      *)
(* timed wait returns.                                                      *)
TmFires ==
    /\ \A t \in Timer : (tmTable[t].armed /\ tmTable[t].left <= 0)
                          ~> (t \in tmFired \/ ~tmTable[t].armed)
    /\ (tmWait <= 0) ~> (tmWait > 0)
=============================================================================
