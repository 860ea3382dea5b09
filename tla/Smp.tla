-------------------------------- MODULE Smp --------------------------------
(***************************************************************************)
(* What harts tell each other without the kernel lock: TLB shootdowns      *)
(* (smp/tlb.rs), reschedule requests and wake hints (smp/mod.rs,           *)
(* smp/runtime.rs), the software interrupt (trap/handler.rs), the idle     *)
(* loop (cpu_main.rs), and how harts wait for the lock (sync/spin_irq.rs). *)
(*                                                                         *)
(* Kernel code under the lock is one step, except for the calls modelled   *)
(* here, whose every access to shared atomics is one.  The 100 ms after    *)
(* which a shootdown panics are left out: it waits until all have          *)
(* acknowledged.                                                           *)
(***************************************************************************)
EXTENDS Naturals, FiniteSets, FiniteSetsExt

CONSTANTS
    SmHart, SmBoot,
    MaxEpoch         \* bound on shootdowns

VARIABLES
    smPc,        \* hart -> where it is
    smRet,       \* hart -> where the software interrupt found it
    smIpi,       \* hart -> sip.SSIP
    smResched,   \* hart -> RESCHED_PENDING
    smHint,      \* hart -> WAKE_HINT
    smTook,      \* hart -> outcome of handle_ssoft_resched
    smQueued,    \* hart -> its run queue is not empty
    smLock,      \* the hart that holds the kernel lock
    smTo,        \* hart -> the hart it is waking
    smEpoch,     \* TLB_EPOCH
    smMail,      \* hart -> requested, acked
    smSeen,      \* hart -> what poll_mailbox read
    smFlushed    \* history: hart -> TLB_EPOCH at its last full flush

smVars == <<smPc, smRet, smIpi, smResched, smHint, smTook, smQueued, smLock, smTo,
            smEpoch, smMail, smSeen, smFlushed>>

Free == 1 + Max(SmHart)     \* no hart holds the lock

(* CpuId: harts are numbered from zero. *)
ASSUME SmHarts == Max(SmHart) \in Nat /\ SmHart = 0..Max(SmHart)

SmInit ==
    /\ smPc = [h \in SmHart |-> "lock"] /\ smRet = [h \in SmHart |-> "lock"]
    /\ smIpi = [h \in SmHart |-> FALSE] /\ smResched = smIpi
    /\ smHint = smIpi /\ smTook = smIpi
    /\ smQueued = [h \in SmHart |-> TRUE]
    /\ smLock = Free /\ smTo = [h \in SmHart |-> h]
    /\ smEpoch = 0 /\ smMail = [h \in SmHart |-> [requested |-> 0, acked |-> 0]]
    /\ smSeen = [h \in SmHart |-> 0] /\ smFlushed = [h \in SmHart |-> 0]

Move(h, from, to) == smPc[h] = from /\ smPc' = [smPc EXCEPT ![h] = to]

-----------------------------------------------------------------------------
(* The kernel lock.  cpu_main ("lock") spins with interrupts open between   *)
(* attempts; a trap handler ("trap") was entered with interrupts off, and   *)
(* irq_restore leaves them off while it spins.                              *)

(* A system call, timer or device interrupt of a user task. *)
Trap(h) ==
    /\ Move(h, "user", "trap")
    /\ UNCHANGED <<smRet, smIpi, smResched, smHint, smTook, smQueued, smLock, smTo,
                   smEpoch, smMail, smSeen, smFlushed>>

(* The handler takes the lock; what it does there is chosen by the caller:  *)
(* return to the task, give up the hart, wake a task of hart t, or create   *)
(* an address space when no ASID is left.                                   *)
Serve(h) ==
    /\ smLock = Free
    /\ \E to \in {"user", "lock"} : Move(h, "trap", to)
    /\ UNCHANGED <<smRet, smIpi, smResched, smHint, smTook, smQueued, smLock, smTo,
                   smEpoch, smMail, smSeen, smFlushed>>

(* TaskTable::wake for another hart: enqueue_on_cpu, then request_resched,  *)
(* whose stores the target sees one by one, the hint before the interrupt.  *)
WakeRemote(h, t) ==
    /\ t # h /\ smLock = Free
    /\ Move(h, "trap", "pending")
    /\ smLock' = h /\ smTo' = [smTo EXCEPT ![h] = t]
    /\ smQueued' = [smQueued EXCEPT ![t] = TRUE]
    /\ UNCHANGED <<smRet, smIpi, smResched, smHint, smTook, smEpoch, smMail, smSeen, smFlushed>>

SetPending(h) ==
    /\ Move(h, "pending", "hint")
    /\ smResched' = [smResched EXCEPT ![smTo[h]] = TRUE]
    /\ UNCHANGED <<smRet, smIpi, smHint, smTook, smQueued, smLock, smTo, smEpoch, smMail,
                   smSeen, smFlushed>>

SetWakeHint_Fault(h) ==
    /\ Move(h, "hint", "ipi")
    /\ UNCHANGED <<smRet, smIpi, smResched, smHint, smTook, smQueued, smLock, smTo, smEpoch,
                   smMail, smSeen, smFlushed>>
SetWakeHint(h) ==
    /\ Move(h, "hint", "ipi")
    /\ smHint' = [smHint EXCEPT ![smTo[h]] = TRUE]
    /\ UNCHANGED <<smRet, smIpi, smResched, smTook, smQueued, smLock, smTo, smEpoch, smMail,
                   smSeen, smFlushed>>

SendIpi(h) ==
    /\ Move(h, "ipi", "user")
    /\ smIpi' = [smIpi EXCEPT ![smTo[h]] = TRUE]
    /\ smLock' = Free /\ smTo' = [smTo EXCEPT ![h] = h]
    /\ UNCHANGED <<smRet, smResched, smHint, smTook, smQueued, smEpoch, smMail, smSeen,
                   smFlushed>>

-----------------------------------------------------------------------------
(* shootdown_all, called by AsidAllocator::allocate with the lock held      *)

Others(h) == SmHart \ {h}

FlushSelf(h) ==
    /\ smLock = Free /\ smEpoch < MaxEpoch
    /\ Move(h, "trap", "request")
    /\ smLock' = h
    /\ smEpoch' = smEpoch + 1
    /\ smFlushed' = [smFlushed EXCEPT ![h] = smEpoch + 1]
    /\ UNCHANGED <<smRet, smIpi, smResched, smHint, smTook, smQueued, smTo, smMail, smSeen>>

(* requested.fetch_max for every other hart, then one send_ipi for all. *)
Request(h) ==
    /\ Move(h, "request", "interrupt")
    /\ smMail' = [t \in SmHart |-> IF t = h THEN smMail[t]
                  ELSE [smMail[t] EXCEPT !.requested = Max({@, smEpoch})]]
    /\ UNCHANGED <<smRet, smIpi, smResched, smHint, smTook, smQueued, smLock, smTo, smEpoch,
                   smSeen, smFlushed>>

Interrupt(h) ==
    /\ Move(h, "interrupt", "acks")
    /\ smIpi' = [t \in SmHart |-> smIpi[t] \/ t # h]
    /\ UNCHANGED <<smRet, smResched, smHint, smTook, smQueued, smLock, smTo, smEpoch, smMail,
                   smSeen, smFlushed>>

AllAcked_Fault(h) == \A t \in Others(h) : smMail[t].acked + 1 >= smEpoch
AllAcked(h) == \A t \in Others(h) : smMail[t].acked >= smEpoch

Acknowledged(h) ==
    /\ AllAcked(h)
    /\ Move(h, "acks", "user")
    /\ smLock' = Free
    /\ UNCHANGED <<smRet, smIpi, smResched, smHint, smTook, smQueued, smTo, smEpoch, smMail,
                   smSeen, smFlushed>>

-----------------------------------------------------------------------------
(* The software interrupt: poll_mailbox, handle_ssoft_resched, clear_ssoft, *)
(* in this order; a user task that was asked to reschedule is preempted     *)
(* under the lock.                                                          *)

Interruptible == {"user", "lock", "idle"}

SoftIrq(h) ==
    /\ smPc[h] \in Interruptible /\ smIpi[h]
    /\ smRet' = [smRet EXCEPT ![h] = smPc[h]]
    /\ smSeen' = [smSeen EXCEPT ![h] = smMail[h].requested]
    /\ smPc' = [smPc EXCEPT ![h] = IF smMail[h].acked >= smMail[h].requested THEN "resched" ELSE "flush"]
    /\ UNCHANGED <<smIpi, smResched, smHint, smTook, smQueued, smLock, smTo, smEpoch, smMail,
                   smFlushed>>

LocalFlush(h) ==
    /\ Move(h, "flush", "ack")
    /\ smFlushed' = [smFlushed EXCEPT ![h] = smEpoch]
    /\ UNCHANGED <<smRet, smIpi, smResched, smHint, smTook, smQueued, smLock, smTo, smEpoch,
                   smMail, smSeen>>

Ack(h) ==
    /\ Move(h, "ack", "resched")
    /\ smMail' = [smMail EXCEPT ![h].acked = smSeen[h]]
    /\ UNCHANGED <<smRet, smIpi, smResched, smHint, smTook, smQueued, smLock, smTo, smEpoch,
                   smSeen, smFlushed>>

TakeResched(h) ==
    /\ Move(h, "resched", "clear")
    /\ smTook' = [smTook EXCEPT ![h] = smResched[h]]
    /\ smResched' = [smResched EXCEPT ![h] = FALSE]
    /\ UNCHANGED <<smRet, smIpi, smHint, smQueued, smLock, smTo, smEpoch, smMail, smSeen,
                   smFlushed>>

ClearSsoft(h) ==
    /\ Move(h, "clear", IF smRet[h] = "user" /\ smTook[h] THEN "trap" ELSE smRet[h])
    /\ smIpi' = [smIpi EXCEPT ![h] = FALSE]
    /\ smRet' = [smRet EXCEPT ![h] = "lock"] /\ smTook' = [smTook EXCEPT ![h] = FALSE]
    /\ smSeen' = [smSeen EXCEPT ![h] = 0]
    /\ UNCHANGED <<smResched, smHint, smQueued, smLock, smTo, smEpoch, smMail, smFlushed>>

-----------------------------------------------------------------------------
(* cpu_main: pick a task under the lock, or go idle.  The boot hart spins;  *)
(* the others mask interrupts, look for a hint and sleep until an interrupt *)
(* is pending, the timer's included.                                        *)

Pick(h) ==
    /\ smLock = Free
    /\ IF smQueued[h] THEN Move(h, "lock", "user") ELSE Move(h, "lock", "idle")
    /\ smQueued' = [smQueued EXCEPT ![h] = FALSE]
    /\ UNCHANGED <<smRet, smIpi, smResched, smHint, smTook, smLock, smTo, smEpoch, smMail,
                   smSeen, smFlushed>>

MaskIdle(h) ==
    /\ Move(h, "idle", IF h = SmBoot THEN "lock" ELSE "masked")
    /\ UNCHANGED <<smRet, smIpi, smResched, smHint, smTook, smQueued, smLock, smTo, smEpoch,
                   smMail, smSeen, smFlushed>>

TakeWakeHint(h) ==
    /\ Move(h, "masked", IF smHint[h] THEN "lock" ELSE "wfi")
    /\ smHint' = [smHint EXCEPT ![h] = FALSE]
    /\ UNCHANGED <<smRet, smIpi, smResched, smTook, smQueued, smLock, smTo, smEpoch, smMail,
                   smSeen, smFlushed>>

(* A pending software interrupt or a timer tick ends the sleep; set_sie. *)
Wakes(h) ==
    /\ Move(h, "wfi", "lock")
    /\ UNCHANGED <<smRet, smIpi, smResched, smHint, smTook, smQueued, smLock, smTo, smEpoch,
                   smMail, smSeen, smFlushed>>

HandlerStep(h) ==
    \/ LocalFlush(h) \/ Ack(h) \/ TakeResched(h) \/ ClearSsoft(h)
    \/ SetPending(h) \/ SetWakeHint(h) \/ SendIpi(h)
    \/ Request(h) \/ Interrupt(h) \/ Acknowledged(h)
    \/ MaskIdle(h) \/ TakeWakeHint(h) \/ Wakes(h) \/ SoftIrq(h)
LockStep(h) == Serve(h) \/ Pick(h)

SmNext ==
    \E h \in SmHart :
        \/ Trap(h) \/ HandlerStep(h) \/ LockStep(h) \/ FlushSelf(h)
        \/ \E t \in SmHart : WakeRemote(h, t)

SmpSpec == SmInit /\ [][SmNext]_smVars

-----------------------------------------------------------------------------
(* A hart acknowledges an epoch only after a full flush that began after    *)
(* the epoch did, so when shootdown_all returns every hart has flushed      *)
(* since the call and a quarantined ASID may be reused (poll_mailbox,       *)
(* shootdown_all).                                                          *)
SmAckMeansFlushed ==
    /\ \A h \in SmHart : smMail[h].acked <= smFlushed[h]
    /\ \A h \in SmHart : smPc[h] = "acks" /\ AllAcked(h) =>
         \A t \in SmHart : smFlushed[t] = smEpoch

(* A hart does not sleep on a task: while one of its tasks is queued, a     *)
(* sleeping hart has an interrupt pending, or the waker is about to send it *)
(* (request_resched, take_wake_hint).  Without this the task would wait for *)
(* the next timer tick.                                                     *)
SmSleepsSafely ==
    \A h \in SmHart : smPc[h] = "wfi" /\ smQueued[h] =>
        smIpi[h] \/ \E w \in SmHart : smPc[w] \in {"pending", "hint", "ipi"} /\ smTo[w] = h

(* A shootdown ends: every hart acknowledges, whatever it is doing          *)
(* (tlb.rs:18).                                                             *)
SmShootdownEnds ==
    \A h \in SmHart : (smPc[h] = "acks") ~> (smPc[h] # "acks")
=============================================================================
