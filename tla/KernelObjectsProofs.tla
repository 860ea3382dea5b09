------------------------- MODULE KernelObjectsProofs -------------------------
(***************************************************************************)
(* Safety of the harts' messages (Smp), of the way of a device interrupt   *)
(* (DeviceIrq), of the timer queue (KernelTimers) and of the arena of user *)
(* memory (Vmo), for any number of harts, devices, timers, tasks, pages    *)
(* and entries of the free lists.                                          *)
(***************************************************************************)
EXTENDS Smp, DeviceIrq, KernelTimers, Vmo, SeqOpsProofs, FiniteSetTheorems, TLAPS

-----------------------------------------------------------------------------
(* Smp                                                                      *)

HandlerPc == {"flush", "ack", "resched", "clear"}
WakerPc   == {"pending", "hint", "ipi"}
FlusherPc == {"request", "interrupt", "acks"}
SmPc == Interruptible \cup HandlerPc \cup WakerPc \cup FlusherPc \cup {"trap", "masked", "wfi"}

SmTypeOK ==
    /\ smPc \in [SmHart -> SmPc] /\ smRet \in [SmHart -> Interruptible]
    /\ smIpi \in [SmHart -> BOOLEAN] /\ smResched \in [SmHart -> BOOLEAN]
    /\ smHint \in [SmHart -> BOOLEAN] /\ smTook \in [SmHart -> BOOLEAN]
    /\ smQueued \in [SmHart -> BOOLEAN]
    /\ smLock \in SmHart \cup {Free} /\ smTo \in [SmHart -> SmHart]
    /\ smEpoch \in Nat /\ smMail \in [SmHart -> [requested : Nat, acked : Nat]]
    /\ smSeen \in [SmHart -> Nat] /\ smFlushed \in [SmHart -> Nat]

(* A hart in the middle of waking or of a shootdown holds the kernel lock. *)
SmLockHeld == \A h \in SmHart : smPc[h] \in WakerPc \cup FlusherPc => smLock = h

(* No request, flush or acknowledgement is ahead of the epoch; what the      *)
(* mailbox poll read is flushed before it is acknowledged.                   *)
EpochsOf(h) ==
    /\ smMail[h].requested <= smEpoch /\ smFlushed[h] <= smEpoch
    /\ smSeen[h] <= smEpoch
    /\ smMail[h].acked <= smFlushed[h]
    /\ smPc[h] = "ack" => smSeen[h] <= smFlushed[h]
    /\ smPc[h] \in FlusherPc => smFlushed[h] = smEpoch
SmEpochs == \A h \in SmHart : EpochsOf(h)

(* A hart on its way to sleep, also inside an interrupt taken there.         *)
Dozing(h) == smPc[h] \in {"idle", "masked"} \/ (smPc[h] \in HandlerPc /\ smRet[h] = "idle")

(* It will find the hint for a task that was queued, or the waker has not    *)
(* set it yet.                                                               *)
SmHinted ==
    \A h \in SmHart : Dozing(h) /\ smQueued[h] =>
        smHint[h] \/ \E w \in SmHart : smPc[w] \in {"pending", "hint"} /\ smTo[w] = h

SmInv == SmTypeOK /\ SmLockHeld /\ SmEpochs /\ SmHinted /\ SmSleepsSafely

\* The value for a free lock is no hart.
LEMMA FreeIsNoHart == Free \notin SmHart
BY SmHarts DEF Free

\* The larger of two integers.
LEMMA MaxOfTwo ==
    ASSUME NEW a \in Int, NEW b \in Int
    PROVE  Max({a, b}) = IF a >= b THEN a ELSE b
BY DEF Max

\* The smaller of two integers.
LEMMA MinOfTwo ==
    ASSUME NEW a \in Int, NEW b \in Int
    PROVE  Min({a, b}) = IF a <= b THEN a ELSE b
BY DEF Min

\* Every step keeps the types.
LEMMA SmTypeStep == SmTypeOK /\ [SmNext]_smVars => SmTypeOK'
<1> SUFFICES ASSUME SmTypeOK, [SmNext]_smVars PROVE SmTypeOK' OBVIOUS
<1> USE SmHarts, FreeIsNoHart DEF SmTypeOK, SmPc, Interruptible, HandlerPc, WakerPc, FlusherPc
<1>1. ASSUME NEW h \in SmHart, Trap(h) PROVE SmTypeOK'
  BY <1>1 DEF Trap, Move
<1>2. ASSUME NEW h \in SmHart, LocalFlush(h) PROVE SmTypeOK'
  BY <1>2 DEF LocalFlush, Move
<1>3. ASSUME NEW h \in SmHart, Ack(h) PROVE SmTypeOK'
  BY <1>3 DEF Ack, Move
<1>4. ASSUME NEW h \in SmHart, TakeResched(h) PROVE SmTypeOK'
  BY <1>4 DEF TakeResched, Move
<1>5. ASSUME NEW h \in SmHart, ClearSsoft(h) PROVE SmTypeOK'
  BY <1>5 DEF ClearSsoft, Move
<1>6. ASSUME NEW h \in SmHart, SetPending(h) PROVE SmTypeOK'
  BY <1>6 DEF SetPending, Move
<1>7. ASSUME NEW h \in SmHart, SetWakeHint(h) PROVE SmTypeOK'
  BY <1>7 DEF SetWakeHint, Move
<1>8. ASSUME NEW h \in SmHart, SendIpi(h) PROVE SmTypeOK'
  BY <1>8 DEF SendIpi, Move
<1>9. ASSUME NEW h \in SmHart, Request(h) PROVE SmTypeOK'
  <2>1. smMail' \in [SmHart -> [requested : Nat, acked : Nat]]
    <3>1. ASSUME NEW t \in SmHart PROVE Max({smMail[t].requested, smEpoch}) \in Nat
      <4>1. smMail[t].requested \in Nat /\ smEpoch \in Nat OBVIOUS
      <4>2. smMail[t].requested \in Int /\ smEpoch \in Int BY <4>1
      <4>3. QED BY <4>1, <4>2, MaxOfTwo
    <3>2. QED BY <1>9, <3>1 DEF Request
  <2>2. QED BY <1>9, <2>1 DEF Request, Move
<1>10. ASSUME NEW h \in SmHart, Interrupt(h) PROVE SmTypeOK'
  BY <1>10 DEF Interrupt, Move
<1>11. ASSUME NEW h \in SmHart, Acknowledged(h) PROVE SmTypeOK'
  BY <1>11 DEF Acknowledged, Move
<1>12. ASSUME NEW h \in SmHart, MaskIdle(h) PROVE SmTypeOK'
  BY <1>12 DEF MaskIdle, Move
<1>13. ASSUME NEW h \in SmHart, TakeWakeHint(h) PROVE SmTypeOK'
  BY <1>13 DEF TakeWakeHint, Move
<1>14. ASSUME NEW h \in SmHart, Wakes(h) PROVE SmTypeOK'
  BY <1>14 DEF Wakes, Move
<1>15. ASSUME NEW h \in SmHart, SoftIrq(h) PROVE SmTypeOK'
  BY <1>15 DEF SoftIrq, Move
<1>16. ASSUME NEW h \in SmHart, Serve(h) PROVE SmTypeOK'
  BY <1>16 DEF Serve, Move
<1>17. ASSUME NEW h \in SmHart, Pick(h) PROVE SmTypeOK'
  BY <1>17 DEF Pick, Move
<1>18. ASSUME NEW h \in SmHart, FlushSelf(h) PROVE SmTypeOK'
  BY <1>18 DEF FlushSelf, Move
<1>19. ASSUME NEW h \in SmHart, NEW t \in SmHart, WakeRemote(h, t) PROVE SmTypeOK'
  BY <1>19 DEF WakeRemote, Move
<1>20. CASE UNCHANGED smVars BY <1>20 DEF smVars
<1> QED BY <1>1, <1>2, <1>3, <1>4, <1>5, <1>6, <1>7, <1>8, <1>9, <1>10, <1>11, <1>12, <1>13, <1>14, <1>15, <1>16, <1>17, <1>18, <1>19, <1>20 DEF SmNext, HandlerStep, LockStep

\* Every step keeps: who wakes or shoots down holds the lock.
LEMMA SmLockStep == SmTypeOK /\ SmLockHeld /\ [SmNext]_smVars => SmLockHeld'
<1> SUFFICES ASSUME SmTypeOK /\ SmLockHeld, [SmNext]_smVars PROVE SmLockHeld' OBVIOUS
<1> USE SmHarts, FreeIsNoHart DEF SmTypeOK, SmLockHeld, SmPc, Interruptible, HandlerPc, WakerPc, FlusherPc
<1>1. ASSUME NEW h \in SmHart, Trap(h) PROVE SmLockHeld'
  BY <1>1 DEF Trap, Move
<1>2. ASSUME NEW h \in SmHart, LocalFlush(h) PROVE SmLockHeld'
  BY <1>2 DEF LocalFlush, Move
<1>3. ASSUME NEW h \in SmHart, Ack(h) PROVE SmLockHeld'
  BY <1>3 DEF Ack, Move
<1>4. ASSUME NEW h \in SmHart, TakeResched(h) PROVE SmLockHeld'
  BY <1>4 DEF TakeResched, Move
<1>5. ASSUME NEW h \in SmHart, ClearSsoft(h) PROVE SmLockHeld'
  BY <1>5 DEF ClearSsoft, Move
<1>6. ASSUME NEW h \in SmHart, SetPending(h) PROVE SmLockHeld'
  BY <1>6 DEF SetPending, Move
<1>7. ASSUME NEW h \in SmHart, SetWakeHint(h) PROVE SmLockHeld'
  BY <1>7 DEF SetWakeHint, Move
<1>8. ASSUME NEW h \in SmHart, SendIpi(h) PROVE SmLockHeld'
  BY <1>8 DEF SendIpi, Move
<1>9. ASSUME NEW h \in SmHart, Request(h) PROVE SmLockHeld'
  BY <1>9 DEF Request, Move
<1>10. ASSUME NEW h \in SmHart, Interrupt(h) PROVE SmLockHeld'
  BY <1>10 DEF Interrupt, Move
<1>11. ASSUME NEW h \in SmHart, Acknowledged(h) PROVE SmLockHeld'
  BY <1>11 DEF Acknowledged, Move
<1>12. ASSUME NEW h \in SmHart, MaskIdle(h) PROVE SmLockHeld'
  BY <1>12 DEF MaskIdle, Move
<1>13. ASSUME NEW h \in SmHart, TakeWakeHint(h) PROVE SmLockHeld'
  BY <1>13 DEF TakeWakeHint, Move
<1>14. ASSUME NEW h \in SmHart, Wakes(h) PROVE SmLockHeld'
  BY <1>14 DEF Wakes, Move
<1>15. ASSUME NEW h \in SmHart, SoftIrq(h) PROVE SmLockHeld'
  BY <1>15 DEF SoftIrq, Move
<1>16. ASSUME NEW h \in SmHart, Serve(h) PROVE SmLockHeld'
  BY <1>16 DEF Serve, Move
<1>17. ASSUME NEW h \in SmHart, Pick(h) PROVE SmLockHeld'
  BY <1>17 DEF Pick, Move
<1>18. ASSUME NEW h \in SmHart, FlushSelf(h) PROVE SmLockHeld'
  BY <1>18 DEF FlushSelf, Move
<1>19. ASSUME NEW h \in SmHart, NEW t \in SmHart, WakeRemote(h, t) PROVE SmLockHeld'
  BY <1>19 DEF WakeRemote, Move
<1>20. CASE UNCHANGED smVars BY <1>20 DEF smVars
<1> QED BY <1>1, <1>2, <1>3, <1>4, <1>5, <1>6, <1>7, <1>8, <1>9, <1>10, <1>11, <1>12, <1>13, <1>14, <1>15, <1>16, <1>17, <1>18, <1>19, <1>20 DEF SmNext, HandlerStep, LockStep

\* Every step keeps the order of requests, flushes and acknowledgements.
LEMMA SmEpochsStep == SmTypeOK /\ SmLockHeld /\ SmEpochs /\ [SmNext]_smVars => SmEpochs'
<1> SUFFICES ASSUME SmTypeOK /\ SmLockHeld /\ SmEpochs, [SmNext]_smVars, NEW q \in SmHart, TRUE
             PROVE  EpochsOf(q)'
  BY DEF SmEpochs
<1> USE SmHarts, FreeIsNoHart DEF SmTypeOK, SmLockHeld, SmEpochs, EpochsOf, SmPc, Interruptible, HandlerPc, WakerPc, FlusherPc
<1>1. ASSUME NEW h \in SmHart, Trap(h) PROVE EpochsOf(q)'
  BY <1>1, SMTT(30) DEF Trap, Move
<1>2. ASSUME NEW h \in SmHart, LocalFlush(h) PROVE EpochsOf(q)'
  BY <1>2, SMTT(30) DEF LocalFlush, Move
<1>3. ASSUME NEW h \in SmHart, Ack(h) PROVE EpochsOf(q)'
  BY <1>3, SMTT(30) DEF Ack, Move
<1>4. ASSUME NEW h \in SmHart, TakeResched(h) PROVE EpochsOf(q)'
  BY <1>4, SMTT(30) DEF TakeResched, Move
<1>5. ASSUME NEW h \in SmHart, ClearSsoft(h) PROVE EpochsOf(q)'
  <2>1. smPc'[h] \in Interruptible \cup {"trap"} BY <1>5 DEF ClearSsoft, Move
  <2>2. q # h => smPc'[q] = smPc[q] BY <1>5 DEF ClearSsoft, Move
  <2>3. smSeen'[q] <= smEpoch BY <1>5 DEF ClearSsoft
  <2>4. smSeen'[q] = smSeen[q] \/ q = h BY <1>5 DEF ClearSsoft
  <2>5. QED BY <1>5, <2>1, <2>2, <2>3, <2>4 DEF ClearSsoft
<1>6. ASSUME NEW h \in SmHart, SetPending(h) PROVE EpochsOf(q)'
  BY <1>6, SMTT(30) DEF SetPending, Move
<1>7. ASSUME NEW h \in SmHart, SetWakeHint(h) PROVE EpochsOf(q)'
  BY <1>7, SMTT(30) DEF SetWakeHint, Move
<1>8. ASSUME NEW h \in SmHart, SendIpi(h) PROVE EpochsOf(q)'
  BY <1>8, SMTT(30) DEF SendIpi, Move
<1>9. ASSUME NEW h \in SmHart, Request(h) PROVE EpochsOf(q)'
  <2>1. smMail'[q].requested <= smEpoch /\ smMail'[q].acked = smMail[q].acked
    <3>1. Max({smMail[q].requested, smEpoch}) = smEpoch BY MaxOfTwo
    <3>2. QED BY <1>9, <3>1 DEF Request
  <2>2. QED BY <1>9, <2>1 DEF Request, Move
<1>10. ASSUME NEW h \in SmHart, Interrupt(h) PROVE EpochsOf(q)'
  BY <1>10, SMTT(30) DEF Interrupt, Move
<1>11. ASSUME NEW h \in SmHart, Acknowledged(h) PROVE EpochsOf(q)'
  BY <1>11, SMTT(30) DEF Acknowledged, Move
<1>12. ASSUME NEW h \in SmHart, MaskIdle(h) PROVE EpochsOf(q)'
  BY <1>12, SMTT(30) DEF MaskIdle, Move
<1>13. ASSUME NEW h \in SmHart, TakeWakeHint(h) PROVE EpochsOf(q)'
  BY <1>13, SMTT(30) DEF TakeWakeHint, Move
<1>14. ASSUME NEW h \in SmHart, Wakes(h) PROVE EpochsOf(q)'
  BY <1>14, SMTT(30) DEF Wakes, Move
<1>15. ASSUME NEW h \in SmHart, SoftIrq(h) PROVE EpochsOf(q)'
  BY <1>15, SMTT(30) DEF SoftIrq, Move
<1>16. ASSUME NEW h \in SmHart, Serve(h) PROVE EpochsOf(q)'
  BY <1>16, SMTT(30) DEF Serve, Move
<1>17. ASSUME NEW h \in SmHart, Pick(h) PROVE EpochsOf(q)'
  BY <1>17, SMTT(30) DEF Pick, Move
<1>18. ASSUME NEW h \in SmHart, FlushSelf(h) PROVE EpochsOf(q)'
  BY <1>18, SMTT(30) DEF FlushSelf, Move
<1>19. ASSUME NEW h \in SmHart, NEW t \in SmHart, WakeRemote(h, t) PROVE EpochsOf(q)'
  BY <1>19, SMTT(30) DEF WakeRemote, Move
<1>20. CASE UNCHANGED smVars BY <1>20 DEF smVars
<1> QED BY <1>1, <1>2, <1>3, <1>4, <1>5, <1>6, <1>7, <1>8, <1>9, <1>10, <1>11, <1>12, <1>13, <1>14, <1>15, <1>16, <1>17, <1>18, <1>19, <1>20 DEF SmNext, HandlerStep, LockStep

\* Every step keeps: a dozing hart finds the hint for a queued task, or will.
LEMMA SmHintedStep == SmTypeOK /\ SmLockHeld /\ SmHinted /\ [SmNext]_smVars => SmHinted'
<1> SUFFICES ASSUME SmTypeOK /\ SmLockHeld /\ SmHinted, [SmNext]_smVars, NEW q \in SmHart, Dozing(q)', smQueued'[q], ~ smHint'[q]
             PROVE  \E w \in SmHart : smPc'[w] \in {"pending", "hint"} /\ smTo'[w] = q
  BY DEF SmHinted
<1> USE SmHarts, FreeIsNoHart DEF SmTypeOK, SmLockHeld, SmHinted, Dozing, SmPc, Interruptible, HandlerPc, WakerPc, FlusherPc
<1>0. smPc \in [SmHart -> SmPc] /\ smTo \in [SmHart -> SmHart] OBVIOUS
<1>1. ASSUME NEW h \in SmHart, Trap(h) PROVE \E w \in SmHart : smPc'[w] \in {"pending", "hint"} /\ smTo'[w] = q
  <2>1. Dozing(q) /\ smQueued[q] /\ ~ smHint[q] BY <1>1 DEF Trap, Move
  <2>2. PICK w \in SmHart : smPc[w] \in {"pending", "hint"} /\ smTo[w] = q BY <2>1
  <2>3. smPc'[w] = smPc[w] /\ smTo'[w] = smTo[w]
    <3> HIDE DEF SmTypeOK, SmLockHeld, SmHinted, SmSleepsSafely, Dozing
    <3> QED BY <1>0, <1>1, <2>2 DEF Trap, Move
  <2>4. QED BY <2>2, <2>3
<1>2. ASSUME NEW h \in SmHart, LocalFlush(h) PROVE \E w \in SmHart : smPc'[w] \in {"pending", "hint"} /\ smTo'[w] = q
  <2>1. Dozing(q) /\ smQueued[q] /\ ~ smHint[q] BY <1>2 DEF LocalFlush, Move
  <2>2. PICK w \in SmHart : smPc[w] \in {"pending", "hint"} /\ smTo[w] = q BY <2>1
  <2>3. smPc'[w] = smPc[w] /\ smTo'[w] = smTo[w]
    <3> HIDE DEF SmTypeOK, SmLockHeld, SmHinted, SmSleepsSafely, Dozing
    <3> QED BY <1>0, <1>2, <2>2 DEF LocalFlush, Move
  <2>4. QED BY <2>2, <2>3
<1>3. ASSUME NEW h \in SmHart, Ack(h) PROVE \E w \in SmHart : smPc'[w] \in {"pending", "hint"} /\ smTo'[w] = q
  <2>1. Dozing(q) /\ smQueued[q] /\ ~ smHint[q] BY <1>3 DEF Ack, Move
  <2>2. PICK w \in SmHart : smPc[w] \in {"pending", "hint"} /\ smTo[w] = q BY <2>1
  <2>3. smPc'[w] = smPc[w] /\ smTo'[w] = smTo[w]
    <3> HIDE DEF SmTypeOK, SmLockHeld, SmHinted, SmSleepsSafely, Dozing
    <3> QED BY <1>0, <1>3, <2>2 DEF Ack, Move
  <2>4. QED BY <2>2, <2>3
<1>4. ASSUME NEW h \in SmHart, TakeResched(h) PROVE \E w \in SmHart : smPc'[w] \in {"pending", "hint"} /\ smTo'[w] = q
  <2>1. Dozing(q) /\ smQueued[q] /\ ~ smHint[q] BY <1>4 DEF TakeResched, Move
  <2>2. PICK w \in SmHart : smPc[w] \in {"pending", "hint"} /\ smTo[w] = q BY <2>1
  <2>3. smPc'[w] = smPc[w] /\ smTo'[w] = smTo[w]
    <3> HIDE DEF SmTypeOK, SmLockHeld, SmHinted, SmSleepsSafely, Dozing
    <3> QED BY <1>0, <1>4, <2>2 DEF TakeResched, Move
  <2>4. QED BY <2>2, <2>3
<1>5. ASSUME NEW h \in SmHart, ClearSsoft(h) PROVE \E w \in SmHart : smPc'[w] \in {"pending", "hint"} /\ smTo'[w] = q
  <2>1. Dozing(q)
    <3>1. CASE q = h
      <4>1. smPc[q] = "clear" /\ smPc'[q] \in {"trap", smRet[q]} BY <1>5, <3>1 DEF ClearSsoft, Move
      <4>2. smPc'[q] = "idle" BY <4>1
      <4>3. QED BY <4>1, <4>2
    <3>2. CASE q # h BY <1>5, <3>2 DEF ClearSsoft, Move
    <3>3. QED BY <3>1, <3>2
  <2>2. PICK w \in SmHart : smPc[w] \in {"pending", "hint"} /\ smTo[w] = q
    BY <1>5, <2>1 DEF ClearSsoft
  <2>3. smPc'[w] = smPc[w] /\ smTo'[w] = smTo[w]
    <3> HIDE DEF SmTypeOK, SmLockHeld, SmHinted, SmSleepsSafely, Dozing
    <3> QED BY <1>0, <1>5, <2>2 DEF ClearSsoft, Move
  <2>4. QED BY <2>2, <2>3
<1>6. ASSUME NEW h \in SmHart, SetPending(h) PROVE \E w \in SmHart : smPc'[w] \in {"pending", "hint"} /\ smTo'[w] = q
  BY <1>6, SMTT(30) DEF SetPending, Move
<1>7. ASSUME NEW h \in SmHart, SetWakeHint(h) PROVE \E w \in SmHart : smPc'[w] \in {"pending", "hint"} /\ smTo'[w] = q
  BY <1>7, SMTT(30) DEF SetWakeHint, Move
<1>8. ASSUME NEW h \in SmHart, SendIpi(h) PROVE \E w \in SmHart : smPc'[w] \in {"pending", "hint"} /\ smTo'[w] = q
  <2>1. Dozing(q) /\ smQueued[q] /\ ~ smHint[q] BY <1>8 DEF SendIpi, Move
  <2>2. PICK w \in SmHart : smPc[w] \in {"pending", "hint"} /\ smTo[w] = q BY <2>1
  <2>3. smPc'[w] = smPc[w] /\ smTo'[w] = smTo[w]
    <3> HIDE DEF SmTypeOK, SmLockHeld, SmHinted, SmSleepsSafely, Dozing
    <3> QED BY <1>0, <1>8, <2>2 DEF SendIpi, Move
  <2>4. QED BY <2>2, <2>3
<1>9. ASSUME NEW h \in SmHart, Request(h) PROVE \E w \in SmHart : smPc'[w] \in {"pending", "hint"} /\ smTo'[w] = q
  <2>1. Dozing(q) /\ smQueued[q] /\ ~ smHint[q] BY <1>9 DEF Request, Move
  <2>2. PICK w \in SmHart : smPc[w] \in {"pending", "hint"} /\ smTo[w] = q BY <2>1
  <2>3. smPc'[w] = smPc[w] /\ smTo'[w] = smTo[w]
    <3> HIDE DEF SmTypeOK, SmLockHeld, SmHinted, SmSleepsSafely, Dozing
    <3> QED BY <1>0, <1>9, <2>2 DEF Request, Move
  <2>4. QED BY <2>2, <2>3
<1>10. ASSUME NEW h \in SmHart, Interrupt(h) PROVE \E w \in SmHart : smPc'[w] \in {"pending", "hint"} /\ smTo'[w] = q
  <2>1. Dozing(q) /\ smQueued[q] /\ ~ smHint[q] BY <1>10 DEF Interrupt, Move
  <2>2. PICK w \in SmHart : smPc[w] \in {"pending", "hint"} /\ smTo[w] = q BY <2>1
  <2>3. smPc'[w] = smPc[w] /\ smTo'[w] = smTo[w]
    <3> HIDE DEF SmTypeOK, SmLockHeld, SmHinted, SmSleepsSafely, Dozing
    <3> QED BY <1>0, <1>10, <2>2 DEF Interrupt, Move
  <2>4. QED BY <2>2, <2>3
<1>11. ASSUME NEW h \in SmHart, Acknowledged(h) PROVE \E w \in SmHart : smPc'[w] \in {"pending", "hint"} /\ smTo'[w] = q
  <2>1. Dozing(q) /\ smQueued[q] /\ ~ smHint[q] BY <1>11 DEF Acknowledged, Move
  <2>2. PICK w \in SmHart : smPc[w] \in {"pending", "hint"} /\ smTo[w] = q BY <2>1
  <2>3. smPc'[w] = smPc[w] /\ smTo'[w] = smTo[w]
    <3> HIDE DEF SmTypeOK, SmLockHeld, SmHinted, SmSleepsSafely, Dozing
    <3> QED BY <1>0, <1>11, <2>2 DEF Acknowledged, Move
  <2>4. QED BY <2>2, <2>3
<1>12. ASSUME NEW h \in SmHart, MaskIdle(h) PROVE \E w \in SmHart : smPc'[w] \in {"pending", "hint"} /\ smTo'[w] = q
  <2>1. Dozing(q) /\ smQueued[q] /\ ~ smHint[q] BY <1>12 DEF MaskIdle, Move
  <2>2. PICK w \in SmHart : smPc[w] \in {"pending", "hint"} /\ smTo[w] = q BY <2>1
  <2>3. smPc'[w] = smPc[w] /\ smTo'[w] = smTo[w]
    <3> HIDE DEF SmTypeOK, SmLockHeld, SmHinted, SmSleepsSafely, Dozing
    <3> QED BY <1>0, <1>12, <2>2 DEF MaskIdle, Move
  <2>4. QED BY <2>2, <2>3
<1>13. ASSUME NEW h \in SmHart, TakeWakeHint(h) PROVE \E w \in SmHart : smPc'[w] \in {"pending", "hint"} /\ smTo'[w] = q
  <2>1. Dozing(q) /\ smQueued[q] /\ ~ smHint[q] BY <1>13 DEF TakeWakeHint, Move
  <2>2. PICK w \in SmHart : smPc[w] \in {"pending", "hint"} /\ smTo[w] = q BY <2>1
  <2>3. smPc'[w] = smPc[w] /\ smTo'[w] = smTo[w]
    <3> HIDE DEF SmTypeOK, SmLockHeld, SmHinted, SmSleepsSafely, Dozing
    <3> QED BY <1>0, <1>13, <2>2 DEF TakeWakeHint, Move
  <2>4. QED BY <2>2, <2>3
<1>14. ASSUME NEW h \in SmHart, Wakes(h) PROVE \E w \in SmHart : smPc'[w] \in {"pending", "hint"} /\ smTo'[w] = q
  <2>1. Dozing(q) /\ smQueued[q] /\ ~ smHint[q] BY <1>14 DEF Wakes, Move
  <2>2. PICK w \in SmHart : smPc[w] \in {"pending", "hint"} /\ smTo[w] = q BY <2>1
  <2>3. smPc'[w] = smPc[w] /\ smTo'[w] = smTo[w]
    <3> HIDE DEF SmTypeOK, SmLockHeld, SmHinted, SmSleepsSafely, Dozing
    <3> QED BY <1>0, <1>14, <2>2 DEF Wakes, Move
  <2>4. QED BY <2>2, <2>3
<1>15. ASSUME NEW h \in SmHart, SoftIrq(h) PROVE \E w \in SmHart : smPc'[w] \in {"pending", "hint"} /\ smTo'[w] = q
  <2>1. Dozing(q) /\ smQueued[q] /\ ~ smHint[q] BY <1>15 DEF SoftIrq, Move
  <2>2. PICK w \in SmHart : smPc[w] \in {"pending", "hint"} /\ smTo[w] = q BY <2>1
  <2>3. smPc'[w] = smPc[w] /\ smTo'[w] = smTo[w]
    <3> HIDE DEF SmTypeOK, SmLockHeld, SmHinted, SmSleepsSafely, Dozing
    <3> QED BY <1>0, <1>15, <2>2 DEF SoftIrq, Move
  <2>4. QED BY <2>2, <2>3
<1>16. ASSUME NEW h \in SmHart, Serve(h) PROVE \E w \in SmHart : smPc'[w] \in {"pending", "hint"} /\ smTo'[w] = q
  <2>1. Dozing(q) /\ smQueued[q] /\ ~ smHint[q] BY <1>16 DEF Serve, Move
  <2>2. PICK w \in SmHart : smPc[w] \in {"pending", "hint"} /\ smTo[w] = q BY <2>1
  <2>3. smPc'[w] = smPc[w] /\ smTo'[w] = smTo[w]
    <3> HIDE DEF SmTypeOK, SmLockHeld, SmHinted, SmSleepsSafely, Dozing
    <3> QED BY <1>0, <1>16, <2>2 DEF Serve, Move
  <2>4. QED BY <2>2, <2>3
<1>17. ASSUME NEW h \in SmHart, Pick(h) PROVE \E w \in SmHart : smPc'[w] \in {"pending", "hint"} /\ smTo'[w] = q
  BY <1>17, SMTT(30) DEF Pick, Move
<1>18. ASSUME NEW h \in SmHart, FlushSelf(h) PROVE \E w \in SmHart : smPc'[w] \in {"pending", "hint"} /\ smTo'[w] = q
  BY <1>18, SMTT(30) DEF FlushSelf, Move
<1>19. ASSUME NEW h \in SmHart, NEW t \in SmHart, WakeRemote(h, t) PROVE \E w \in SmHart : smPc'[w] \in {"pending", "hint"} /\ smTo'[w] = q
  BY <1>19, SMTT(30) DEF WakeRemote, Move
<1>20. CASE UNCHANGED smVars BY <1>20 DEF smVars
<1> QED BY <1>1, <1>2, <1>3, <1>4, <1>5, <1>6, <1>7, <1>8, <1>9, <1>10, <1>11, <1>12, <1>13, <1>14, <1>15, <1>16, <1>17, <1>18, <1>19, <1>20 DEF SmNext, HandlerStep, LockStep

\* Every step keeps: a sleeping hart with a queued task is being interrupted.
LEMMA SmSleepStep == SmTypeOK /\ SmLockHeld /\ SmHinted /\ SmSleepsSafely /\ [SmNext]_smVars => SmSleepsSafely'
<1> SUFFICES ASSUME SmTypeOK /\ SmLockHeld /\ SmHinted /\ SmSleepsSafely, [SmNext]_smVars, NEW q \in SmHart, smPc'[q] = "wfi", smQueued'[q], ~ smIpi'[q]
             PROVE  \E w \in SmHart : smPc'[w] \in {"pending", "hint", "ipi"} /\ smTo'[w] = q
  BY DEF SmSleepsSafely
<1> USE SmHarts, FreeIsNoHart DEF SmTypeOK, SmLockHeld, SmHinted, SmSleepsSafely, Dozing, SmPc, Interruptible, HandlerPc, WakerPc, FlusherPc
<1>0. smPc \in [SmHart -> SmPc] /\ smTo \in [SmHart -> SmHart] OBVIOUS
<1>1. ASSUME NEW h \in SmHart, Trap(h) PROVE \E w \in SmHart : smPc'[w] \in {"pending", "hint", "ipi"} /\ smTo'[w] = q
  <2>1. smPc[q] = "wfi" /\ smQueued[q] /\ ~ smIpi[q] BY <1>1 DEF Trap, Move
  <2>2. PICK w \in SmHart : smPc[w] \in {"pending", "hint", "ipi"} /\ smTo[w] = q BY <2>1
  <2>3. smPc'[w] = smPc[w] /\ smTo'[w] = smTo[w]
    <3> HIDE DEF SmTypeOK, SmLockHeld, SmHinted, SmSleepsSafely, Dozing
    <3> QED BY <1>0, <1>1, <2>2 DEF Trap, Move
  <2>4. QED BY <2>2, <2>3
<1>2. ASSUME NEW h \in SmHart, LocalFlush(h) PROVE \E w \in SmHart : smPc'[w] \in {"pending", "hint", "ipi"} /\ smTo'[w] = q
  <2>1. smPc[q] = "wfi" /\ smQueued[q] /\ ~ smIpi[q] BY <1>2 DEF LocalFlush, Move
  <2>2. PICK w \in SmHart : smPc[w] \in {"pending", "hint", "ipi"} /\ smTo[w] = q BY <2>1
  <2>3. smPc'[w] = smPc[w] /\ smTo'[w] = smTo[w]
    <3> HIDE DEF SmTypeOK, SmLockHeld, SmHinted, SmSleepsSafely, Dozing
    <3> QED BY <1>0, <1>2, <2>2 DEF LocalFlush, Move
  <2>4. QED BY <2>2, <2>3
<1>3. ASSUME NEW h \in SmHart, Ack(h) PROVE \E w \in SmHart : smPc'[w] \in {"pending", "hint", "ipi"} /\ smTo'[w] = q
  <2>1. smPc[q] = "wfi" /\ smQueued[q] /\ ~ smIpi[q] BY <1>3 DEF Ack, Move
  <2>2. PICK w \in SmHart : smPc[w] \in {"pending", "hint", "ipi"} /\ smTo[w] = q BY <2>1
  <2>3. smPc'[w] = smPc[w] /\ smTo'[w] = smTo[w]
    <3> HIDE DEF SmTypeOK, SmLockHeld, SmHinted, SmSleepsSafely, Dozing
    <3> QED BY <1>0, <1>3, <2>2 DEF Ack, Move
  <2>4. QED BY <2>2, <2>3
<1>4. ASSUME NEW h \in SmHart, TakeResched(h) PROVE \E w \in SmHart : smPc'[w] \in {"pending", "hint", "ipi"} /\ smTo'[w] = q
  <2>1. smPc[q] = "wfi" /\ smQueued[q] /\ ~ smIpi[q] BY <1>4 DEF TakeResched, Move
  <2>2. PICK w \in SmHart : smPc[w] \in {"pending", "hint", "ipi"} /\ smTo[w] = q BY <2>1
  <2>3. smPc'[w] = smPc[w] /\ smTo'[w] = smTo[w]
    <3> HIDE DEF SmTypeOK, SmLockHeld, SmHinted, SmSleepsSafely, Dozing
    <3> QED BY <1>0, <1>4, <2>2 DEF TakeResched, Move
  <2>4. QED BY <2>2, <2>3
<1>5. ASSUME NEW h \in SmHart, ClearSsoft(h) PROVE \E w \in SmHart : smPc'[w] \in {"pending", "hint", "ipi"} /\ smTo'[w] = q
  <2>1. smPc[q] = "wfi" /\ smQueued[q] /\ ~ smIpi[q] BY <1>5 DEF ClearSsoft, Move
  <2>2. PICK w \in SmHart : smPc[w] \in {"pending", "hint", "ipi"} /\ smTo[w] = q BY <2>1
  <2>3. smPc'[w] = smPc[w] /\ smTo'[w] = smTo[w]
    <3> HIDE DEF SmTypeOK, SmLockHeld, SmHinted, SmSleepsSafely, Dozing
    <3> QED BY <1>0, <1>5, <2>2 DEF ClearSsoft, Move
  <2>4. QED BY <2>2, <2>3
<1>6. ASSUME NEW h \in SmHart, SetPending(h) PROVE \E w \in SmHart : smPc'[w] \in {"pending", "hint", "ipi"} /\ smTo'[w] = q
  BY <1>6, SMTT(30) DEF SetPending, Move
<1>7. ASSUME NEW h \in SmHart, SetWakeHint(h) PROVE \E w \in SmHart : smPc'[w] \in {"pending", "hint", "ipi"} /\ smTo'[w] = q
  BY <1>7, SMTT(30) DEF SetWakeHint, Move
<1>8. ASSUME NEW h \in SmHart, SendIpi(h) PROVE \E w \in SmHart : smPc'[w] \in {"pending", "hint", "ipi"} /\ smTo'[w] = q
  BY <1>8, SMTT(30) DEF SendIpi, Move
<1>9. ASSUME NEW h \in SmHart, Request(h) PROVE \E w \in SmHart : smPc'[w] \in {"pending", "hint", "ipi"} /\ smTo'[w] = q
  <2>1. smPc[q] = "wfi" /\ smQueued[q] /\ ~ smIpi[q] BY <1>9 DEF Request, Move
  <2>2. PICK w \in SmHart : smPc[w] \in {"pending", "hint", "ipi"} /\ smTo[w] = q BY <2>1
  <2>3. smPc'[w] = smPc[w] /\ smTo'[w] = smTo[w]
    <3> HIDE DEF SmTypeOK, SmLockHeld, SmHinted, SmSleepsSafely, Dozing
    <3> QED BY <1>0, <1>9, <2>2 DEF Request, Move
  <2>4. QED BY <2>2, <2>3
<1>10. ASSUME NEW h \in SmHart, Interrupt(h) PROVE \E w \in SmHart : smPc'[w] \in {"pending", "hint", "ipi"} /\ smTo'[w] = q
  <2>1. smPc[q] = "wfi" /\ smQueued[q] /\ ~ smIpi[q] BY <1>10 DEF Interrupt, Move
  <2>2. PICK w \in SmHart : smPc[w] \in {"pending", "hint", "ipi"} /\ smTo[w] = q BY <2>1
  <2>3. smPc'[w] = smPc[w] /\ smTo'[w] = smTo[w]
    <3> HIDE DEF SmTypeOK, SmLockHeld, SmHinted, SmSleepsSafely, Dozing
    <3> QED BY <1>0, <1>10, <2>2 DEF Interrupt, Move
  <2>4. QED BY <2>2, <2>3
<1>11. ASSUME NEW h \in SmHart, Acknowledged(h) PROVE \E w \in SmHart : smPc'[w] \in {"pending", "hint", "ipi"} /\ smTo'[w] = q
  <2>1. smPc[q] = "wfi" /\ smQueued[q] /\ ~ smIpi[q] BY <1>11 DEF Acknowledged, Move
  <2>2. PICK w \in SmHart : smPc[w] \in {"pending", "hint", "ipi"} /\ smTo[w] = q BY <2>1
  <2>3. smPc'[w] = smPc[w] /\ smTo'[w] = smTo[w]
    <3> HIDE DEF SmTypeOK, SmLockHeld, SmHinted, SmSleepsSafely, Dozing
    <3> QED BY <1>0, <1>11, <2>2 DEF Acknowledged, Move
  <2>4. QED BY <2>2, <2>3
<1>12. ASSUME NEW h \in SmHart, MaskIdle(h) PROVE \E w \in SmHart : smPc'[w] \in {"pending", "hint", "ipi"} /\ smTo'[w] = q
  <2>1. smPc[q] = "wfi" /\ smQueued[q] /\ ~ smIpi[q] BY <1>12 DEF MaskIdle, Move
  <2>2. PICK w \in SmHart : smPc[w] \in {"pending", "hint", "ipi"} /\ smTo[w] = q BY <2>1
  <2>3. smPc'[w] = smPc[w] /\ smTo'[w] = smTo[w]
    <3> HIDE DEF SmTypeOK, SmLockHeld, SmHinted, SmSleepsSafely, Dozing
    <3> QED BY <1>0, <1>12, <2>2 DEF MaskIdle, Move
  <2>4. QED BY <2>2, <2>3
<1>13. ASSUME NEW h \in SmHart, TakeWakeHint(h) PROVE \E w \in SmHart : smPc'[w] \in {"pending", "hint", "ipi"} /\ smTo'[w] = q
  <2>1. CASE q = h
    <3>1. smPc[q] = "masked" /\ smQueued[q] /\ ~ smHint[q] BY <1>13, <2>1 DEF TakeWakeHint, Move
    <3>2. PICK w \in SmHart : smPc[w] \in {"pending", "hint"} /\ smTo[w] = q BY <3>1
    <3>3. smPc'[w] = smPc[w] /\ smTo'[w] = smTo[w]
      <4> HIDE DEF SmTypeOK, SmLockHeld, SmHinted, SmSleepsSafely, Dozing
      <4> QED BY <1>0, <1>13, <3>2 DEF TakeWakeHint, Move
    <3>4. QED BY <3>2, <3>3
  <2>2. CASE q # h
    <3>1. smPc[q] = "wfi" /\ smQueued[q] /\ smIpi' = smIpi BY <1>13, <2>2 DEF TakeWakeHint, Move
    <3>2. CASE ~ smIpi[q]
      <4>1. PICK w \in SmHart : smPc[w] \in {"pending", "hint", "ipi"} /\ smTo[w] = q BY <3>1, <3>2
      <4>2. smPc'[w] = smPc[w] /\ smTo'[w] = smTo[w]
        <5> HIDE DEF SmTypeOK, SmLockHeld, SmHinted, SmSleepsSafely, Dozing
        <5> QED BY <1>0, <1>13, <4>1 DEF TakeWakeHint, Move
      <4>3. QED BY <4>1, <4>2
    <3>3. QED BY <3>1, <3>2
  <2>3. QED BY <2>1, <2>2
<1>14. ASSUME NEW h \in SmHart, Wakes(h) PROVE \E w \in SmHart : smPc'[w] \in {"pending", "hint", "ipi"} /\ smTo'[w] = q
  <2>1. smPc[q] = "wfi" /\ smQueued[q] /\ ~ smIpi[q] BY <1>14 DEF Wakes, Move
  <2>2. PICK w \in SmHart : smPc[w] \in {"pending", "hint", "ipi"} /\ smTo[w] = q BY <2>1
  <2>3. smPc'[w] = smPc[w] /\ smTo'[w] = smTo[w]
    <3> HIDE DEF SmTypeOK, SmLockHeld, SmHinted, SmSleepsSafely, Dozing
    <3> QED BY <1>0, <1>14, <2>2 DEF Wakes, Move
  <2>4. QED BY <2>2, <2>3
<1>15. ASSUME NEW h \in SmHart, SoftIrq(h) PROVE \E w \in SmHart : smPc'[w] \in {"pending", "hint", "ipi"} /\ smTo'[w] = q
  <2>1. smPc[q] = "wfi" /\ smQueued[q] /\ ~ smIpi[q] BY <1>15 DEF SoftIrq, Move
  <2>2. PICK w \in SmHart : smPc[w] \in {"pending", "hint", "ipi"} /\ smTo[w] = q BY <2>1
  <2>3. smPc'[w] = smPc[w] /\ smTo'[w] = smTo[w]
    <3> HIDE DEF SmTypeOK, SmLockHeld, SmHinted, SmSleepsSafely, Dozing
    <3> QED BY <1>0, <1>15, <2>2 DEF SoftIrq, Move
  <2>4. QED BY <2>2, <2>3
<1>16. ASSUME NEW h \in SmHart, Serve(h) PROVE \E w \in SmHart : smPc'[w] \in {"pending", "hint", "ipi"} /\ smTo'[w] = q
  <2>1. smPc[q] = "wfi" /\ smQueued[q] /\ ~ smIpi[q] BY <1>16 DEF Serve, Move
  <2>2. PICK w \in SmHart : smPc[w] \in {"pending", "hint", "ipi"} /\ smTo[w] = q BY <2>1
  <2>3. smPc'[w] = smPc[w] /\ smTo'[w] = smTo[w]
    <3> HIDE DEF SmTypeOK, SmLockHeld, SmHinted, SmSleepsSafely, Dozing
    <3> QED BY <1>0, <1>16, <2>2 DEF Serve, Move
  <2>4. QED BY <2>2, <2>3
<1>17. ASSUME NEW h \in SmHart, Pick(h) PROVE \E w \in SmHart : smPc'[w] \in {"pending", "hint", "ipi"} /\ smTo'[w] = q
  BY <1>17, SMTT(30) DEF Pick, Move
<1>18. ASSUME NEW h \in SmHart, FlushSelf(h) PROVE \E w \in SmHart : smPc'[w] \in {"pending", "hint", "ipi"} /\ smTo'[w] = q
  BY <1>18, SMTT(30) DEF FlushSelf, Move
<1>19. ASSUME NEW h \in SmHart, NEW t \in SmHart, WakeRemote(h, t) PROVE \E w \in SmHart : smPc'[w] \in {"pending", "hint", "ipi"} /\ smTo'[w] = q
  BY <1>19, SMTT(30) DEF WakeRemote, Move
<1>20. CASE UNCHANGED smVars BY <1>20 DEF smVars
<1> QED BY <1>1, <1>2, <1>3, <1>4, <1>5, <1>6, <1>7, <1>8, <1>9, <1>10, <1>11, <1>12, <1>13, <1>14, <1>15, <1>16, <1>17, <1>18, <1>19, <1>20 DEF SmNext, HandlerStep, LockStep

\* The inductive invariant is kept.
LEMMA SmInvStep == SmInv /\ [SmNext]_smVars => SmInv'
BY SmTypeStep, SmLockStep, SmEpochsStep, SmHintedStep, SmSleepStep DEF SmInv

\* It holds at the start.
LEMMA SmInvInit == SmInit => SmInv
BY SmHarts DEF SmInit, SmInv, SmTypeOK, SmLockHeld, SmEpochs, EpochsOf, SmHinted, SmSleepsSafely,
               Dozing, SmPc, Interruptible, HandlerPc, WakerPc, FlusherPc

\* It says what an acknowledgement means.
LEMMA SmInvAcks == SmInv => SmAckMeansFlushed
<1> SUFFICES ASSUME SmInv PROVE SmAckMeansFlushed OBVIOUS
<1>1. \A h \in SmHart : smMail[h].acked <= smFlushed[h] BY DEF SmInv, SmEpochs, EpochsOf
<1>2. ASSUME NEW h \in SmHart, smPc[h] = "acks", AllAcked(h), NEW t \in SmHart
      PROVE  smFlushed[t] = smEpoch
  <2>1. smFlushed[t] \in Nat /\ smEpoch \in Nat /\ smMail[t].acked \in Nat BY DEF SmInv, SmTypeOK
  <2>2. CASE t = h BY <1>2, <2>2 DEF SmInv, SmEpochs, EpochsOf, FlusherPc
  <2>3. CASE t # h
    <3>1. smMail[t].acked >= smEpoch BY <1>2, <2>3 DEF AllAcked, Others
    <3>2. smFlushed[t] <= smEpoch BY DEF SmInv, SmEpochs, EpochsOf
    <3>3. QED BY <1>1, <2>1, <3>1, <3>2
  <2>4. QED BY <2>2, <2>3
<1>3. QED BY <1>1, <1>2 DEF SmAckMeansFlushed

\* For any number of harts and shootdowns: a hart acknowledges an epoch only
\* after a full flush that began after it, so when shootdown_all returns every
\* hart has flushed since the call (poll_mailbox, shootdown_all).
THEOREM SmpAcksAreFlushes == SmpSpec => []SmAckMeansFlushed
<1>1. SmpSpec => []SmInv BY SmInvInit, SmInvStep, PTL DEF SmpSpec
<1>2. QED BY <1>1, SmInvAcks, PTL

\* For any number of harts: no hart sleeps on a queued task without an
\* interrupt pending or about to be sent (request_resched, take_wake_hint).
THEOREM SmpSleepsSafely == SmpSpec => []SmSleepsSafely
<1>1. SmpSpec => []SmInv BY SmInvInit, SmInvStep, PTL DEF SmpSpec
<1>2. SmInv => SmSleepsSafely BY DEF SmInv
<1>3. QED BY <1>1, <1>2, PTL

-----------------------------------------------------------------------------
(* DeviceIrq                                                                *)

IqPc == {"bind", "ack", "poll", "complete", "recv", "run", "drain", "ackrun", "clear",
         "clearrun", "completerun", "recheck", "woken"}

IqTypeOK ==
    /\ iqLine \in [Source -> [enabled : BOOLEAN, bound : BOOLEAN, claimed : BOOLEAN]]
    /\ iqDev \in [Source -> [work : Nat, latch : BOOLEAN]]
    /\ iqBox \in [Driver -> Nat] /\ iqPc \in [Driver -> IqPc] /\ iqFlight \in Nat

(* A driver that has bound its sources listens to them. *)
ListensTo(s) == iqPc[DriverOf(s)] # "bind" => iqLine[s].bound /\ iqLine[s].enabled
IqListens == \A s \in Source : ListensTo(s)

(* Between the unmasking and the receive a source is claimed only with a    *)
(* notification in the queue.                                               *)
Unmasked(d) == iqPc[d] = "recv" \/ (d = "gpu" /\ iqPc[d] = "recheck")
ClaimNotified(s) ==
    Unmasked(DriverOf(s)) /\ iqBox[DriverOf(s)] = 0 => ~ iqLine[s].claimed
IqNotified == \A s \in Source : ClaimNotified(s)

(* After the last look into a device its latch shows whatever is new.       *)
LookedAt(d) == iqPc[d] = "recv" \/ (d = "hid" /\ iqPc[d] = "complete")
NewsLatched(s) == LookedAt(DriverOf(s)) /\ iqDev[s].work > 0 => iqDev[s].latch
IqLatched == \A s \in Source : NewsLatched(s)

IqInv == IqTypeOK /\ IqListens /\ IqNotified /\ IqLatched

(* The sources of a driver that an interrupt announces. *)
Announced(d) == {s \in Source : Pending(s) /\ iqLine[s].bound /\ DriverOf(s) = d}

\* How many those are: a number, and not zero if there is one.
LEMMA AnnouncedCount ==
    ASSUME NEW d \in Driver
    PROVE  /\ Cardinality(Announced(d)) \in Nat
           /\ \A s \in Announced(d) : Cardinality(Announced(d)) # 0
<1>1. IsFiniteSet(Source)
  BY IqConstants, FS_Singleton, FS_Union DEF Source
<1>2. IsFiniteSet(Announced(d)) BY <1>1, FS_Subset DEF Announced
<1>3. QED BY <1>2, FS_CardinalityType, FS_EmptySet

\* Each step of a device, of the kernel and of a driver keeps the types.
LEMMA IqTypeStep ==
    ASSUME ~ RouteFails, IqTypeOK, [IqNext]_iqVars PROVE IqTypeOK'
<1> USE IqConstants DEF Source, Driver, DriverOf, IqTypeOK, IqPc, Pending
<1>1. ASSUME NEW e \in InputDev, InputEvent(e) PROVE IqTypeOK'
  BY <1>1 DEF InputEvent
<1>2. CASE GpuCompletes BY <1>2 DEF GpuCompletes
<1>3. CASE DispatchExternal
  <2>1. \A d \in Driver : Cardinality(Announced(d)) \in Nat BY AnnouncedCount
  <2>2. iqBox' \in [Driver -> Nat] BY <1>3, <2>1 DEF DispatchExternal, Announced
  <2>3. QED BY <1>3, <2>2 DEF DispatchExternal
<1>4. CASE DrainUndelivered BY <1>4 DEF DrainUndelivered
<1>5. CASE HidBind BY <1>5 DEF HidBind, Goto, Bound
<1>6. CASE HidAck BY <1>6 DEF HidAck, Goto, AckedInputs
<1>7. CASE HidPoll BY <1>7 DEF HidPoll, Goto, Pass
<1>8. CASE HidComplete BY <1>8 DEF HidComplete, Goto, IrqComplete
<1>9. CASE HidRecv BY <1>9 DEF HidRecv, Goto, Receive
<1>10. CASE GpuBind BY <1>10 DEF GpuBind, Goto, Bound
<1>11. CASE GpuSubmit BY <1>11 DEF GpuSubmit, FindSlot, Harvested, Goto
<1>12. CASE GpuRecheck BY <1>12 DEF GpuRecheck, FindSlot, Harvested, Goto
<1>13. CASE GpuWoken BY <1>13 DEF GpuWoken, FindSlot, Harvested, Goto
<1>14. CASE GpuDrain BY <1>14 DEF GpuDrain, Goto
<1>15. CASE GpuClear BY <1>15 DEF GpuClear, Goto
<1>16. CASE GpuComplete BY <1>16 DEF GpuComplete, Goto, IrqComplete
<1>17. CASE GpuRecv BY <1>17 DEF GpuRecv, Goto, Receive
<1>18. CASE UNCHANGED iqVars BY <1>18 DEF iqVars
<1> QED BY <1>1, <1>2, <1>3, <1>4, <1>5, <1>6, <1>7, <1>8, <1>9, <1>10, <1>11, <1>12, <1>13, <1>14, <1>15, <1>16, <1>17, <1>18 DEF IqNext, DriverStep

\* A driver that has bound its sources goes on listening to them: the kernel
\* masks only unbound sources (dispatch_external, drain_undelivered).
LEMMA IqListensStep ==
    ASSUME ~ RouteFails, IqTypeOK, IqListens, [IqNext]_iqVars PROVE IqListens'
<1> SUFFICES ASSUME NEW s \in Source PROVE ListensTo(s)' BY DEF IqListens
<1> USE IqConstants DEF Source, Driver, DriverOf, IqTypeOK, IqListens, ListensTo, Pending
<1>1. ASSUME NEW e \in InputDev, InputEvent(e) PROVE ListensTo(s)'
  BY <1>1 DEF InputEvent
<1>2. CASE GpuCompletes BY <1>2 DEF GpuCompletes
<1>3. CASE DispatchExternal BY <1>3 DEF DispatchExternal
<1>4. CASE DrainUndelivered BY <1>4 DEF DrainUndelivered
<1>5. CASE HidBind BY <1>5 DEF HidBind, Goto, Bound
<1>6. CASE HidAck BY <1>6 DEF HidAck, Goto, AckedInputs
<1>7. CASE HidPoll BY <1>7 DEF HidPoll, Goto, Pass
<1>8. CASE HidComplete BY <1>8 DEF HidComplete, Goto, IrqComplete
<1>9. CASE HidRecv BY <1>9 DEF HidRecv, Goto, Receive
<1>10. CASE GpuBind BY <1>10 DEF GpuBind, Goto, Bound
<1>11. CASE GpuSubmit BY <1>11 DEF GpuSubmit, FindSlot, Harvested, Goto
<1>12. CASE GpuRecheck BY <1>12 DEF GpuRecheck, FindSlot, Harvested, Goto
<1>13. CASE GpuWoken BY <1>13 DEF GpuWoken, FindSlot, Harvested, Goto
<1>14. CASE GpuDrain BY <1>14 DEF GpuDrain, Goto
<1>15. CASE GpuClear BY <1>15 DEF GpuClear, Goto
<1>16. CASE GpuComplete BY <1>16 DEF GpuComplete, Goto, IrqComplete
<1>17. CASE GpuRecv BY <1>17 DEF GpuRecv, Goto, Receive
<1>18. CASE UNCHANGED iqVars BY <1>18 DEF iqVars
<1> QED BY <1>1, <1>2, <1>3, <1>4, <1>5, <1>6, <1>7, <1>8, <1>9, <1>10, <1>11, <1>12, <1>13, <1>14, <1>15, <1>16, <1>17, <1>18 DEF IqNext, DriverStep

\* A claim reaches the queue or finds it full; a receive is followed by a drain
\* before the sources are unmasked again.
LEMMA IqNotifiedStep ==
    ASSUME ~ RouteFails, IqTypeOK, IqListens, IqNotified, [IqNext]_iqVars PROVE IqNotified'
<1> SUFFICES ASSUME NEW s \in Source PROVE ClaimNotified(s)' BY DEF IqNotified
<1> USE IqConstants DEF Source, Driver, DriverOf, IqTypeOK, IqListens, ListensTo, IqNotified, ClaimNotified, Unmasked, Pending
<1>1. ASSUME NEW e \in InputDev, InputEvent(e) PROVE ClaimNotified(s)'
  BY <1>1 DEF InputEvent
<1>2. CASE GpuCompletes BY <1>2 DEF GpuCompletes
<1>3. CASE DispatchExternal
  <2> DEFINE d == DriverOf(s)
  <2>1. PICK c : c = Cardinality(Announced(d)) OBVIOUS
  <2>2. c \in Nat /\ iqBox[d] \in Nat /\ BoxDepth \in Nat \ {0} BY <2>1, AnnouncedCount
  <2>3. iqBox'[d] = IF iqBox[d] + c > BoxDepth THEN BoxDepth ELSE iqBox[d] + c
    BY <1>3, <2>1 DEF DispatchExternal, Announced
  <2>4. CASE s \in Announced(d)
    <3>1. c # 0 BY <2>1, <2>4, AnnouncedCount
    <3>2. iqBox'[d] # 0 BY <2>2, <2>3, <3>1
    <3>3. QED BY <1>3, <3>2 DEF DispatchExternal
  <2>5. CASE s \notin Announced(d)
    <3>1. iqLine'[s].claimed = iqLine[s].claimed BY <1>3, <2>5 DEF DispatchExternal, Announced
    <3>2. iqBox'[d] = 0 => iqBox[d] = 0 BY <2>2, <2>3
    <3>3. QED BY <1>3, <3>1, <3>2 DEF DispatchExternal
  <2>6. QED BY <2>4, <2>5
<1>4. CASE DrainUndelivered BY <1>4 DEF DrainUndelivered
<1>5. CASE HidBind BY <1>5 DEF HidBind, Goto, Bound
<1>6. CASE HidAck BY <1>6 DEF HidAck, Goto, AckedInputs
<1>7. CASE HidPoll BY <1>7 DEF HidPoll, Goto, Pass
<1>8. CASE HidComplete BY <1>8 DEF HidComplete, Goto, IrqComplete
<1>9. CASE HidRecv BY <1>9 DEF HidRecv, Goto, Receive
<1>10. CASE GpuBind BY <1>10 DEF GpuBind, Goto, Bound
<1>11. CASE GpuSubmit BY <1>11 DEF GpuSubmit, FindSlot, Harvested, Goto
<1>12. CASE GpuRecheck BY <1>12 DEF GpuRecheck, FindSlot, Harvested, Goto
<1>13. CASE GpuWoken BY <1>13 DEF GpuWoken, FindSlot, Harvested, Goto
<1>14. CASE GpuDrain BY <1>14 DEF GpuDrain, Goto
<1>15. CASE GpuClear BY <1>15 DEF GpuClear, Goto
<1>16. CASE GpuComplete BY <1>16 DEF GpuComplete, Goto, IrqComplete
<1>17. CASE GpuRecv BY <1>17 DEF GpuRecv, Goto, Receive
<1>18. CASE UNCHANGED iqVars BY <1>18 DEF iqVars
<1> QED BY <1>1, <1>2, <1>3, <1>4, <1>5, <1>6, <1>7, <1>8, <1>9, <1>10, <1>11, <1>12, <1>13, <1>14, <1>15, <1>16, <1>17, <1>18 DEF IqNext, DriverStep

\* An acknowledgement comes before the last look into the rings.
LEMMA IqLatchedStep ==
    ASSUME ~ RouteFails, IqTypeOK, IqLatched, [IqNext]_iqVars PROVE IqLatched'
<1> SUFFICES ASSUME NEW s \in Source PROVE NewsLatched(s)' BY DEF IqLatched
<1> USE IqConstants DEF Source, Driver, DriverOf, IqTypeOK, IqLatched, NewsLatched, LookedAt, Pending
<1>1. ASSUME NEW e \in InputDev, InputEvent(e) PROVE NewsLatched(s)'
  BY <1>1 DEF InputEvent
<1>2. CASE GpuCompletes BY <1>2 DEF GpuCompletes
<1>3. CASE DispatchExternal BY <1>3 DEF DispatchExternal
<1>4. CASE DrainUndelivered BY <1>4 DEF DrainUndelivered
<1>5. CASE HidBind BY <1>5 DEF HidBind, Goto, Bound
<1>6. CASE HidAck BY <1>6 DEF HidAck, Goto, AckedInputs
<1>7. CASE HidPoll BY <1>7 DEF HidPoll, Goto, Pass
<1>8. CASE HidComplete BY <1>8 DEF HidComplete, Goto, IrqComplete
<1>9. CASE HidRecv BY <1>9 DEF HidRecv, Goto, Receive
<1>10. CASE GpuBind BY <1>10 DEF GpuBind, Goto, Bound
<1>11. CASE GpuSubmit BY <1>11 DEF GpuSubmit, FindSlot, Harvested, Goto
<1>12. CASE GpuRecheck BY <1>12 DEF GpuRecheck, FindSlot, Harvested, Goto
<1>13. CASE GpuWoken BY <1>13 DEF GpuWoken, FindSlot, Harvested, Goto
<1>14. CASE GpuDrain BY <1>14 DEF GpuDrain, Goto
<1>15. CASE GpuClear BY <1>15 DEF GpuClear, Goto
<1>16. CASE GpuComplete BY <1>16 DEF GpuComplete, Goto, IrqComplete
<1>17. CASE GpuRecv BY <1>17 DEF GpuRecv, Goto, Receive
<1>18. CASE UNCHANGED iqVars BY <1>18 DEF iqVars
<1> QED BY <1>1, <1>2, <1>3, <1>4, <1>5, <1>6, <1>7, <1>8, <1>9, <1>10, <1>11, <1>12, <1>13, <1>14, <1>15, <1>16, <1>17, <1>18 DEF IqNext, DriverStep

\* The inductive invariant is kept while inputd can be reached.
LEMMA IqInvStep == ASSUME ~ RouteFails, IqInv, [IqNext]_iqVars PROVE IqInv'
BY IqTypeStep, IqListensStep, IqNotifiedStep, IqLatchedStep DEF IqInv

\* It holds at the start.
LEMMA IqInvInit == IqInit => IqInv
BY DEF IqInit, IqInv, IqTypeOK, IqListens, ListensTo, IqNotified, ClaimNotified, Unmasked,
       IqLatched, NewsLatched, LookedAt, IqPc, Source, Driver, DriverOf

\* With an empty queue the sources of a sleeping driver are enabled and not
\* claimed, and what is new is latched: they are pending.
LEMMA IqInvSleeps == IqInv => IqSleepsSafely
BY DEF IqInv, IqTypeOK, IqListens, ListensTo, IqNotified, ClaimNotified, Unmasked, IqLatched,
       NewsLatched, LookedAt, IqSleepsSafely, Pending, Source, Driver, DriverOf

\* For any number of input devices, command slots and queue depth: while inputd
\* can be reached, no driver sleeps on an interrupt that was lost on the way
\* (dispatch_external, hidrawd's drain loop, gpud's alloc_free_slot).
THEOREM IrqSleepsSafely == ASSUME ~ RouteFails PROVE IrqSpec => []IqSleepsSafely
<1>1. IqInv /\ [IqNext]_iqVars => IqInv' BY IqInvStep
<1>2. IrqSpec => []IqInv BY <1>1, IqInvInit, PTL DEF IrqSpec
<1>3. QED BY <1>2, IqInvSleeps, PTL

-----------------------------------------------------------------------------
(* KernelTimers                                                             *)

TimerState == [used : BOOLEAN, interval : Nat, left : Int, armed : BOOLEAN]

TmTypeOK == tmTable \in [Timer -> TimerState] /\ tmWait \in Int

(* The entry of a timer in the queue. *)
QueueEntry(t) == [id |-> t, left |-> tmTable[t].left]

(* A slot of the table that is free is not armed. *)
TmFreeUnarmed == \A t \in Timer : tmTable[t].armed => tmTable[t].used

TmInv == TmTypeOK /\ TmFreeUnarmed /\ TmQueued

\* The clock keeps a deadline a number.
LEMMA EarlierIsInt == ASSUME NEW d \in Int PROVE Earlier(d) \in Int
<1>1. d - 1 \in Int /\ 0 - MaxLate \in Int BY TimerBounds
<1>2. Max({d - 1, 0 - MaxLate}) \in Int BY <1>1, MaxOfTwo
<1>3. QED BY <1>2 DEF Earlier, NoWait

\* What pop_expired makes of a timer it popped.
LEMMA RequeuedFields ==
    ASSUME TmTypeOK, NEW t \in Timer
    PROVE  /\ Requeued(t) \in TimerState
           /\ Requeued(t).left = tmTable[t].left + tmTable[t].interval
           /\ Requeued(t).armed = (tmTable[t].interval > 0)
<1>1. tmTable[t] \in TimerState BY DEF TmTypeOK
<1>2. tmTable[t].left + tmTable[t].interval \in Int /\ (tmTable[t].interval > 0) \in BOOLEAN
  BY <1>1 DEF TimerState
<1>3. QED BY <1>1, <1>2 DEF Requeued, TimerState

\* Every step keeps the types.
LEMMA TmTypeStep == TmTypeOK /\ [TmNext]_tmVars => TmTypeOK'
<1> SUFFICES ASSUME TmTypeOK, [TmNext]_tmVars PROVE TmTypeOK' OBVIOUS
<1> USE TimerBounds DEF TmTypeOK, TimerState
<1>1. ASSUME NEW i \in Interval, TimerCreate(i) PROVE TmTypeOK'
  <2>1. PICK t \in Timer :
          tmTable' = [tmTable EXCEPT ![t] = [FreeTimer EXCEPT !.used = TRUE, !.interval = i]]
    BY <1>1 DEF TimerCreate
  <2>2. FreeTimer \in TimerState /\ i \in Nat BY DEF FreeTimer
  <2>3. tmTable' \in [Timer -> TimerState] BY <2>1, <2>2
  <2>4. QED BY <1>1, <2>3 DEF TimerCreate
<1>2. ASSUME NEW h \in TmHart, NEW t \in Timer, NEW d \in Delay, TimerSet(h, t, d) PROVE TmTypeOK'
  BY <1>2 DEF TimerSet
<1>3. ASSUME NEW t \in Timer, TimerCancel(t) PROVE TmTypeOK' BY <1>3 DEF TimerCancel
<1>4. ASSUME NEW t \in Timer, TimerFree(t) PROVE TmTypeOK' BY <1>4 DEF TimerFree, FreeTimer
<1>5. ASSUME NEW h \in TmHart, NEW d \in Delay, TimedWait(h, d) PROVE TmTypeOK'
  BY <1>5 DEF TimedWait
<1>6. ASSUME NEW h \in TmHart, Process(h) PROVE TmTypeOK'
  <2>1. \A t \in Timer : Requeued(t) \in TimerState BY RequeuedFields
  <2>2. tmTable' \in [Timer -> TimerState] BY <1>6, <2>1 DEF Process
  <2>3. QED BY <1>6, <2>2 DEF Process, NoWait
<1>7. ASSUME NEW h \in TmHart, KernelTimerIrq(h) \/ Enter(h) \/ Leave(h) PROVE TmTypeOK'
  BY <1>7 DEF KernelTimerIrq, Enter, Leave
<1>8. CASE WaitOver BY <1>8 DEF WaitOver, NoWait
<1>9. CASE TimeGoesOn
  <2>1. \A t \in Timer : Earlier(tmTable[t].left) \in Int BY EarlierIsInt
  <2>2. tmTable' \in [Timer -> TimerState] BY <1>9, <2>1 DEF TimeGoesOn
  <2>3. QED BY <1>9, <2>2, EarlierIsInt DEF TimeGoesOn
<1>10. CASE UNCHANGED tmVars BY <1>10 DEF tmVars
<1>11. QED BY <1>1, <1>2, <1>3, <1>4, <1>5, <1>6, <1>7, <1>8, <1>9, <1>10
         DEF TmNext, UserTimerIrq, IdlePass

\* A timer is armed only while it is in use.
LEMMA TmFreeUnarmedStep == TmTypeOK /\ TmFreeUnarmed /\ [TmNext]_tmVars => TmFreeUnarmed'
<1> SUFFICES ASSUME TmTypeOK, TmFreeUnarmed, [TmNext]_tmVars PROVE TmFreeUnarmed' OBVIOUS
<1> USE DEF TmTypeOK, TimerState, TmFreeUnarmed
<1>1. ASSUME NEW i \in Interval, TimerCreate(i) PROVE TmFreeUnarmed'
  BY <1>1 DEF TimerCreate, FreeTimer
<1>2. ASSUME NEW h \in TmHart, NEW t \in Timer, NEW d \in Delay, TimerSet(h, t, d)
      PROVE  TmFreeUnarmed'
  BY <1>2 DEF TimerSet
<1>3. ASSUME NEW t \in Timer, TimerCancel(t) PROVE TmFreeUnarmed' BY <1>3 DEF TimerCancel
<1>4. ASSUME NEW t \in Timer, TimerFree(t) PROVE TmFreeUnarmed' BY <1>4 DEF TimerFree, FreeTimer
<1>5. ASSUME NEW h \in TmHart, NEW d \in Delay, TimedWait(h, d) PROVE TmFreeUnarmed'
  BY <1>5 DEF TimedWait
<1>6. ASSUME NEW h \in TmHart, Process(h) PROVE TmFreeUnarmed'
  BY <1>6 DEF Process, Requeued, Popped
<1>7. ASSUME NEW h \in TmHart, KernelTimerIrq(h) \/ Enter(h) \/ Leave(h) PROVE TmFreeUnarmed'
  BY <1>7 DEF KernelTimerIrq, Enter, Leave
<1>8. CASE WaitOver BY <1>8 DEF WaitOver
<1>9. CASE TimeGoesOn BY <1>9 DEF TimeGoesOn
<1>10. CASE UNCHANGED tmVars BY <1>10 DEF tmVars
<1>11. QED BY TimerBounds, <1>1, <1>2, <1>3, <1>4, <1>5, <1>6, <1>7, <1>8, <1>9, <1>10
         DEF TmNext, UserTimerIrq, IdlePass

\* Every step leaves the queue with the entries of the armed timers.
LEMMA TmQueuedStep == TmInv /\ [TmNext]_tmVars => TmQueued'
<1> SUFFICES ASSUME TmInv, [TmNext]_tmVars PROVE TmQueued' OBVIOUS
<1> USE TimerBounds DEF TmInv, TmTypeOK, TimerState, TmQueued
<1>1. ASSUME NEW i \in Interval, TimerCreate(i) PROVE TmQueued'
  <2>1. PICK t \in Timer : ~ tmTable[t].used /\
          tmTable' = [tmTable EXCEPT ![t] = [FreeTimer EXCEPT !.used = TRUE, !.interval = i]]
    BY <1>1 DEF TimerCreate
  <2>2. ~ tmTable'[t].armed /\ \A u \in Timer \ {t} : tmTable'[u] = tmTable[u]
    BY <2>1 DEF FreeTimer
  <2>3. ~ tmTable[t].armed BY <2>1 DEF TmFreeUnarmed
  <2>4. \A u \in Timer : tmTable'[u].armed <=> tmTable[u].armed BY <2>2, <2>3
  <2>5. \A u \in Timer : tmTable'[u].armed => tmTable'[u].left = tmTable[u].left BY <2>2
  <2>6. QED BY <1>1, <2>4, <2>5 DEF TimerCreate
<1>2. ASSUME NEW h \in TmHart, NEW t \in Timer, NEW d \in Delay, TimerSet(h, t, d) PROVE TmQueued'
  BY <1>2 DEF TimerSet
<1>3. ASSUME NEW t \in Timer, TimerCancel(t) PROVE TmQueued' BY <1>3 DEF TimerCancel, Disarmed
<1>4. ASSUME NEW t \in Timer, TimerFree(t) PROVE TmQueued'
  BY <1>4 DEF TimerFree, FreeTimer, Disarmed
<1>5. ASSUME NEW h \in TmHart, NEW d \in Delay, TimedWait(h, d) PROVE TmQueued'
  BY <1>5 DEF TimedWait
<1>6. ASSUME NEW h \in TmHart, Process(h) PROVE TmQueued'
  <2>1. \A t \in Timer : t \in Popped <=> tmTable[t].armed /\ tmTable[t].left <= 0
    <3>1. ASSUME NEW t \in Timer, tmTable[t].armed, tmTable[t].left <= 0 PROVE t \in Popped
      <4>1. QueueEntry(t) \in tmQueue /\ QueueEntry(t).id = t /\ QueueEntry(t).left <= 0
        BY <3>1 DEF QueueEntry
      <4>2. QED BY <3>1, <4>1 DEF Popped, Expired
    <3>2. QED BY <3>1 DEF Popped
  <2>2. tmQueue \ Expired
          = {QueueEntry(t) : t \in {u \in Timer : tmTable[u].armed /\ u \notin Popped}}
    BY <2>1 DEF Expired, QueueEntry
  <2>3. \A t \in Timer \ Popped : tmTable'[t] = tmTable[t] BY <1>6 DEF Process
  <2>4. tmQueue' = {QueueEntry(t) : t \in {u \in Timer : tmTable[u].armed /\ u \notin Popped}}
          \cup {QueueEntry(t)' : t \in {u \in Popped : tmTable'[u].armed}}
    BY <1>6, <2>2 DEF Process, QueueEntry
  <2>5. Popped \subseteq Timer BY DEF Popped
  <2>6. tmQueue' = {QueueEntry(t)' : t \in {u \in Timer : tmTable'[u].armed}}
    <3> HIDE DEF TmInv, TmTypeOK, TimerState, TmQueued
    <3> QED BY <2>3, <2>4, <2>5 DEF QueueEntry
  <2>7. QED BY <2>6 DEF QueueEntry
<1>7. ASSUME NEW h \in TmHart, KernelTimerIrq(h) \/ Enter(h) \/ Leave(h) PROVE TmQueued'
  BY <1>7 DEF KernelTimerIrq, Enter, Leave
<1>8. CASE WaitOver BY <1>8 DEF WaitOver
<1>9. CASE TimeGoesOn
  <2>1. \A t \in Timer : /\ tmTable'[t].armed = tmTable[t].armed
                         /\ tmTable[t].armed => tmTable'[t].left = Earlier(tmTable[t].left)
    BY <1>9 DEF TimeGoesOn
  <2> DEFINE Ticked(e) == [e EXCEPT !.left = Earlier(@)]
  <2>2. tmQueue' = {Ticked(e) : e \in tmQueue} BY <1>9 DEF TimeGoesOn
  <2>3. \A t \in Timer : Ticked(QueueEntry(t)) = [id |-> t, left |-> Earlier(tmTable[t].left)]
    BY DEF QueueEntry
  <2>4. tmQueue = {QueueEntry(t) : t \in {u \in Timer : tmTable[u].armed}} BY DEF QueueEntry
  <2>5. tmQueue' = {[id |-> t, left |-> Earlier(tmTable[t].left)] :
                      t \in {u \in Timer : tmTable[u].armed}}
    <3> HIDE DEF TmInv, TmTypeOK, TimerState, TmQueued, Ticked
    <3>1. tmQueue' = {Ticked(QueueEntry(t)) : t \in {u \in Timer : tmTable[u].armed}}
      BY <2>2, <2>4
    <3>2. QED BY <2>3, <3>1
  <2>6. QED
    <3> SUFFICES tmQueue' = {QueueEntry(t)' : t \in {u \in Timer : tmTable'[u].armed}}
      BY DEF QueueEntry
    <3> HIDE DEF TmInv, TmTypeOK, TimerState, TmQueued
    <3> QED BY <2>1, <2>5 DEF QueueEntry
<1>10. CASE UNCHANGED tmVars BY <1>10 DEF tmVars
<1>11. QED BY <1>1, <1>2, <1>3, <1>4, <1>5, <1>6, <1>7, <1>8, <1>9, <1>10
         DEF TmNext, UserTimerIrq, IdlePass

\* For any number of timers and harts and any order of arming, cancelling,
\* expiry, re-arming and freeing: the queue holds the deadline of each armed
\* timer, once, and nothing else (HartTimers::arm, disarm, pop_expired, free).
THEOREM TimersQueued == TimersSpec => []TmQueued
<1>1. TmInit => TmInv
  BY DEF TmInit, TmInv, TmTypeOK, TimerState, TmFreeUnarmed, TmQueued, FreeTimer, NoWait
<1>2. TmInv /\ [TmNext]_tmVars => TmInv'
  BY TmTypeStep, TmFreeUnarmedStep, TmQueuedStep DEF TmInv
<1>3. TmInv => TmQueued BY DEF TmInv
<1>4. QED BY <1>1, <1>2, <1>3, PTL DEF TimersSpec

-----------------------------------------------------------------------------
(* Vmo                                                                      *)

Span == Nat \X Nat
VmPoolType == [next : Nat, zeroed : Nat, leaked : Nat, stale : SUBSET Nat,
               free : [Entries -> Span], dirty : [Entries -> Span]]

(* A page of a range, and two ranges that share none. *)
In(x, r) == r[1] <= x /\ x < r[1] + r[2]
Off(a, b) == a[2] = 0 \/ b[2] = 0 \/ a[1] + a[2] <= b[1] \/ b[1] + b[2] <= a[1]

(* A list of ranges below the frontier, none of which is empty but for the   *)
(* entries that are not used.                                                *)
ListOK(list, next) ==
    /\ list \in [Entries -> Span]
    /\ \A i \in Entries : list[i] = NoRange \/ (list[i][2] > 0 /\ list[i][1] + list[i][2] <= next)
    /\ \A i, j \in Entries : i # j => Off(list[i], list[j])

Clean(p) ==
    /\ \A i \in Entries : \A x \in Nat : In(x, p.free[i]) => x \notin p.stale
    /\ \A x \in Nat : p.next <= x /\ x < p.zeroed => x \notin p.stale

PoolOK(p) ==
    /\ p \in VmPoolType /\ p.next <= Arena
    /\ ListOK(p.free, p.next) /\ ListOK(p.dirty, p.next)
    /\ \A i, j \in Entries : Off(p.free[i], p.dirty[j])
    /\ Clean(p)

(* A range that is handed out: below the frontier and on no list. *)
Taken(p, q) ==
    /\ q \in Span /\ q[2] > 0 /\ q[1] + q[2] <= p.next
    /\ \A i \in Entries : Off(q, p.free[i]) /\ Off(q, p.dirty[i])

(* The ranges that tasks hold. *)
Calling(pend) == \E t \in VmTask : pend[t].call = "exec"
UsersOf(caps, mail, pend, image) ==
    {h \in UNION { {Holding("vmo", 0, caps[t][s]) : t \in VmTask, s \in 1..VmSlots},
                   {Holding("vmo", 0, mail)},
                   {Holding("call", t, pend[t].range) : t \in VmTask},
                   IF Calling(pend) THEN {} ELSE {Holding("image", 0, image)} } :
        h.range # NoRange}
Users == UsersOf(vmCaps, vmMail, vmPend, vmChild.image)

(* Ranges that are handed out, each to one user. *)
UsersOK(U, p) ==
    /\ \A h \in U : Taken(p, h.range)
    /\ \A g, h \in U : g # h => Off(g.range, h.range)

VmTypeOK ==
    /\ vmCaps \in [VmTask -> [1..VmSlots -> Span]] /\ vmMail \in Span
    /\ vmPend \in [VmTask -> [stage : {"none", "zero", "publish"}, call : {"none", "create", "exec"},
                              range : Span]]
    /\ vmChild \in [state : {"none", "suspended", "running"}, image : Span]

(* While exec copies, the image is the call's and the child is suspended. *)
VmCallsOK ==
    /\ \A t \in VmTask : (vmPend[t].call = "none" <=> vmPend[t].stage = "none")
    /\ \A t \in VmTask : vmPend[t].stage = "none" => vmPend[t] = Idle
    /\ \A t \in VmTask : vmPend[t].stage # "none" => vmPend[t].range # NoRange
    /\ \A t \in VmTask : vmPend[t].call = "exec" =>
           /\ vmChild.state = "suspended" /\ vmChild.image = vmPend[t].range
           /\ \A u \in VmTask : vmPend[u].call = "exec" => u = t
    /\ vmChild.state = "none" <=> vmChild.image = NoRange

VmInv == VmTypeOK /\ PoolOK(vmPool) /\ VmCallsOK /\ UsersOK(Users, vmPool) /\ VmFreshIsZero

(* Memory that was given back is listed, beyond the frontier, or leaked. *)
Listed(p) == {x \in Nat : \E i \in Entries : In(x, p.free[i]) \/ In(x, p.dirty[i])}
Lost(p, returned) == {x \in returned : x < p.next /\ x \notin Listed(p)}

KeptOK(p, returned) ==
    /\ returned \subseteq Nat /\ Listed(p) \subseteq returned
    /\ IsFiniteSet(Lost(p, returned)) /\ Cardinality(Lost(p, returned)) = p.leaked

(* No user has a page that was given back. *)
UsersKept(U, returned) == \A h \in U : \A x \in returned : ~ In(x, h.range)

VmKeptOK == KeptOK(vmPool, vmReturned) /\ UsersKept(Users, vmReturned)

\* The parts of a range.
LEMMA SpanParts ==
    ASSUME NEW r \in Span
    PROVE  r[1] \in Nat /\ r[2] \in Nat /\ r = <<r[1], r[2]>>
BY DEF Span

\* The pages of a range.
LEMMA PagesIn ==
    ASSUME NEW r \in Span PROVE \A x : x \in Pages(r) <=> x \in Nat /\ In(x, r)
<1>1. r[1] \in Nat /\ r[2] \in Nat BY SpanParts
<1>2. QED BY <1>1 DEF Pages, In

\* Ranges are apart if and only if they share no page.
LEMMA OffPages ==
    ASSUME NEW a \in Span, NEW b \in Span
    PROVE  /\ Off(a, b) <=> \A x \in Nat : ~ (In(x, a) /\ In(x, b))
           /\ Off(a, b) <=> Off(b, a)
           /\ Off(a, b) <=> Pages(a) \cap Pages(b) = {}
<1>1. a[1] \in Nat /\ a[2] \in Nat /\ b[1] \in Nat /\ b[2] \in Nat BY SpanParts
<1>2. ASSUME Off(a, b), NEW x \in Nat PROVE ~ (In(x, a) /\ In(x, b)) BY <1>1, <1>2 DEF Off, In
<1>3. ASSUME ~ Off(a, b) PROVE \E x \in Nat : In(x, a) /\ In(x, b)
  <2>1. CASE a[1] <= b[1]
    <3>1. In(b[1], a) /\ In(b[1], b) BY <1>1, <1>3, <2>1 DEF Off, In
    <3>2. QED BY <1>1, <3>1
  <2>2. CASE b[1] <= a[1]
    <3>1. In(a[1], a) /\ In(a[1], b) BY <1>1, <1>3, <2>2 DEF Off, In
    <3>2. QED BY <1>1, <3>1
  <2>3. QED BY <1>1, <2>1, <2>2
<1>4. Off(a, b) <=> Off(b, a) BY DEF Off
<1>5. Off(a, b) <=> Pages(a) \cap Pages(b) = {} BY <1>2, <1>3, PagesIn
<1>6. QED BY <1>2, <1>3, <1>4, <1>5

\* The parts of the range of no pages.
LEMMA NoRangeParts == NoRange \in Span /\ NoRange[1] = 0 /\ NoRange[2] = 0
BY DEF NoRange, Span

\* The minimum of a set of naturals.
LEMMA MinIn ==
    ASSUME NEW S, S \subseteq Nat, S # {}
    PROVE  Min(S) \in S /\ \A y \in S : Min(S) <= y
<1>1. \E x \in S : \A y \in S : x <= y BY NatMinimum
<1>2. QED BY <1>1 DEF Min

\* The first best fit is one of the fits.
LEMMA BestFitFits ==
    ASSUME NEW p \in VmPoolType, NEW n \in Nat, Fits(p, n) # {}
    PROVE  BestFit(p, n) \in Entries /\ p.free[BestFit(p, n)][2] >= n
<1> DEFINE F == Fits(p, n)
           L == {p.free[i][2] : i \in F}
<1>1. F \subseteq Entries /\ \A i \in F : p.free[i][2] >= n BY DEF Fits
<1>2. \A i \in Entries : p.free[i][2] \in Nat /\ i \in Nat BY SpanParts, VmoAssumption DEF VmPoolType, Entries
<1>3. PICK l \in L : \A k \in L : l <= k
  <2>1. L \subseteq Nat /\ L # {} BY <1>1, <1>2
  <2> HIDE DEF L
  <2>2. QED BY <2>1, NatMinimum
<1> DEFINE B == {i \in F : p.free[i][2] = l}
<1>4. PICK i \in B : \A j \in B : i <= j
  <2>1. B \subseteq Nat /\ B # {} BY <1>1, <1>2, <1>3
  <2> HIDE DEF B
  <2>2. QED BY <2>1, NatMinimum
<1>5. i \in F /\ p.free[i][2] = l BY <1>4
<1>6. ASSUME NEW j \in F
      PROVE  p.free[i][2] < p.free[j][2] \/ (p.free[i][2] = p.free[j][2] /\ i <= j)
  <2>1. l <= p.free[j][2] BY <1>3
  <2>2. l = p.free[j][2] => i <= j BY <1>4
  <2>3. l \in Nat /\ p.free[j][2] \in Nat BY <1>1, <1>2, <1>5
  <2>4. QED BY <1>5, <2>1, <2>2, <2>3
<1>7. BestFit(p, n) \in F BY <1>5, <1>6 DEF BestFit
<1>8. QED BY <1>1, <1>7

(* What the pass makes of a list and a range. *)
JoinType == [free : [Entries -> Span], range : Span]
JoinedTo(list, range, acc) ==
    /\ acc \in JoinType /\ acc.range[2] > 0
    /\ \A i \in Entries : acc.free[i] = list[i] \/ acc.free[i] = NoRange
    /\ \A x \in Nat : In(x, acc.range)
           <=> In(x, range) \/ \E i \in Entries : acc.free[i] = NoRange /\ In(x, list[i])

\* A list and a range stay what they are.
LEMMA JoinEntryType ==
    ASSUME NEW acc \in JoinType, NEW i \in Entries
    PROVE  JoinEntry(acc, i) \in JoinType
<1> DEFINE e == acc.free[i]
           r == acc.range
<1>1. e \in Span /\ r \in Span BY DEF JoinType
<1>2. e[1] \in Nat /\ e[2] \in Nat /\ r[1] \in Nat /\ r[2] \in Nat BY <1>1, SpanParts
<1>3. <<e[1], e[2] + r[2]>> \in Span /\ <<r[1], r[2] + e[2]>> \in Span BY <1>2 DEF Span
<1>4. [acc.free EXCEPT ![i] = NoRange] \in [Entries -> Span] BY NoRangeParts DEF JoinType
<1>5. QED BY <1>3, <1>4 DEF JoinEntry, JoinType

\* One entry of the pass.
LEMMA JoinEntryKeeps ==
    ASSUME NEW list \in [Entries -> Span], NEW range \in Span, NEW acc, NEW i \in Entries,
           JoinedTo(list, range, acc)
    PROVE  JoinedTo(list, range, JoinEntry(acc, i))
<1> DEFINE e == acc.free[i]
           r == acc.range
           new == JoinEntry(acc, i)
<1>1. new \in JoinType /\ acc \in JoinType BY JoinEntryType DEF JoinedTo
<1>2. e \in Span /\ r \in Span /\ r[2] > 0 BY <1>1 DEF JoinedTo, JoinType
<1>3. e[1] \in Nat /\ e[2] \in Nat /\ r[1] \in Nat /\ r[2] \in Nat BY <1>2, SpanParts
<1>4. CASE new = acc BY <1>4
<1>5. CASE new # acc
  <2>1. /\ e # NoRange /\ e = list[i]
        /\ new.free = [acc.free EXCEPT ![i] = NoRange]
        /\ \/ e[1] + e[2] = r[1] /\ new.range = <<e[1], e[2] + r[2]>>
           \/ r[1] + r[2] = e[1] /\ new.range = <<r[1], r[2] + e[2]>>
    BY <1>5 DEF JoinEntry, JoinedTo
  <2>2. \A x \in Nat : In(x, new.range) <=> In(x, e) \/ In(x, r)
    BY <1>3, <2>1 DEF In
  <2>3. new.range[2] > 0 BY <1>2, <1>3, <2>1
  <2>4. /\ new.free[i] = NoRange
        /\ \A j \in Entries : j # i => new.free[j] = acc.free[j]
    BY <1>1, <2>1 DEF JoinType
  <2> HIDE DEF new
  <2>5. \A j \in Entries : new.free[j] = list[j] \/ new.free[j] = NoRange
    BY <2>4 DEF JoinedTo
  <2>6. ASSUME NEW x \in Nat
        PROVE  In(x, new.range)
                 <=> In(x, range) \/ \E j \in Entries : new.free[j] = NoRange /\ In(x, list[j])
    <3>1. In(x, r) <=> In(x, range) \/ \E j \in Entries : acc.free[j] = NoRange /\ In(x, list[j])
      BY DEF JoinedTo
    <3>2. (\E j \in Entries : new.free[j] = NoRange /\ In(x, list[j]))
            <=> In(x, list[i]) \/ \E j \in Entries : acc.free[j] = NoRange /\ In(x, list[j])
      BY <2>1, <2>4
    <3>3. QED BY <2>1, <2>2, <3>1, <3>2
  <2>7. JoinedTo(list, range, new) BY <1>1, <2>3, <2>5, <2>6 DEF JoinedTo
  <2>8. QED BY <2>7 DEF new
<1>6. QED BY <1>4, <1>5

\* The pass joins the range with entries that it takes out of the list.
LEMMA CoalescedJoins ==
    ASSUME NEW list \in [Entries -> Span], NEW range \in Span, range[2] > 0,
           \A i \in Entries : list[i] = NoRange \/ list[i][2] > 0
    PROVE  JoinedTo(list, range, Coalesced(list, range))
<1> DEFINE n == FreeSlots
           base == [free |-> list, range |-> range]
           step == [x \in (1..n) \X JoinType |-> JoinEntry(x[2], x[1])]
           Body(h) == [i \in 0..n |-> IF i = 0 THEN base ELSE JoinEntry(h[i - 1], i)]
           c == CHOOSE h : h = Body(h)
<1>1. n \in Nat /\ Entries = 1..n BY VmoAssumption DEF Entries
<1>2. base \in JoinType BY DEF JoinType
<1>3. step \in [(1..n) \X JoinType -> JoinType] BY <1>1, JoinEntryType
<1>4. PICK f : DefinedTo(f, n, JoinType, base, step)
  <2> HIDE DEF step, n, base
  <2> QED BY <1>1, <1>2, <1>3, RecursionTo
<1> HIDE DEF base
<1>5. ASSUME NEW i \in 1..n PROVE f[i] = JoinEntry(f[i - 1], i)
  <2>1. i - 1 \in 0..n BY <1>1
  <2>2. <<i, f[i - 1]>> \in (1..n) \X JoinType BY <1>4, <2>1 DEF DefinedTo
  <2>3. QED BY <1>4, <2>2 DEF DefinedTo
<1>6. f = Body(f)
  <2>1. \A k \in 0..n : k = 0 \/ k \in 1..n BY <1>1
  <2>2. f \in [0..n -> JoinType] /\ f[0] = base BY <1>4 DEF DefinedTo
  <2>3. ASSUME NEW k \in 0..n PROVE f[k] = Body(f)[k] BY <1>5, <2>1, <2>2
  <2>4. QED BY <2>2, <2>3
<1>7. c = Body(c) BY <1>6
<1>8. Coalesced(list, range) = c[n] BY DEF Coalesced, base
<1> HIDE DEF c
<1> DEFINE S == {k \in 0..n : JoinedTo(list, range, c[k])}
<1>9. 0 \in S
  <2>1. c[0] = base BY <1>1, <1>7
  <2>2. base.free = list /\ base.range = range BY DEF base
  <2>3. \A i \in Entries : list[i] = NoRange => \A x \in Nat : ~ In(x, list[i])
    BY NoRangeParts DEF In
  <2>4. JoinedTo(list, range, base) BY <1>2, <2>2, <2>3 DEF JoinedTo
  <2>5. QED BY <1>1, <2>1, <2>4
<1>10. ASSUME NEW k \in 0..n, k # n, k \in S PROVE k + 1 \in S
  <2>1. k + 1 \in 1..n /\ k + 1 \in 0..n /\ k + 1 # 0 /\ (k + 1) - 1 = k BY <1>1, <1>10
  <2>2. c[k + 1] = JoinEntry(c[k], k + 1) BY <1>7, <2>1
  <2>3. JoinedTo(list, range, c[k]) BY <1>10
  <2>4. JoinedTo(list, range, JoinEntry(c[k], k + 1)) BY <1>1, <2>1, <2>3, JoinEntryKeeps
  <2>5. QED BY <2>1, <2>2, <2>4
<1>11. \A k \in 0..n : k \in S
  <2> HIDE DEF S
  <2> QED BY <1>1, <1>9, <1>10, InductionTo
<1>12. n \in S BY <1>1, <1>11
<1>13. QED BY <1>8, <1>12

(* A step of the pool from p to q that leaves what is handed out alone. *)
PoolStep(p, q) == PoolOK(q) /\ \A u : Taken(p, u) => Taken(q, u)

\* The parts of a pool.
LEMMA PoolParts ==
    ASSUME NEW p, PoolOK(p)
    PROVE  /\ p \in VmPoolType /\ p.next \in Nat /\ p.zeroed \in Nat /\ p.leaked \in Nat
           /\ p.stale \subseteq Nat /\ p.free \in [Entries -> Span] /\ p.dirty \in [Entries -> Span]
BY DEF PoolOK, VmPoolType

\* A list with one entry replaced.
LEMMA ListWith ==
    ASSUME NEW list, NEW next \in Nat, ListOK(list, next), NEW i \in Entries, NEW r \in Span,
           r = NoRange \/ (r[2] > 0 /\ r[1] + r[2] <= next),
           \A j \in Entries : j # i => Off(r, list[j])
    PROVE  ListOK([list EXCEPT ![i] = r], next)
<1> DEFINE l == [list EXCEPT ![i] = r]
<1>1. list \in [Entries -> Span] BY DEF ListOK
<1>2. l \in [Entries -> Span] /\ l[i] = r /\ \A j \in Entries : j # i => l[j] = list[j] BY <1>1
<1> HIDE DEF l
<1>3. \A j \in Entries : l[j] = NoRange \/ (l[j][2] > 0 /\ l[j][1] + l[j][2] <= next)
  BY <1>2 DEF ListOK
<1>4. ASSUME NEW j \in Entries, NEW k \in Entries, j # k PROVE Off(l[j], l[k])
  <2>1. CASE j = i BY <1>2, <1>4, <2>1
  <2>2. CASE k = i
    <3>1. Off(r, list[j]) BY <1>4, <2>2
    <3>2. Off(list[j], r) BY <1>1, <3>1, OffPages
    <3>3. QED BY <1>2, <1>4, <2>2, <3>2
  <2>3. CASE j # i /\ k # i BY <1>2, <1>4, <2>3 DEF ListOK
  <2>4. QED BY <2>1, <2>2, <2>3
<1>5. ListOK(l, next) BY <1>2, <1>3, <1>4 DEF ListOK
<1>6. QED BY <1>5 DEF l

\* A range apart from another is apart from a part of it.
LEMMA OffPart ==
    ASSUME NEW a \in Span, NEW b \in Span, NEW c \in Span, Off(a, b), b[1] <= c[1],
           c[1] + c[2] <= b[1] + b[2]
    PROVE  Off(a, c)
<1>1. a[1] \in Nat /\ a[2] \in Nat /\ b[1] \in Nat /\ b[2] \in Nat /\ c[1] \in Nat /\ c[2] \in Nat
  BY SpanParts
<1>2. QED BY <1>1 DEF Off

(* What allocate_nozero gives. *)
Allocated(p, n, got) ==
    /\ PoolOK(got.pool) /\ got.range \in Span /\ got.range[2] = n
    /\ Taken(got.pool, got.range)
    /\ \A u : Taken(p, u) => Taken(got.pool, u) /\ Off(u, got.range)
    /\ got.pool.stale = p.stale
    /\ ~ got.zero => \A x \in Nat : In(x, got.range) => x \notin p.stale

\* A range out of the clean list.
LEMMA AllocateFromList ==
    ASSUME NEW p, PoolOK(p), NEW n \in Nat, n > 0, Fits(p, n) # {}
    PROVE  Allocated(p, n, AllocateNozero(p, n))
<1> DEFINE i == BestFit(p, n)
           r == p.free[i]
           rest == IF r[2] > n THEN <<r[1] + n, r[2] - n>> ELSE NoRange
           range == <<r[1], n>>
           l == [p.free EXCEPT ![i] = rest]
           q == [p EXCEPT !.free = l]
           got == AllocateNozero(p, n)
<1>1. /\ p \in VmPoolType /\ p.next \in Nat /\ p.zeroed \in Nat
      /\ p.free \in [Entries -> Span] /\ p.dirty \in [Entries -> Span]
  BY PoolParts
<1>2. i \in Entries /\ r[2] >= n BY <1>1, BestFitFits
<1>3. r \in Span /\ r[1] \in Nat /\ r[2] \in Nat /\ r # NoRange
  BY <1>1, <1>2, SpanParts, NoRangeParts
<1>4. r[2] > 0 /\ r[1] + r[2] <= p.next BY <1>2, <1>3 DEF PoolOK, ListOK
<1>5. /\ got.range = range /\ got.zero = FALSE
      /\ got.pool = [p EXCEPT !.free[i] = rest]
  BY DEF AllocateNozero
<1>6. got.pool = q BY <1>5
<1>7. /\ q \in VmPoolType /\ q.next = p.next /\ q.free = l /\ q.dirty = p.dirty
      /\ q.stale = p.stale /\ q.zeroed = p.zeroed
  <2>1. rest \in Span BY <1>3, NoRangeParts DEF Span
  <2> HIDE DEF rest
  <2>2. l \in [Entries -> Span] BY <1>1, <2>1
  <2> HIDE DEF l
  <2>3. QED BY <1>1, <2>2 DEF VmPoolType
<1>8. /\ rest \in Span /\ (rest = NoRange \/ (rest[2] > 0 /\ rest[1] + rest[2] <= p.next))
      /\ rest # NoRange => r[1] <= rest[1] /\ rest[1] + rest[2] <= r[1] + r[2]
  BY <1>2, <1>3, <1>4, NoRangeParts DEF Span
<1>9. range \in Span /\ range[1] = r[1] /\ range[2] = n /\ Off(range, rest)
  BY <1>2, <1>3, NoRangeParts DEF Span, Off
<1>10. l[i] = rest /\ \A j \in Entries : j # i => l[j] = p.free[j] BY <1>1, <1>2
<1> HIDE DEF rest, range, l, q, i, r, got
<1>11. ASSUME NEW u \in Span, Off(u, r) PROVE Off(u, rest) /\ Off(u, range)
  <2>1. Off(u, range) BY <1>2, <1>3, <1>9, <1>11, OffPart
  <2>2. CASE rest = NoRange BY <2>1, <2>2, NoRangeParts DEF Off
  <2>3. CASE rest # NoRange BY <1>3, <1>8, <1>11, <2>1, <2>3, OffPart
  <2>4. QED BY <2>2, <2>3
<1>12. \A j \in Entries : j # i => Off(r, p.free[j]) /\ Off(p.free[j], r)
  BY <1>2 DEF PoolOK, ListOK, r
<1>13. \A j \in Entries : p.free[j] \in Span /\ p.dirty[j] \in Span /\ Off(r, p.dirty[j]) /\ Off(p.dirty[j], r)
  BY <1>1, <1>2, <1>3, OffPages DEF PoolOK, r
<1>14. ListOK(l, p.next)
  <2>1. \A j \in Entries : j # i => Off(rest, p.free[j]) BY <1>8, <1>11, <1>12, <1>13, OffPages
  <2>2. QED BY <1>1, <1>2, <1>8, <2>1, ListWith DEF PoolOK, l
<1>15. \A j, k \in Entries : Off(l[j], p.dirty[k])
  <2>1. \A k \in Entries : Off(rest, p.dirty[k]) BY <1>8, <1>11, <1>13, OffPages
  <2>2. QED BY <1>10, <2>1 DEF PoolOK
<1>16. \A x \in Nat : In(x, rest) \/ In(x, range) => In(x, r)
  <2>1. \A x \in Nat : In(x, range) => In(x, r) BY <1>2, <1>3, <1>9 DEF In
  <2>2. CASE rest = NoRange BY <2>1, <2>2, NoRangeParts DEF In
  <2>3. CASE rest # NoRange
    <3>1. rest[1] \in Nat /\ rest[2] \in Nat BY <1>8, SpanParts
    <3>2. QED BY <1>3, <1>8, <2>1, <2>3, <3>1 DEF In
  <2>4. QED BY <2>2, <2>3
<1>17. Clean(q)
  <2>1. \A x \in Nat : In(x, r) => x \notin p.stale BY <1>2 DEF PoolOK, Clean, r
  <2>2. ASSUME NEW j \in Entries, NEW x \in Nat, In(x, l[j]) PROVE x \notin p.stale
    BY <1>10, <1>16, <2>1, <2>2 DEF PoolOK, Clean
  <2>3. QED BY <1>7, <2>2 DEF PoolOK, Clean
<1>18. PoolOK(q) BY <1>7, <1>14, <1>15, <1>17 DEF PoolOK
<1>19. Taken(q, range)
  <2>1. \A j \in Entries : Off(range, l[j])
    <3>1. ASSUME NEW j \in Entries, j # i PROVE Off(range, l[j])
      BY <1>9, <1>10, <1>11, <1>12, <1>13, <3>1, OffPages
    <3>2. QED BY <1>9, <1>10, <3>1
  <2>2. \A j \in Entries : Off(range, p.dirty[j]) BY <1>9, <1>11, <1>13, OffPages
  <2>3. QED BY <1>1, <1>2, <1>3, <1>4, <1>7, <1>9, <2>1, <2>2 DEF Taken
<1>20. ASSUME NEW u, Taken(p, u) PROVE Taken(q, u) /\ Off(u, range)
  <2>1. u \in Span /\ Off(u, r) BY <1>2, <1>20 DEF Taken, r
  <2>2. Off(u, rest) /\ Off(u, range) BY <1>11, <2>1
  <2>3. \A j \in Entries : Off(u, l[j]) BY <1>10, <1>20, <2>2 DEF Taken
  <2>4. QED BY <1>7, <1>20, <2>2, <2>3 DEF Taken
<1>21. \A x \in Nat : In(x, range) => x \notin p.stale
  BY <1>2, <1>16 DEF PoolOK, Clean, r
<1>22. Allocated(p, n, got) BY <1>5, <1>6, <1>7, <1>9, <1>18, <1>19, <1>20, <1>21 DEF Allocated
<1>23. QED BY <1>22 DEF got

\* A range from the frontier.
LEMMA AllocateFromFrontier ==
    ASSUME NEW p, PoolOK(p), NEW n \in Nat, n > 0, Fits(p, n) = {}, p.next + n <= Arena
    PROVE  Allocated(p, n, AllocateNozero(p, n))
<1> DEFINE range == <<p.next, n>>
           q == [p EXCEPT !.next = @ + n]
           got == AllocateNozero(p, n)
<1>1. /\ p \in VmPoolType /\ p.next \in Nat /\ p.zeroed \in Nat
      /\ p.free \in [Entries -> Span] /\ p.dirty \in [Entries -> Span]
  BY PoolParts
<1>2. got.range = range /\ got.zero = (p.zeroed < p.next + n) /\ got.pool = q
  BY DEF AllocateNozero
<1>3. /\ q \in VmPoolType /\ q.next = p.next + n /\ q.free = p.free /\ q.dirty = p.dirty
      /\ q.stale = p.stale /\ q.zeroed = p.zeroed
  BY <1>1 DEF VmPoolType
<1>4. range \in Span /\ range[1] = p.next /\ range[2] = n BY <1>1 DEF Span
<1> HIDE DEF range, q, got
<1>5. \A j \in Entries : p.free[j] \in Span /\ p.dirty[j] \in Span BY <1>1
<1>6. ASSUME NEW list, ListOK(list, p.next)
      PROVE  ListOK(list, q.next) /\ \A j \in Entries : Off(range, list[j])
  <2>1. ASSUME NEW j \in Entries
        PROVE  /\ list[j] = NoRange \/ (list[j][2] > 0 /\ list[j][1] + list[j][2] <= q.next)
               /\ Off(range, list[j])
    <3>1. list[j] \in Span BY <1>6 DEF ListOK
    <3>2. list[j][1] \in Nat /\ list[j][2] \in Nat BY <3>1, SpanParts
    <3>3. list[j] = NoRange \/ (list[j][2] > 0 /\ list[j][1] + list[j][2] <= p.next)
      BY <1>6 DEF ListOK
    <3>4. CASE list[j] = NoRange BY <3>4, NoRangeParts DEF Off
    <3>5. CASE list[j] # NoRange BY <1>1, <1>3, <1>4, <3>2, <3>3, <3>5 DEF Off
    <3>6. QED BY <3>4, <3>5
  <2>2. QED BY <1>6, <2>1 DEF ListOK
<1>7. Clean(q) BY <1>1, <1>3 DEF PoolOK, Clean
<1>8. PoolOK(q) BY <1>1, <1>3, <1>6, <1>7 DEF PoolOK
<1>9. Taken(q, range) BY <1>1, <1>3, <1>4, <1>6 DEF Taken, PoolOK
<1>10. ASSUME NEW u, Taken(p, u) PROVE Taken(q, u) /\ Off(u, range)
  <2>1. u \in Span /\ u[1] + u[2] <= p.next BY <1>10 DEF Taken
  <2>2. u[1] \in Nat /\ u[2] \in Nat BY <2>1, SpanParts
  <2>3. u[1] + u[2] <= q.next /\ Off(u, range) BY <1>1, <1>3, <1>4, <2>1, <2>2 DEF Off
  <2>4. QED BY <1>3, <1>10, <2>3 DEF Taken
<1>11. p.zeroed >= p.next + n => \A x \in Nat : In(x, range) => x \notin p.stale
  BY <1>1, <1>4 DEF In, PoolOK, Clean
<1>12. ~ got.zero => p.zeroed >= p.next + n
  <2>1. ~ got.zero => ~ (p.zeroed < p.next + n) BY <1>2, Zenon
  <2>2. QED BY <1>1, <2>1
<1>13. Allocated(p, n, got) BY <1>2, <1>3, <1>4, <1>8, <1>9, <1>10, <1>11, <1>12 DEF Allocated
<1>14. QED BY <1>13 DEF got

\* allocate_nozero.
LEMMA Allocates ==
    ASSUME NEW p, PoolOK(p), NEW n \in Nat, n > 0, CanAllocate(p, n)
    PROVE  Allocated(p, n, AllocateNozero(p, n))
BY AllocateFromList, AllocateFromFrontier DEF CanAllocate

\* Below a frontier that comes down to the range r are the ranges apart from r.
LEMMA BelowTop ==
    ASSUME NEW u \in Span, NEW r \in Span, NEW next \in Nat, r[1] + r[2] = next, r[2] > 0,
           u[2] > 0, u[1] + u[2] <= next, Off(u, r)
    PROVE  u[1] + u[2] <= r[1]
<1>1. u[1] \in Nat /\ u[2] \in Nat /\ r[1] \in Nat /\ r[2] \in Nat BY SpanParts
<1>2. QED BY <1>1 DEF Off

\* A list whose frontier comes down to a range that is apart from it.
LEMMA ListBelow ==
    ASSUME NEW list, NEW next \in Nat, ListOK(list, next), NEW r \in Span, r[1] + r[2] = next,
           r[2] > 0, \A i \in Entries : Off(r, list[i])
    PROVE  ListOK(list, r[1])
<1>1. ASSUME NEW i \in Entries, list[i] # NoRange PROVE list[i][2] > 0 /\ list[i][1] + list[i][2] <= r[1]
  <2>1. list[i] \in Span /\ list[i][2] > 0 /\ list[i][1] + list[i][2] <= next BY <1>1 DEF ListOK
  <2>2. Off(list[i], r) BY <2>1, OffPages
  <2>3. QED BY <2>1, <2>2, BelowTop
<1>2. QED BY <1>1 DEF ListOK

\* A range comes back to the frontier.
LEMMA FreeToFrontier ==
    ASSUME NEW p, PoolOK(p), NEW r, Taken(p, r), r[1] + r[2] = p.next
    PROVE  LET q == [p EXCEPT !.next = r[1], !.zeroed = Min({@, r[1]})]
           IN  /\ PoolOK(q) /\ q.stale = p.stale /\ q.next = r[1] /\ q.free = p.free
               /\ q.dirty = p.dirty /\ q.leaked = p.leaked
               /\ \A u : Taken(p, u) /\ Off(u, r) => Taken(q, u)
<1> DEFINE z == Min({p.zeroed, r[1]})
           q == [p EXCEPT !.next = r[1], !.zeroed = z]
<1>1. /\ p \in VmPoolType /\ p.next \in Nat /\ p.zeroed \in Nat
      /\ p.free \in [Entries -> Span] /\ p.dirty \in [Entries -> Span]
  BY PoolParts
<1>2. r \in Span /\ r[2] > 0 /\ r[1] \in Nat /\ r[2] \in Nat BY SpanParts DEF Taken
<1>3. z = IF p.zeroed <= r[1] THEN p.zeroed ELSE r[1] BY <1>1, <1>2, MinOfTwo
<1> HIDE DEF z
<1>4. z \in Nat /\ z <= r[1] BY <1>1, <1>2, <1>3
<1>5. /\ q \in VmPoolType /\ q.next = r[1] /\ q.free = p.free /\ q.dirty = p.dirty
      /\ q.stale = p.stale /\ q.zeroed = z /\ q.leaked = p.leaked
  BY <1>1, <1>2, <1>4 DEF VmPoolType
<1> HIDE DEF q
<1>6. ListOK(q.free, q.next) /\ ListOK(q.dirty, q.next)
  BY <1>1, <1>2, <1>5, ListBelow DEF PoolOK, Taken
<1>7. Clean(q) BY <1>2, <1>4, <1>5 DEF PoolOK, Clean
<1>8. q.next <= Arena
  <2>1. p.next <= Arena /\ Arena \in Nat BY VmoAssumption DEF PoolOK
  <2>2. QED BY <1>1, <1>2, <1>5, <2>1
<1>9. PoolOK(q) BY <1>5, <1>6, <1>7, <1>8 DEF PoolOK
<1>10. ASSUME NEW u, Taken(p, u), Off(u, r) PROVE Taken(q, u)
  <2>1. u \in Span /\ u[2] > 0 /\ u[1] + u[2] <= p.next BY <1>10 DEF Taken
  <2>2. u[1] + u[2] <= r[1] BY <1>1, <1>2, <1>10, <2>1, BelowTop
  <2>3. QED BY <1>5, <1>10, <2>1, <2>2 DEF Taken
<1>11. QED BY <1>5, <1>9, <1>10 DEF q, z

\* A range goes into an entry of the dirty list that is not used.
LEMMA FreeToDirty ==
    ASSUME NEW p, PoolOK(p), NEW r, Taken(p, r), NEW i \in Entries, p.dirty[i] = NoRange
    PROVE  LET q == [p EXCEPT !.dirty[i] = r]
           IN  /\ PoolOK(q) /\ q.stale = p.stale /\ q.next = p.next /\ q.free = p.free
               /\ q.dirty = [p.dirty EXCEPT ![i] = r] /\ q.leaked = p.leaked
               /\ \A u : Taken(p, u) /\ Off(u, r) => Taken(q, u)
<1> DEFINE l == [p.dirty EXCEPT ![i] = r]
           q == [p EXCEPT !.dirty = l]
<1>1. /\ p \in VmPoolType /\ p.next \in Nat /\ p.free \in [Entries -> Span]
      /\ p.dirty \in [Entries -> Span] /\ r \in Span
  BY PoolParts DEF Taken
<1>2. l \in [Entries -> Span] /\ l[i] = r /\ \A j \in Entries : j # i => l[j] = p.dirty[j] BY <1>1
<1>3. ListOK(l, p.next) BY <1>1, ListWith DEF PoolOK, Taken
<1> HIDE DEF l
<1>4. /\ q \in VmPoolType /\ q.next = p.next /\ q.free = p.free /\ q.dirty = l
      /\ q.stale = p.stale /\ q.zeroed = p.zeroed /\ q.leaked = p.leaked
  BY <1>1, <1>2 DEF VmPoolType
<1>5. q = [p EXCEPT !.dirty[i] = r] BY DEF l
<1> HIDE DEF q
<1>6. \A j, k \in Entries : Off(p.free[j], l[k])
  <2>1. \A j \in Entries : Off(p.free[j], r) BY <1>1, OffPages DEF Taken
  <2>2. QED BY <1>2, <2>1 DEF PoolOK
<1>7. Clean(q) BY <1>4 DEF PoolOK, Clean
<1>8. PoolOK(q) BY <1>3, <1>4, <1>6, <1>7 DEF PoolOK
<1>9. ASSUME NEW u, Taken(p, u), Off(u, r) PROVE Taken(q, u)
  BY <1>2, <1>4, <1>9 DEF Taken
<1>10. QED BY <1>4, <1>5, <1>8, <1>9 DEF l

\* A clean range goes to the clean list, or is leaked.
LEMMA PlacedKeeps ==
    ASSUME NEW p, PoolOK(p), NEW r, Taken(p, r), \A x \in Nat : In(x, r) => x \notin p.stale
    PROVE  LET q == Placed(p, r)
           IN  /\ PoolOK(q) /\ q.stale = p.stale /\ q.next = p.next /\ q.dirty = p.dirty
               /\ \A u : Taken(p, u) /\ Off(u, r) => Taken(q, u)
               /\ \/ /\ \A i \in Entries : p.free[i] # NoRange
                     /\ q.free = p.free /\ q.leaked = p.leaked + r[2]
                  \/ \E i \in Entries : /\ p.free[i] = NoRange /\ q.leaked = p.leaked
                                          /\ q.free = [p.free EXCEPT ![i] = r]
<1>1. /\ p \in VmPoolType /\ p.next \in Nat /\ p.free \in [Entries -> Span] /\ p.leaked \in Nat
      /\ p.dirty \in [Entries -> Span] /\ r \in Span /\ r[2] \in Nat
  BY PoolParts, SpanParts DEF Taken
<1>2. CASE EmptyEntries(p.free) = {}
  <2> DEFINE q == [p EXCEPT !.leaked = @ + r[2]]
  <2>1. Placed(p, r) = q BY <1>2 DEF Placed
  <2>2. /\ q \in VmPoolType /\ q.next = p.next /\ q.free = p.free /\ q.dirty = p.dirty
        /\ q.stale = p.stale /\ q.zeroed = p.zeroed /\ q.leaked = p.leaked + r[2]
    BY <1>1 DEF VmPoolType
  <2> HIDE DEF q
  <2>3. PoolOK(q) BY <2>2 DEF PoolOK, Clean
  <2>4. \A u : Taken(p, u) => Taken(q, u) BY <2>2 DEF Taken
  <2>5. \A i \in Entries : p.free[i] # NoRange BY <1>2 DEF EmptyEntries
  <2>6. QED BY <2>1, <2>2, <2>3, <2>4, <2>5
<1>3. CASE EmptyEntries(p.free) # {}
  <2> DEFINE i == Min(EmptyEntries(p.free))
             l == [p.free EXCEPT ![i] = r]
             q == [p EXCEPT !.free = l]
  <2>1. i \in Entries /\ p.free[i] = NoRange
    <3>1. EmptyEntries(p.free) \subseteq Nat BY VmoAssumption DEF EmptyEntries, Entries
    <3>2. i \in EmptyEntries(p.free) BY <1>3, <3>1, MinIn
    <3>3. QED BY <3>2 DEF EmptyEntries
  <2>2. Placed(p, r) = [p EXCEPT !.free[i] = r] BY <1>3 DEF Placed
  <2> HIDE DEF i
  <2>3. l \in [Entries -> Span] /\ l[i] = r /\ \A j \in Entries : j # i => l[j] = p.free[j]
    BY <1>1, <2>1
  <2>4. ListOK(l, p.next) BY <1>1, <2>1, ListWith DEF PoolOK, Taken
  <2>5. Placed(p, r) = q BY <2>2
  <2> HIDE DEF l
  <2>6. /\ q \in VmPoolType /\ q.next = p.next /\ q.free = l /\ q.dirty = p.dirty
        /\ q.stale = p.stale /\ q.zeroed = p.zeroed /\ q.leaked = p.leaked
    BY <1>1, <2>3 DEF VmPoolType
  <2> HIDE DEF q
  <2>7. \A j, k \in Entries : Off(l[j], p.dirty[k]) BY <2>3 DEF PoolOK, Taken
  <2>8. Clean(q) BY <2>3, <2>6 DEF PoolOK, Clean
  <2>9. PoolOK(q) BY <2>4, <2>6, <2>7, <2>8 DEF PoolOK
  <2>10. ASSUME NEW u, Taken(p, u), Off(u, r) PROVE Taken(q, u)
    BY <2>3, <2>6, <2>10 DEF Taken
  <2>11. q.free = [p.free EXCEPT ![i] = r] BY <2>6 DEF l
  <2>12. QED BY <2>1, <2>5, <2>6, <2>9, <2>10, <2>11
<1>4. QED BY <1>2, <1>3

(* What free does with a range. *)
Freed(p, r, q) ==
    /\ PoolOK(q) /\ q.stale \subseteq p.stale /\ p.stale \subseteq q.stale \cup Pages(r)
    /\ \A u : Taken(p, u) /\ Off(u, r) => Taken(q, u)
    /\ \/ q.next = r[1] /\ r[1] + r[2] = p.next /\ q.free = p.free /\ q.dirty = p.dirty
              /\ q.leaked = p.leaked
       \/ /\ q.next = p.next /\ q.free = p.free /\ q.leaked = p.leaked
          /\ \E i \in Entries : p.dirty[i] = NoRange /\ q.dirty = [p.dirty EXCEPT ![i] = r]
       \/ /\ q.next = p.next /\ q.dirty = p.dirty /\ q.leaked = p.leaked
          /\ \E i \in Entries : p.free[i] = NoRange /\ q.free = [p.free EXCEPT ![i] = r]
       \/ /\ q.next = p.next /\ q.dirty = p.dirty /\ q.free = p.free
          /\ q.leaked = p.leaked + r[2]

\* VmoPool::free of a range that is handed out is not rejected, and puts it
\* back where nothing else is.
LEMMA Frees ==
    ASSUME NEW p, PoolOK(p), NEW r, Taken(p, r)
    PROVE  ~ Rejected(p, r) /\ Freed(p, r, PoolFree(p, r))
<1>1. /\ p \in VmPoolType /\ p.next \in Nat /\ p.zeroed \in Nat /\ p.stale \subseteq Nat
      /\ p.free \in [Entries -> Span] /\ p.dirty \in [Entries -> Span]
  BY PoolParts
<1>2. r \in Span /\ r[1] \in Nat /\ r[2] \in Nat /\ r[1] + r[2] <= p.next BY SpanParts DEF Taken
<1>3. ~ Rejected(p, r)
  <2>1. ASSUME NEW i \in Entries
        PROVE  Pages(r) \cap Pages(p.free[i]) = {} /\ Pages(r) \cap Pages(p.dirty[i]) = {}
    BY <1>1, <1>2, OffPages DEF Taken
  <2>2. ~ (r[1] + r[2] > p.next) BY <1>1, <1>2
  <2>3. QED BY <2>1, <2>2 DEF Rejected
<1>4. CASE r[1] + r[2] = p.next
  <2>1. PoolFree(p, r) = [p EXCEPT !.next = r[1], !.zeroed = Min({@, r[1]})]
    BY <1>3, <1>4 DEF PoolFree
  <2>2. PICK q : q = [p EXCEPT !.next = r[1], !.zeroed = Min({@, r[1]})] OBVIOUS
  <2>3. /\ PoolOK(q) /\ q.stale = p.stale /\ q.next = r[1] /\ q.free = p.free
        /\ q.dirty = p.dirty /\ q.leaked = p.leaked
        /\ \A u : Taken(p, u) /\ Off(u, r) => Taken(q, u)
    BY <1>4, <2>2, FreeToFrontier
  <2>4. Freed(p, r, q) BY <1>4, <2>3 DEF Freed
  <2>5. QED BY <1>3, <2>1, <2>2, <2>4
<1>5. CASE r[1] + r[2] # p.next /\ EmptyEntries(p.dirty) # {}
  <2> DEFINE i == Min(EmptyEntries(p.dirty))
  <2>1. PoolFree(p, r) = [p EXCEPT !.dirty[i] = r] BY <1>3, <1>5 DEF PoolFree
  <2>2. i \in Entries /\ p.dirty[i] = NoRange
    <3>1. EmptyEntries(p.dirty) \subseteq Nat BY VmoAssumption DEF EmptyEntries, Entries
    <3>2. i \in EmptyEntries(p.dirty) BY <1>5, <3>1, MinIn
    <3>3. QED BY <3>2 DEF EmptyEntries
  <2> HIDE DEF i
  <2>3. PICK q : q = [p EXCEPT !.dirty[i] = r] OBVIOUS
  <2>4. /\ PoolOK(q) /\ q.stale = p.stale /\ q.next = p.next /\ q.free = p.free
        /\ q.dirty = [p.dirty EXCEPT ![i] = r] /\ q.leaked = p.leaked
        /\ \A u : Taken(p, u) /\ Off(u, r) => Taken(q, u)
    BY <2>2, <2>3, FreeToDirty
  <2>5. Freed(p, r, q) BY <2>2, <2>4 DEF Freed
  <2>6. QED BY <1>3, <2>1, <2>3, <2>5
<1>6. CASE r[1] + r[2] # p.next /\ EmptyEntries(p.dirty) = {}
  <2>1. PICK c : c = [p EXCEPT !.stale = @ \ Pages(r)] OBVIOUS
  <2>2. PoolFree(p, r) = Placed(c, r) BY <1>3, <1>6, <2>1 DEF PoolFree
  <2>3. /\ c \in VmPoolType /\ c.next = p.next /\ c.free = p.free /\ c.dirty = p.dirty
        /\ c.stale = p.stale \ Pages(r) /\ c.zeroed = p.zeroed /\ c.leaked = p.leaked
    BY <1>1, <2>1 DEF VmPoolType
  <2>4. PoolOK(c) BY <2>3 DEF PoolOK, Clean
  <2>5. \A u : Taken(p, u) => Taken(c, u) BY <2>3 DEF Taken
  <2>6. \A x \in Nat : In(x, r) => x \notin c.stale BY <1>2, <2>3, PagesIn
  <2>7. PICK q : q = Placed(c, r) OBVIOUS
  <2>8. /\ PoolOK(q) /\ q.stale = c.stale /\ q.next = c.next /\ q.dirty = c.dirty
        /\ \A u : Taken(c, u) /\ Off(u, r) => Taken(q, u)
        /\ \/ /\ \A i \in Entries : c.free[i] # NoRange
              /\ q.free = c.free /\ q.leaked = c.leaked + r[2]
           \/ \E i \in Entries : /\ c.free[i] = NoRange /\ q.leaked = c.leaked
                                   /\ q.free = [c.free EXCEPT ![i] = r]
    BY <2>4, <2>5, <2>6, <2>7, PlacedKeeps
  <2>9. Freed(p, r, q) BY <2>3, <2>5, <2>8 DEF Freed
  <2>10. QED BY <1>3, <2>2, <2>7, <2>9
<1>7. QED BY <1>4, <1>5, <1>6

(* How the lists may change when nothing is handed out or comes back. *)
Relisted(p, q, head) ==
    \/ Listed(q) = Listed(p) \ head /\ q.leaked = p.leaked
    \/ \E r \in Span : /\ r[2] > 0 /\ Listed(p) = Listed(q) \cup Pages(r) /\ head = {}
                       /\ Listed(q) \cap Pages(r) = {} /\ q.leaked = p.leaked + r[2]

(* Zeroing, after which the pages of head are on no list. *)
Zeroed(p, q, head) ==
    /\ PoolStep(p, q) /\ q.stale \subseteq p.stale /\ q.next = p.next
    /\ head \subseteq Listed(p) /\ Relisted(p, q, head)

(* A range goes into an entry that is not used. *)
Fills(p, r, q) ==
    \E i \in Entries :
        \/ /\ q.dirty = p.dirty /\ p.free[i] = NoRange /\ q.free = [p.free EXCEPT ![i] = r]
        \/ /\ q.free = p.free /\ p.dirty[i] = NoRange /\ q.dirty = [p.dirty EXCEPT ![i] = r]

\* A range that goes into an entry that is not used is listed.
LEMMA ListedWith ==
    ASSUME NEW p, NEW q, p.free \in [Entries -> Span], p.dirty \in [Entries -> Span],
           NEW r \in Span, Fills(p, r, q)
    PROVE  Listed(q) = Listed(p) \cup Pages(r)
<1>1. \A x \in Nat : ~ In(x, NoRange) BY NoRangeParts DEF In
<1>0. PICK i \in Entries :
        \/ /\ q.dirty = p.dirty /\ p.free[i] = NoRange /\ q.free = [p.free EXCEPT ![i] = r]
        \/ /\ q.free = p.free /\ p.dirty[i] = NoRange /\ q.dirty = [p.dirty EXCEPT ![i] = r]
  BY DEF Fills
<1>2. ASSUME NEW x \in Nat PROVE x \in Listed(q) <=> x \in Listed(p) \/ In(x, r)
  <2>1. CASE q.dirty = p.dirty /\ p.free[i] = NoRange /\ q.free = [p.free EXCEPT ![i] = r]
    <3>1. q.free[i] = r /\ \A j \in Entries : j # i => q.free[j] = p.free[j] BY <2>1
    <3>2. QED BY <1>1, <2>1, <3>1 DEF Listed
  <2>2. CASE q.free = p.free /\ p.dirty[i] = NoRange /\ q.dirty = [p.dirty EXCEPT ![i] = r]
    <3>1. q.dirty[i] = r /\ \A j \in Entries : j # i => q.dirty[j] = p.dirty[j] BY <2>2
    <3>2. QED BY <1>1, <2>2, <3>1 DEF Listed
  <2>3. QED BY <1>0, <2>1, <2>2
<1>3. Listed(q) \subseteq Nat /\ Listed(p) \subseteq Nat BY DEF Listed
<1>4. \A x : x \in Pages(r) <=> x \in Nat /\ In(x, r) BY PagesIn
<1>5. QED BY <1>2, <1>3, <1>4

\* No page of a range that is handed out is listed.
LEMMA TakenUnlisted ==
    ASSUME NEW p, PoolOK(p), NEW r, Taken(p, r) PROVE Listed(p) \cap Pages(r) = {}
<1>1. r \in Span /\ p.free \in [Entries -> Span] /\ p.dirty \in [Entries -> Span]
  BY PoolParts DEF Taken
<1>2. ASSUME NEW x \in Nat, In(x, r), NEW i \in Entries PROVE ~ In(x, p.free[i]) /\ ~ In(x, p.dirty[i])
  BY <1>1, <1>2, OffPages DEF Taken
<1>3. QED BY <1>1, <1>2, PagesIn DEF Listed

(* The first n pages of a dirty range are zeroed. *)
PartZeroed(p, i, n) ==
    [p EXCEPT !.stale = @ \ Pages(<<p.dirty[i][1], n>>),
              !.dirty[i] = <<p.dirty[i][1] + n, p.dirty[i][2] - n>>]

\* A part of the first dirty range is zeroed.
LEMMA ZeroPart ==
    ASSUME NEW p, PoolOK(p), NEW i \in Entries, p.dirty[i] # NoRange, NEW n \in Nat,
           n < p.dirty[i][2]
    PROVE  Zeroed(p, PartZeroed(p, i, n), Pages(<<p.dirty[i][1], n>>))
<1> DEFINE r == p.dirty[i]
           rest == <<r[1] + n, r[2] - n>>
           head == <<r[1], n>>
           l == [p.dirty EXCEPT ![i] = rest]
           s == p.stale \ Pages(<<r[1], n>>)
           q == [p EXCEPT !.stale = s, !.dirty = l]
<1>1. /\ p \in VmPoolType /\ p.next \in Nat /\ p.stale \subseteq Nat
      /\ p.free \in [Entries -> Span] /\ p.dirty \in [Entries -> Span]
  BY PoolParts
<1>2. r \in Span /\ r[1] \in Nat /\ r[2] \in Nat /\ r[1] + r[2] <= p.next
  <2>1. r \in Span BY <1>1
  <2>2. QED BY <2>1, SpanParts DEF PoolOK, ListOK
<1>3. /\ rest \in Span /\ rest[2] > 0 /\ rest[1] + rest[2] <= p.next
      /\ r[1] <= rest[1] /\ rest[1] + rest[2] <= r[1] + r[2]
  BY <1>2 DEF Span
<1>4. \A u \in Span : Off(u, r) => Off(u, rest) BY <1>2, <1>3, OffPart
<1>5. l \in [Entries -> Span] /\ l[i] = rest /\ \A j \in Entries : j # i => l[j] = p.dirty[j]
  BY <1>1, <1>3
<1>6. s \subseteq Nat /\ s \subseteq p.stale BY <1>1
<1>7. ListOK(l, p.next)
  <2>1. ASSUME NEW j \in Entries, j # i PROVE Off(rest, p.dirty[j])
    <3>1. Off(p.dirty[j], r) /\ p.dirty[j] \in Span BY <1>1, <2>1 DEF PoolOK, ListOK
    <3>2. QED BY <1>3, <1>4, <3>1, OffPages
  <2>2. QED BY <1>1, <1>3, <2>1, ListWith DEF PoolOK
<1>8. /\ head \in Span /\ \A x : x \in Pages(head) <=> x \in Nat /\ In(x, head)
      /\ \A x \in Nat : In(x, r) <=> In(x, head) \/ In(x, rest)
      /\ \A x \in Nat : ~ (In(x, head) /\ In(x, rest))
  <2>1. head \in Span /\ head[1] = r[1] /\ head[2] = n BY <1>2 DEF Span
  <2>2. QED BY <1>2, <1>3, <2>1, PagesIn DEF In
<1> HIDE DEF l, s, rest, head
<1>9. /\ q \in VmPoolType /\ q.next = p.next /\ q.free = p.free /\ q.dirty = l
      /\ q.stale = s /\ q.zeroed = p.zeroed /\ q.leaked = p.leaked
  BY <1>1, <1>5, <1>6 DEF VmPoolType
<1>10. q = PartZeroed(p, i, n) BY DEF PartZeroed, l, s, rest
<1> HIDE DEF q, r
<1>11. \A j, k \in Entries : Off(p.free[j], l[k])
  <2>1. \A j \in Entries : Off(p.free[j], rest) BY <1>1, <1>4 DEF PoolOK, r
  <2>2. QED BY <1>5, <2>1 DEF PoolOK
<1>12. Clean(q) BY <1>6, <1>9 DEF PoolOK, Clean
<1>13. PoolOK(q) BY <1>7, <1>9, <1>11, <1>12 DEF PoolOK
<1>14. ASSUME NEW u, Taken(p, u) PROVE Taken(q, u)
  <2>1. Off(u, rest) BY <1>4, <1>14 DEF Taken, r
  <2>2. QED BY <1>5, <1>9, <1>14, <2>1 DEF Taken
<1>15. ASSUME NEW x \in Nat PROVE x \in Listed(q) <=> x \in Listed(p) /\ ~ In(x, head)
  <2>1. ASSUME NEW j \in Entries
        PROVE  (In(x, p.free[j]) => ~ In(x, r)) /\ (j # i /\ In(x, p.dirty[j]) => ~ In(x, r))
    <3>1. Off(p.free[j], r) /\ (j # i => Off(p.dirty[j], r))
      BY DEF PoolOK, ListOK, r
    <3>2. QED BY <1>1, <1>2, <3>1, OffPages
  <2>2. In(x, r) <=> In(x, head) \/ In(x, rest) BY <1>8
  <2>3. ~ (In(x, head) /\ In(x, rest)) BY <1>8
  <2>4. q.dirty[i] = rest /\ \A j \in Entries : j # i => q.dirty[j] = p.dirty[j] BY <1>5, <1>9
  <2>5. p.dirty[i] = r BY DEF r
  <2>6. ASSUME x \in Listed(q) PROVE x \in Listed(p) /\ ~ In(x, head)
    <3>1. PICK j \in Entries : In(x, q.free[j]) \/ In(x, q.dirty[j]) BY <2>6 DEF Listed
    <3>2. CASE In(x, q.free[j])
      <4>1. In(x, p.free[j]) BY <1>9, <3>2
      <4>2. ~ In(x, r) BY <2>1, <4>1
      <4>3. ~ In(x, head) BY <2>2, <4>2
      <4>4. x \in Listed(p) BY <4>1 DEF Listed
      <4>5. QED BY <4>3, <4>4
    <3>3. CASE In(x, q.dirty[j]) /\ j # i
      <4>1. In(x, p.dirty[j]) BY <2>4, <3>3
      <4>2. ~ In(x, r) BY <2>1, <3>3, <4>1
      <4>3. ~ In(x, head) BY <2>2, <4>2
      <4>4. x \in Listed(p) BY <4>1 DEF Listed
      <4>5. QED BY <4>3, <4>4
    <3>4. CASE In(x, q.dirty[j]) /\ j = i BY <2>2, <2>3, <2>4, <2>5, <3>4 DEF Listed
    <3>5. QED BY <3>1, <3>2, <3>3, <3>4
  <2>7. ASSUME x \in Listed(p), ~ In(x, head) PROVE x \in Listed(q)
    <3>1. PICK j \in Entries : In(x, p.free[j]) \/ In(x, p.dirty[j]) BY <2>7 DEF Listed
    <3>2. CASE In(x, p.free[j]) BY <1>9, <3>2 DEF Listed
    <3>3. CASE In(x, p.dirty[j]) /\ j # i BY <2>4, <3>3 DEF Listed
    <3>4. CASE In(x, p.dirty[j]) /\ j = i BY <2>2, <2>4, <2>5, <2>7, <3>4 DEF Listed
    <3>5. QED BY <3>1, <3>2, <3>3, <3>4
  <2>8. QED BY <2>6, <2>7
<1>16. Listed(q) = Listed(p) \ Pages(head)
  <2>1. Listed(p) \subseteq Nat /\ Listed(q) \subseteq Nat BY DEF Listed
  <2>2. QED BY <1>8, <1>15, <2>1
<1>17. Pages(head) \subseteq Listed(p)
  <2>1. \A x \in Nat : In(x, r) => x \in Listed(p) BY DEF Listed, r
  <2>2. QED BY <1>8, <2>1
<1>18. Zeroed(p, q, Pages(head)) BY <1>6, <1>9, <1>13, <1>14, <1>16, <1>17 DEF Zeroed, PoolStep, Relisted
<1>19. QED BY <1>10, <1>18 DEF head, r

\* A range apart from what was joined is apart from the joined range.
LEMMA OffJoined ==
    ASSUME NEW list \in [Entries -> Span], NEW r \in Span, NEW acc, JoinedTo(list, r, acc),
           NEW u \in Span, Off(u, r), \A j \in Entries : acc.free[j] = NoRange => Off(u, list[j])
    PROVE  Off(u, acc.range)
<1>1. acc.range \in Span BY DEF JoinedTo, JoinType
<1>2. ASSUME NEW x \in Nat, In(x, u), In(x, acc.range) PROVE FALSE
  <2>1. CASE In(x, r) BY <1>2, <2>1, OffPages
  <2>2. CASE \E j \in Entries : acc.free[j] = NoRange /\ In(x, list[j]) BY <1>2, <2>2, OffPages
  <2>3. QED BY <1>2, <2>1, <2>2 DEF JoinedTo
<1>3. QED BY <1>1, <1>2, OffPages

\* Of a range all of whose pages are below the frontier, the end is.
LEMMA EndBelow ==
    ASSUME NEW r \in Span, r[2] > 0, NEW next \in Nat, \A x \in Nat : In(x, r) => x < next
    PROVE  r[1] + r[2] <= next
<1>1. r[1] \in Nat /\ r[2] \in Nat BY SpanParts
<1>2. (r[1] + r[2]) - 1 \in Nat /\ In((r[1] + r[2]) - 1, r) BY <1>1 DEF In
<1>3. (r[1] + r[2]) - 1 < next BY <1>2
<1>4. QED BY <1>1, <1>3

(* The pool before the joined range is placed. *)
Joining(p, i, acc) ==
    [p EXCEPT !.stale = @ \ Pages(p.dirty[i]), !.dirty[i] = NoRange, !.free = acc.free]

\* A whole dirty range is zeroed and joined with its clean neighbours.
LEMMA JoinedClean ==
    ASSUME NEW p, PoolOK(p), NEW i \in Entries, p.dirty[i] # NoRange, NEW acc,
           JoinedTo(p.free, p.dirty[i], acc)
    PROVE  LET c == Joining(p, i, acc)
           IN  /\ PoolOK(c) /\ Taken(c, acc.range) /\ c.stale \subseteq p.stale
               /\ c.next = p.next /\ c.leaked = p.leaked
               /\ c.dirty = [p.dirty EXCEPT ![i] = NoRange]
               /\ \A x \in Nat : In(x, acc.range) => x \notin c.stale
               /\ \A u : Taken(p, u) => Taken(c, u) /\ Off(u, acc.range)
               /\ Listed(p) = Listed(c) \cup Pages(acc.range)
<1> DEFINE r == p.dirty[i]
           R == acc.range
           f == acc.free
           d == [p.dirty EXCEPT ![i] = NoRange]
           s == p.stale \ Pages(r)
           c == [p EXCEPT !.stale = s, !.dirty = d, !.free = f]
<1>1. /\ p \in VmPoolType /\ p.next \in Nat /\ p.stale \subseteq Nat
      /\ p.free \in [Entries -> Span] /\ p.dirty \in [Entries -> Span]
  BY PoolParts
<1>2. r \in Span /\ r[1] \in Nat /\ r[2] \in Nat /\ r[2] > 0 /\ r[1] + r[2] <= p.next
  <2>1. r \in Span BY <1>1
  <2>2. QED BY <2>1, SpanParts DEF PoolOK, ListOK
<1>3. /\ f \in [Entries -> Span] /\ R \in Span /\ R[2] > 0
      /\ \A j \in Entries : f[j] = p.free[j] \/ f[j] = NoRange
  BY DEF JoinedTo, JoinType
<1>4. \A x \in Nat : In(x, R) <=> In(x, r) \/ \E j \in Entries : f[j] = NoRange /\ In(x, p.free[j])
  BY DEF JoinedTo
<1>5. ASSUME NEW u \in Span, Off(u, r), \A j \in Entries : f[j] = NoRange => Off(u, p.free[j])
      PROVE  Off(u, R)
  BY <1>1, <1>2, <1>5, OffJoined
<1>6. d \in [Entries -> Span] /\ d[i] = NoRange /\ \A j \in Entries : j # i => d[j] = p.dirty[j]
  BY <1>1, NoRangeParts
<1>7. s \subseteq Nat /\ s \subseteq p.stale /\ \A x \in Nat : In(x, r) => x \notin s
  BY <1>1, <1>2, PagesIn
<1>8. c = Joining(p, i, acc) BY DEF Joining
<1> HIDE DEF r, R, f, d, s
<1>9. /\ c \in VmPoolType /\ c.next = p.next /\ c.free = f /\ c.dirty = d
      /\ c.stale = s /\ c.zeroed = p.zeroed /\ c.leaked = p.leaked
  BY <1>1, <1>3, <1>6, <1>7 DEF VmPoolType
<1> HIDE DEF c
<1>10. \A u \in Span : Off(u, NoRange) /\ Off(NoRange, u) BY NoRangeParts DEF Off
<1>11. /\ \A j \in Entries : p.free[j] \in Span /\ p.dirty[j] \in Span
       /\ \A j \in Entries : f[j] \in Span /\ d[j] \in Span
  BY <1>1, <1>3, <1>6
<1>12. /\ \A j, k \in Entries : j # k => Off(p.free[j], p.free[k]) /\ Off(p.dirty[j], p.dirty[k])
       /\ \A j, k \in Entries : Off(p.free[j], p.dirty[k])
  BY DEF PoolOK, ListOK
<1>13. ListOK(f, p.next)
  <2>1. \A j \in Entries : f[j] = NoRange \/ (f[j][2] > 0 /\ f[j][1] + f[j][2] <= p.next)
    BY <1>3 DEF PoolOK, ListOK
  <2>2. \A j, k \in Entries : j # k => Off(f[j], f[k]) BY <1>3, <1>10, <1>11, <1>12
  <2>3. QED BY <1>3, <2>1, <2>2 DEF ListOK
<1>14. ListOK(d, p.next)
  <2>1. \A j \in Entries : d[j] = NoRange \/ (d[j][2] > 0 /\ d[j][1] + d[j][2] <= p.next)
    BY <1>6 DEF PoolOK, ListOK
  <2>2. \A j, k \in Entries : j # k => Off(d[j], d[k]) BY <1>6, <1>10, <1>11, <1>12
  <2>3. QED BY <1>6, <2>1, <2>2 DEF ListOK
<1>15. \A j, k \in Entries : Off(f[j], d[k]) BY <1>3, <1>6, <1>10, <1>11, <1>12
<1>16. Clean(c)
  <2>1. \A j \in Entries : \A x \in Nat : In(x, f[j]) => x \notin s
    <3>1. \A x \in Nat : ~ In(x, NoRange) BY NoRangeParts DEF In
    <3>2. QED BY <1>3, <1>7, <3>1 DEF PoolOK, Clean
  <2>2. QED BY <1>7, <1>9, <2>1 DEF PoolOK, Clean
<1>17. PoolOK(c) BY <1>9, <1>13, <1>14, <1>15, <1>16 DEF PoolOK
<1>18. Taken(c, R)
  <2>1. \A x \in Nat : In(x, R) => x < p.next
    <3>1. \A x \in Nat : In(x, r) => x < p.next BY <1>1, <1>2 DEF In
    <3>2. ASSUME NEW j \in Entries, NEW x \in Nat, In(x, p.free[j]) PROVE x < p.next
      <4>1. p.free[j][1] \in Nat /\ p.free[j][2] \in Nat BY <1>11, SpanParts
      <4>2. p.free[j] # NoRange BY <3>2, NoRangeParts DEF In
      <4>3. p.free[j][1] + p.free[j][2] <= p.next BY <4>2 DEF PoolOK, ListOK
      <4>4. QED BY <1>1, <3>2, <4>1, <4>3 DEF In
    <3>3. QED BY <1>4, <3>1, <3>2
  <2>2. R[1] + R[2] <= p.next BY <1>1, <1>3, <2>1, EndBelow
  <2>3. ASSUME NEW k \in Entries PROVE Off(R, f[k])
    <3>1. CASE f[k] = NoRange BY <1>3, <1>10, <3>1
    <3>2. CASE f[k] # NoRange
      <4>1. f[k] = p.free[k] /\ Off(f[k], r) BY <1>3, <1>12, <3>2 DEF r
      <4>2. \A j \in Entries : f[j] = NoRange => Off(f[k], p.free[j]) BY <1>12, <3>2, <4>1
      <4>3. Off(f[k], R) BY <1>5, <1>11, <4>1, <4>2
      <4>4. QED BY <1>3, <1>11, <4>3, OffPages
    <3>3. QED BY <3>1, <3>2
  <2>4. ASSUME NEW k \in Entries PROVE Off(R, d[k])
    <3>1. CASE k = i BY <1>3, <1>6, <1>10, <3>1
    <3>2. CASE k # i
      <4>1. d[k] = p.dirty[k] /\ Off(d[k], r) BY <1>6, <1>12, <3>2 DEF r
      <4>2. \A j \in Entries : Off(d[k], p.free[j]) BY <1>11, <1>12, <4>1, OffPages
      <4>3. Off(d[k], R) BY <1>5, <1>11, <4>1, <4>2
      <4>4. QED BY <1>3, <1>11, <4>3, OffPages
    <3>3. QED BY <3>1, <3>2
  <2>5. QED BY <1>3, <1>9, <2>2, <2>3, <2>4 DEF Taken
<1>19. \A x \in Nat : In(x, R) => x \notin s BY <1>4, <1>7 DEF PoolOK, Clean
<1>20. ASSUME NEW u, Taken(p, u) PROVE Taken(c, u) /\ Off(u, R)
  <2>1. u \in Span /\ Off(u, r) /\ \A j \in Entries : Off(u, p.free[j]) /\ Off(u, p.dirty[j])
    BY <1>20 DEF Taken, r
  <2>2. Off(u, R) BY <1>5, <2>1
  <2>3. \A j \in Entries : Off(u, f[j]) /\ Off(u, d[j]) BY <1>3, <1>6, <1>10, <2>1
  <2>4. QED BY <1>9, <1>20, <2>2, <2>3 DEF Taken
<1>21. Listed(p) = Listed(c) \cup Pages(R)
  <2>1. \A x \in Nat : ~ In(x, NoRange) BY NoRangeParts DEF In
  <2>2. ASSUME NEW x \in Nat PROVE x \in Listed(p) <=> x \in Listed(c) \/ In(x, R)
    <3>1. ASSUME NEW j \in Entries, In(x, p.free[j]) PROVE x \in Listed(c) \/ In(x, R)
      BY <1>3, <1>4, <1>9, <3>1 DEF Listed
    <3>2. ASSUME NEW j \in Entries, In(x, p.dirty[j]) PROVE x \in Listed(c) \/ In(x, R)
      BY <1>4, <1>6, <1>9, <3>2 DEF Listed, r
    <3>3. ASSUME NEW j \in Entries, In(x, f[j]) \/ In(x, d[j]) PROVE x \in Listed(p)
      BY <1>3, <1>6, <2>1, <3>3 DEF Listed
    <3>4. In(x, R) => x \in Listed(p) BY <1>4 DEF Listed, r
    <3>5. x \in Listed(c) => \E j \in Entries : In(x, f[j]) \/ In(x, d[j]) BY <1>9 DEF Listed
    <3>6. x \in Listed(p) => \E j \in Entries : In(x, p.free[j]) \/ In(x, p.dirty[j]) BY DEF Listed
    <3>7. QED BY <3>1, <3>2, <3>3, <3>4, <3>5, <3>6
  <2>3. Listed(p) \subseteq Nat /\ Listed(c) \subseteq Nat BY DEF Listed
  <2>4. \A x : x \in Pages(R) <=> x \in Nat /\ In(x, R) BY <1>3, PagesIn
  <2>5. QED BY <2>2, <2>3, <2>4
<1>22. QED BY <1>7, <1>8, <1>9, <1>17, <1>18, <1>19, <1>20, <1>21 DEF R, d

\* idle_zero_step on a dirty range.
LEMMA ZeroDirtyKeeps ==
    ASSUME NEW p, PoolOK(p), EmptyEntries(p.dirty) # Entries
    PROVE  Zeroed(p, ZeroDirty(p), DroppedHead(p))
<1> DEFINE i == Min(Entries \ EmptyEntries(p.dirty))
           r == p.dirty[i]
           n == Min({r[2], ZeroBudget})
           acc == Coalesced(p.free, r)
<1>1. /\ p \in VmPoolType /\ p.next \in Nat /\ p.stale \subseteq Nat
      /\ p.free \in [Entries -> Span] /\ p.dirty \in [Entries -> Span]
  BY PoolParts
<1>2. i \in Entries /\ r # NoRange
  <2>1. Entries \ EmptyEntries(p.dirty) \subseteq Nat BY VmoAssumption DEF Entries
  <2>2. Entries \ EmptyEntries(p.dirty) # {} BY DEF EmptyEntries
  <2>3. i \in Entries \ EmptyEntries(p.dirty) BY <2>1, <2>2, MinIn
  <2>4. QED BY <2>3 DEF EmptyEntries
<1>3. ZeroDirty(p) = IF n = r[2]
         THEN Placed([[p EXCEPT !.stale = @ \ Pages(<<r[1], n>>)]
                         EXCEPT !.dirty[i] = NoRange, !.free = acc.free], acc.range)
         ELSE [[p EXCEPT !.stale = @ \ Pages(<<r[1], n>>)]
                  EXCEPT !.dirty[i] = <<r[1] + n, r[2] - n>>]
  BY DEF ZeroDirty
<1>4. r \in Span /\ r[1] \in Nat /\ r[2] \in Nat /\ r[2] > 0 /\ ZeroBudget \in Nat
  <2>1. r \in Span BY <1>1, <1>2
  <2>2. QED BY <1>2, <2>1, SpanParts, VmoAssumption DEF PoolOK, ListOK
<1>5. n = IF r[2] <= ZeroBudget THEN r[2] ELSE ZeroBudget
  <2>1. PICK a \in Int : a = r[2] BY <1>4
  <2>2. PICK b \in Int : b = ZeroBudget BY <1>4
  <2>3. Min({a, b}) = IF a <= b THEN a ELSE b BY MinOfTwo
  <2>4. QED BY <2>1, <2>2, <2>3
<1>5a. DroppedHead(p) = IF r[2] > ZeroBudget THEN Pages(<<r[1], ZeroBudget>>) ELSE {}
  BY DEF DroppedHead
<1> HIDE DEF i, n, acc
<1>6. CASE n # r[2]
  <2>1. n \in Nat /\ n < r[2] /\ n = ZeroBudget /\ DroppedHead(p) = Pages(<<r[1], n>>)
    BY <1>4, <1>5, <1>5a, <1>6
  <2>2. ZeroDirty(p) = PartZeroed(p, i, n) BY <1>1, <1>2, <1>3, <1>6 DEF VmPoolType, PartZeroed
  <2>3. QED BY <1>2, <2>1, <2>2, ZeroPart
<1>7. CASE n = r[2]
  <2>0. DroppedHead(p) = {} BY <1>4, <1>5, <1>5a, <1>7
  <2>1. JoinedTo(p.free, r, acc)
    <3>1. \A j \in Entries : p.free[j] = NoRange \/ p.free[j][2] > 0 BY DEF PoolOK, ListOK
    <3>2. QED BY <1>1, <1>4, <3>1, CoalescedJoins DEF acc
  <2>2. PICK c : c = Joining(p, i, acc) OBVIOUS
  <2>3. PICK q : q = Placed(c, acc.range) OBVIOUS
  <2>4. ZeroDirty(p) = q
    <3>1. <<r[1], n>> = r BY <1>4, <1>7, SpanParts
    <3>2. ZeroDirty(p) = Placed([p EXCEPT !.stale = @ \ Pages(r), !.dirty[i] = NoRange,
                                          !.free = acc.free], acc.range)
      BY <1>1, <1>2, <1>3, <1>7, <3>1 DEF VmPoolType
    <3>3. QED BY <2>2, <2>3, <3>2 DEF Joining
  <2>5. /\ PoolOK(c) /\ Taken(c, acc.range) /\ c.stale \subseteq p.stale
        /\ c.next = p.next /\ c.leaked = p.leaked
        /\ c.dirty = [p.dirty EXCEPT ![i] = NoRange]
        /\ \A x \in Nat : In(x, acc.range) => x \notin c.stale
        /\ \A u : Taken(p, u) => Taken(c, u) /\ Off(u, acc.range)
        /\ Listed(p) = Listed(c) \cup Pages(acc.range)
    BY <1>2, <2>1, <2>2, JoinedClean
  <2> HIDE DEF r
  <2>6. /\ PoolOK(q) /\ q.stale = c.stale /\ q.next = c.next /\ q.dirty = c.dirty
        /\ \A u : Taken(c, u) /\ Off(u, acc.range) => Taken(q, u)
        /\ \/ /\ \A k \in Entries : c.free[k] # NoRange
              /\ q.free = c.free /\ q.leaked = c.leaked + acc.range[2]
           \/ \E k \in Entries : /\ c.free[k] = NoRange /\ q.leaked = c.leaked
                                   /\ q.free = [c.free EXCEPT ![k] = acc.range]
    BY <2>3, <2>5, PlacedKeeps
  <2>7. acc.range \in Span /\ acc.range[2] > 0 BY <2>5 DEF Taken
  <2>8. Relisted(p, q, {})
    <3>1. CASE q.free = c.free /\ q.leaked = c.leaked + acc.range[2]
      <4>1. Listed(q) = Listed(c) BY <2>6, <3>1 DEF Listed
      <4>2. Listed(c) \cap Pages(acc.range) = {} BY <2>5, TakenUnlisted
      <4>3. QED BY <2>5, <2>7, <3>1, <4>1, <4>2 DEF Relisted
    <3>2. CASE \E k \in Entries : /\ c.free[k] = NoRange /\ q.leaked = c.leaked
                                    /\ q.free = [c.free EXCEPT ![k] = acc.range]
      <4>1. Fills(c, acc.range, q) /\ q.leaked = c.leaked BY <2>6, <3>2 DEF Fills
      <4>2. c.free \in [Entries -> Span] /\ c.dirty \in [Entries -> Span] BY <2>5, PoolParts
      <4>3. Listed(q) = Listed(c) \cup Pages(acc.range)
        BY <2>7, <4>1, <4>2, ListedWith
      <4>4. QED BY <2>5, <4>1, <4>3 DEF Relisted
    <3>3. QED BY <2>6, <3>1, <3>2
  <2>9. Zeroed(p, q, {}) BY <2>5, <2>6, <2>8 DEF Zeroed, PoolStep
  <2>10. QED BY <2>0, <2>4, <2>9
<1>8. QED BY <1>6, <1>7

\* idle_zero_step with nothing dirty.
LEMMA ZeroFrontierKeeps ==
    ASSUME NEW p, PoolOK(p) PROVE Zeroed(p, ZeroFrontier(p), {})
<1> DEFINE from == Max({p.zeroed, p.next})
           m == Min({Arena, p.next + FrontierAhead, from + ZeroBudget})
           end == Max({from, m})
           s == p.stale \ (from..(end - 1))
           q == [p EXCEPT !.zeroed = end, !.stale = s]
<1>1. /\ p \in VmPoolType /\ p.next \in Nat /\ p.zeroed \in Nat /\ p.stale \subseteq Nat
      /\ p.free \in [Entries -> Span] /\ p.dirty \in [Entries -> Span]
  BY PoolParts
<1>2. from = IF p.zeroed <= p.next THEN p.next ELSE p.zeroed BY <1>1, MaxOfTwo
<1> HIDE DEF from
<1>3. from \in Nat /\ Arena \in Nat /\ p.next + FrontierAhead \in Nat /\ from + ZeroBudget \in Nat
  BY <1>1, <1>2, VmoAssumption
<1>4. m \in Nat
  <2>1. PICK S : S = {Arena, p.next + FrontierAhead, from + ZeroBudget} OBVIOUS
  <2>2. S \subseteq Nat /\ S # {} BY <1>3, <2>1
  <2>3. Min(S) \in S BY <2>2, MinIn
  <2>4. QED BY <2>1, <2>2, <2>3
<1> HIDE DEF m
<1>5. end = IF from <= m THEN m ELSE from BY <1>3, <1>4, MaxOfTwo
<1>6. ZeroFrontier(p) = q BY DEF ZeroFrontier, from, m
<1> HIDE DEF end
<1>7. end \in Nat BY <1>3, <1>4, <1>5
<1>8. s \subseteq Nat /\ s \subseteq p.stale BY <1>1
<1>9. ASSUME NEW x \in Nat, p.next <= x, x < end PROVE x \notin s
  <2>1. CASE x < from
    <3>1. x < p.zeroed BY <1>1, <1>2, <1>9, <2>1
    <3>2. QED BY <1>9, <3>1 DEF PoolOK, Clean
  <2>2. CASE ~ (x < from)
    <3>1. x \in from..(end - 1) BY <1>3, <1>7, <1>9, <2>2
    <3>2. QED BY <3>1
  <2>3. QED BY <2>1, <2>2
<1> HIDE DEF s
<1>10. /\ q \in VmPoolType /\ q.next = p.next /\ q.free = p.free /\ q.dirty = p.dirty
       /\ q.stale = s /\ q.zeroed = end /\ q.leaked = p.leaked
  BY <1>1, <1>7, <1>8 DEF VmPoolType
<1> HIDE DEF q
<1>11. Clean(q) BY <1>8, <1>9, <1>10 DEF PoolOK, Clean
<1>12. PoolOK(q) BY <1>10, <1>11 DEF PoolOK
<1>13. \A u : Taken(p, u) => Taken(q, u) BY <1>10 DEF Taken
<1>14. Relisted(p, q, {}) BY <1>10 DEF Relisted, Listed
<1>15. Zeroed(p, q, {}) BY <1>8, <1>10, <1>12, <1>13, <1>14 DEF Zeroed, PoolStep
<1>16. QED BY <1>6, <1>15

(* No user of V has a range that no user of U has, nor have two the same one's. *)
Within(V, U) ==
    /\ \A g \in V : \E a \in U : a.range = g.range
    /\ \A g, h \in V : g # h => \E a, b \in U : a # b /\ a.range = g.range /\ b.range = h.range

\* Nothing is handed out.
LEMMA WithinKeeps ==
    ASSUME NEW U, NEW V, NEW p, NEW q, UsersOK(U, p), Within(V, U),
           \A u : Taken(p, u) => Taken(q, u)
    PROVE  UsersOK(V, q)
<1>1. \A h \in V : Taken(q, h.range) BY DEF UsersOK, Within
<1>2. ASSUME NEW g \in V, NEW h \in V, g # h PROVE Off(g.range, h.range)
  <2>1. PICK a \in U, b \in U : a # b /\ a.range = g.range /\ b.range = h.range BY <1>2 DEF Within
  <2>2. Off(a.range, b.range) BY <2>1 DEF UsersOK
  <2>3. QED BY <2>1, <2>2
<1>3. QED BY <1>1, <1>2 DEF UsersOK

\* A user less, or the same ones.
LEMMA SubsetWithin == ASSUME NEW U, NEW V, V \subseteq U PROVE Within(V, U)
BY DEF Within

\* A user whose range goes to another one.
LEMMA MovedWithin ==
    ASSUME NEW U, NEW V, NEW old \in U, NEW new, new.range = old.range, V \subseteq (U \ {old}) \cup {new}
    PROVE  Within(V, U)
<1>1. \A g \in V : \E a \in U : a.range = g.range OBVIOUS
<1>2. ASSUME NEW g \in V, NEW h \in V, g # h
      PROVE  \E a, b \in U : a # b /\ a.range = g.range /\ b.range = h.range
  <2>1. CASE g = new /\ h \in U \ {old} BY <2>1
  <2>2. CASE h = new /\ g \in U \ {old} BY <2>2
  <2>3. CASE g \in U \ {old} /\ h \in U \ {old} BY <1>2, <2>3
  <2>4. QED BY <1>2, <2>1, <2>2, <2>3
<1>3. QED BY <1>1, <1>2 DEF Within

\* A range is handed out.
LEMMA AllocatedKeeps ==
    ASSUME NEW U, NEW V, NEW p, NEW n, NEW got, NEW new, UsersOK(U, p), Allocated(p, n, got),
           new.range = got.range, V \subseteq U \cup {new}
    PROVE  UsersOK(V, got.pool)
<1>1. ASSUME NEW g \in U PROVE Taken(got.pool, g.range) /\ Off(g.range, new.range) /\ Off(new.range, g.range)
  <2>1. Taken(p, g.range) BY DEF UsersOK
  <2>2. Taken(got.pool, g.range) /\ Off(g.range, got.range) BY <2>1 DEF Allocated
  <2>3. g.range \in Span /\ got.range \in Span BY <2>1 DEF Taken, Allocated
  <2>4. QED BY <2>2, <2>3, OffPages
<1>2. Taken(got.pool, new.range) BY DEF Allocated
<1>3. \A h \in V : Taken(got.pool, h.range) BY <1>1, <1>2
<1>4. ASSUME NEW g \in V, NEW h \in V, g # h PROVE Off(g.range, h.range)
  <2>1. CASE g \in U /\ h \in U BY <1>4, <2>1 DEF UsersOK
  <2>2. CASE g \in U /\ h = new BY <1>1, <2>2
  <2>3. CASE g = new /\ h \in U BY <1>1, <2>3
  <2>4. QED BY <1>4, <2>1, <2>2, <2>3
<1>5. QED BY <1>3, <1>4 DEF UsersOK

\* A range comes back from its one user.
LEMMA FreedKeeps ==
    ASSUME NEW U, NEW V, NEW p, NEW q, NEW old \in U, UsersOK(U, p), Freed(p, old.range, q),
           V \subseteq U \ {old}
    PROVE  UsersOK(V, q)
<1>1. ASSUME NEW h \in V PROVE Taken(q, h.range)
  <2>1. Taken(p, h.range) /\ Off(h.range, old.range) BY DEF UsersOK
  <2>2. QED BY <2>1 DEF Freed
<1>2. QED BY <1>1 DEF UsersOK

\* The contents of a range that is handed out change.
LEMMA StaleKeeps ==
    ASSUME NEW p, PoolOK(p), NEW r, Taken(p, r), NEW s, s \subseteq p.stale \cup Pages(r)
    PROVE  LET q == [p EXCEPT !.stale = s]
           IN  PoolOK(q) /\ q.stale = s /\ \A u : Taken(p, u) => Taken(q, u)
<1> DEFINE q == [p EXCEPT !.stale = s]
<1>1. /\ p \in VmPoolType /\ p.next \in Nat /\ p.zeroed \in Nat /\ p.stale \subseteq Nat
      /\ p.free \in [Entries -> Span] /\ p.dirty \in [Entries -> Span]
  BY PoolParts
<1>2. r \in Span /\ r[1] \in Nat /\ r[2] \in Nat /\ r[1] + r[2] <= p.next BY SpanParts DEF Taken
<1>3. \A x \in s : x \in Nat /\ (x \in p.stale \/ In(x, r)) BY <1>1, <1>2, PagesIn
<1>4. s \in SUBSET Nat BY <1>3
<1>5. /\ q \in VmPoolType /\ q.next = p.next /\ q.free = p.free /\ q.dirty = p.dirty
      /\ q.stale = s /\ q.zeroed = p.zeroed
  BY <1>1, <1>4 DEF VmPoolType
<1> HIDE DEF q
<1>6. \A i \in Entries : \A x \in Nat : In(x, p.free[i]) => ~ In(x, r)
  BY <1>1, <1>2, OffPages DEF Taken
<1>7. \A x \in Nat : In(x, r) => x < p.next BY <1>1, <1>2 DEF In
<1>8. ASSUME NEW x \in Nat, p.next <= x PROVE ~ In(x, r) BY <1>1, <1>7, <1>8
<1>9. Clean(q) BY <1>3, <1>5, <1>6, <1>8 DEF PoolOK, Clean
<1>10. PoolOK(q) BY <1>5, <1>9 DEF PoolOK
<1>11. \A u : Taken(p, u) => Taken(q, u) BY <1>5 DEF Taken
<1>12. QED BY <1>5, <1>10, <1>11 DEF q

(* Who a user is. *)
IsUser(h, caps, mail, pend, image) ==
    /\ h.range # NoRange
    /\ \/ \E t \in VmTask, s \in 1..VmSlots : h = Holding("vmo", 0, caps[t][s])
       \/ h = Holding("vmo", 0, mail)
       \/ \E t \in VmTask : h = Holding("call", t, pend[t].range)
       \/ ~ Calling(pend) /\ h = Holding("image", 0, image)

\* The users, one by one.
LEMMA UsersAre ==
    ASSUME NEW caps, NEW mail, NEW pend, NEW image
    PROVE  \A h : h \in UsersOf(caps, mail, pend, image) <=> IsUser(h, caps, mail, pend, image)
BY DEF UsersOf, IsUser

\* The parts of a holding.
LEMMA HoldingParts ==
    ASSUME NEW what, NEW at, NEW range
    PROVE  /\ Holding(what, at, range).what = what /\ Holding(what, at, range).at = at
           /\ Holding(what, at, range).range = range
BY DEF Holding

(* What a step does to the pool and to those who have ranges of it: nothing  *)
(* but to contents, zeroing, handing a range out, taking one back, both.     *)
QuietStep ==
    /\ Within(Users', Users) /\ vmReturned' = vmReturned /\ PoolStep(vmPool, vmPool')
    /\ vmPool'.next = vmPool.next /\ vmPool'.free = vmPool.free
    /\ vmPool'.dirty = vmPool.dirty /\ vmPool'.leaked = vmPool.leaked
ZeroingStep ==
    /\ Within(Users', Users)
    /\ \E head : vmReturned' = vmReturned \ head /\ Zeroed(vmPool, vmPool', head)
HandingStep ==
    \E n \in VmSize : \E new :
        LET got == AllocateNozero(vmPool, n)
        IN  /\ CanAllocate(vmPool, n) /\ HandOut(got)
            /\ new.range = got.range /\ Users' \subseteq Users \cup {new}
TakingStep ==
    \E old \in Users : GiveBack(old.range) /\ Users' \subseteq Users \ {old}
FailingStep ==
    \E n \in VmSize :
        LET got == AllocateNozero(vmPool, n)
        IN  /\ CanAllocate(vmPool, n) /\ vmPool' = PoolFree(got.pool, got.range)
            /\ vmReturned' = vmReturned \cup Pages(got.range) /\ Within(Users', Users)
PoolMoves == QuietStep \/ ZeroingStep \/ HandingStep \/ TakingStep \/ FailingStep

(* What has to be shown of an action. *)
VmGood == VmTypeOK' /\ VmCallsOK' /\ VmFreshIsZero' /\ PoolMoves

\* IdleZeroStep.
LEMMA IdleZeroGood == ASSUME VmInv, IdleZeroStep PROVE VmGood
<1>1. PICK head : vmReturned' = vmReturned \ head /\ Zeroed(vmPool, vmPool', head)
  <2>1. CASE EmptyEntries(vmPool.dirty) # Entries
    BY <2>1, ZeroDirtyKeeps DEF IdleZeroStep, VmInv
  <2>2. CASE EmptyEntries(vmPool.dirty) = Entries
    <3>1. vmReturned' = vmReturned \ {} /\ Zeroed(vmPool, vmPool', {})
      BY <2>2, ZeroFrontierKeeps DEF IdleZeroStep, VmInv
    <3>2. QED BY <3>1
  <2>3. QED BY <2>1, <2>2
<1>2. UNCHANGED <<vmCaps, vmMail, vmPend, vmChild>> BY DEF IdleZeroStep
<1>3. Users' = Users BY <1>2 DEF Users
<1>4. ZeroingStep BY <1>1, <1>2, <1>3, SubsetWithin DEF ZeroingStep
<1>5. VmTypeOK' /\ VmCallsOK' BY <1>2 DEF VmInv, VmTypeOK, VmCallsOK
<1>6. VmFreshIsZero'
  <2>1. vmPool'.stale \subseteq vmPool.stale BY <1>1 DEF Zeroed
  <2>2. QED BY <1>2, <2>1 DEF VmInv, VmFreshIsZero
<1>7. QED BY <1>4, <1>5, <1>6 DEF VmGood, PoolMoves

\* The pool does not change when the step leaves it alone.
LEMMA PoolSame == ASSUME VmInv, vmPool' = vmPool PROVE PoolStep(vmPool, vmPool')
BY DEF VmInv, PoolStep

\* TaskResume.
LEMMA TaskResumeGood == ASSUME VmInv, TaskResume, ~ ResumeEarly PROVE VmGood
<1>1. /\ vmChild.state = "suspended" /\ ~ CopyingImage
      /\ UNCHANGED <<vmPool, vmCaps, vmMail, vmPend, vmReturned>>
      /\ vmChild' = [vmChild EXCEPT !.state = "running"]
  BY DEF TaskResume
<1>2. vmChild'.image = vmChild.image /\ vmChild'.state = "running"
  BY <1>1 DEF VmInv, VmTypeOK
<1>3. Users' = Users BY <1>1, <1>2 DEF Users
<1>4. QuietStep BY <1>1, <1>3, SubsetWithin, PoolSame DEF QuietStep
<1>5. VmTypeOK' BY <1>1 DEF VmInv, VmTypeOK
<1>6. VmCallsOK' BY <1>1, <1>2 DEF VmInv, VmCallsOK, CopyingImage
<1>7. VmFreshIsZero' BY <1>1 DEF VmInv, VmFreshIsZero
<1>8. QED BY <1>4, <1>5, <1>6, <1>7 DEF VmGood, PoolMoves

\* The pages of a user that comes back may become clean, and no other ones.
LEMMA GiveBackStale ==
    ASSUME VmInv, NEW old \in Users, GiveBack(old.range)
    PROVE  vmPool'.stale \subseteq vmPool.stale
<1>1. PoolOK(vmPool) /\ Taken(vmPool, old.range) BY DEF VmInv, UsersOK
<1>2. Freed(vmPool, old.range, PoolFree(vmPool, old.range)) BY <1>1, Frees
<1>3. QED BY <1>2 DEF GiveBack, Freed

\* ExitAndRelease.
LEMMA ExitGood == ASSUME VmInv, ExitAndRelease PROVE VmGood
<1> DEFINE old == Holding("image", 0, vmChild.image)
<1>1. /\ vmChild.state = "running" /\ GiveBack(vmChild.image) /\ vmChild' = NoChild
      /\ UNCHANGED <<vmCaps, vmMail, vmPend>>
  BY DEF ExitAndRelease
<1>2. ~ Calling(vmPend) BY <1>1 DEF Calling, VmInv, VmCallsOK
<1>3. vmChild'.image = NoRange /\ vmChild'.state = "none" BY <1>1 DEF NoChild
<1>4. VmTypeOK' BY <1>1, NoRangeParts DEF VmInv, VmTypeOK, NoChild
<1>5. VmCallsOK' BY <1>1, <1>2, <1>3 DEF VmInv, VmCallsOK, Calling
<1>6. \A h : h \in Users' <=> IsUser(h, vmCaps, vmMail, vmPend, NoRange)
  BY <1>1, <1>3, UsersAre DEF Users
<1>7. \A h : h \in Users <=> IsUser(h, vmCaps, vmMail, vmPend, vmChild.image)
  BY UsersAre DEF Users
<1>8. vmChild.image # NoRange BY <1>1 DEF VmInv, VmCallsOK
<1>9. QED
  <2>1. old \in Users BY <1>2, <1>7, <1>8, HoldingParts DEF IsUser
  <2>2. old.range = vmChild.image BY HoldingParts
  <2>3. Users' \subseteq Users \ {old}
    <3>1. ASSUME NEW h \in Users' PROVE h \in Users /\ h # old
      <4>1. IsUser(h, vmCaps, vmMail, vmPend, NoRange) BY <1>6
      <4>2. IsUser(h, vmCaps, vmMail, vmPend, vmChild.image) /\ h.what # "image"
        BY <4>1, HoldingParts DEF IsUser
      <4>3. QED BY <1>7, <4>2, HoldingParts
    <3>2. QED BY <3>1
  <2>4. TakingStep BY <1>1, <2>1, <2>2, <2>3 DEF TakingStep
  <2>5. vmPool'.stale \subseteq vmPool.stale BY <1>1, <2>1, <2>2, GiveBackStale
  <2>6. VmFreshIsZero' BY <1>1, <2>5 DEF VmInv, VmFreshIsZero
  <2>7. QED BY <1>4, <1>5, <2>4, <2>6 DEF VmGood, PoolMoves

(* The first phase of a call of task t that asked for a range. *)
PhaseA(t, call, got) ==
    /\ HandOut(got)
    /\ vmPend' = [vmPend EXCEPT ![t] = [stage |-> IF got.zero THEN "zero" ELSE "publish",
                                        call |-> call, range |-> got.range]]

\* What the first phase leaves: the range is the call's, and clean if no other
\* phase is to zero it.
LEMMA PhaseAParts ==
    ASSUME VmInv, NEW t \in VmTask, vmPend[t] = Idle, NEW call \in {"create", "exec"}, NEW got, NEW n \in VmSize,
           Allocated(vmPool, n, got), PhaseA(t, call, got)
    PROVE  /\ vmPend' \in [VmTask -> [stage : {"none", "zero", "publish"},
                                       call : {"none", "create", "exec"}, range : Span]]
           /\ \A u \in VmTask : u # t => vmPend'[u] = vmPend[u]
           /\ vmPend'[t].stage # "none" /\ vmPend'[t].call = call /\ vmPend'[t].range = got.range
           /\ got.range \in Span /\ got.range # NoRange
           /\ VmFreshIsZero'
<1>1. PICK st : st = IF got.zero THEN "zero" ELSE "publish" OBVIOUS
<1>2. st \in {"zero", "publish"} BY <1>1
<1>3. st = "publish" => ~ got.zero BY <1>1, Zenon
<1>4. vmPend' = [vmPend EXCEPT ![t] = [stage |-> st, call |-> call, range |-> got.range]]
  BY <1>1 DEF PhaseA
<1>5. got.range \in Span /\ got.range # NoRange
  BY NoRangeParts, VmoAssumption DEF Allocated
<1>6. vmPend \in [VmTask -> [stage : {"none", "zero", "publish"},
                             call : {"none", "create", "exec"}, range : Span]]
  BY DEF VmInv, VmTypeOK
<1>7. /\ vmPend' \in [VmTask -> [stage : {"none", "zero", "publish"},
                                  call : {"none", "create", "exec"}, range : Span]]
      /\ \A u \in VmTask : u # t => vmPend'[u] = vmPend[u]
      /\ vmPend'[t] = [stage |-> st, call |-> call, range |-> got.range]
  BY <1>2, <1>4, <1>5, <1>6
<1>8. vmPool'.stale = vmPool.stale BY DEF PhaseA, HandOut, Allocated
<1>9. VmFreshIsZero'
  <2>1. ASSUME NEW u \in VmTask, vmPend'[u].stage = "publish"
        PROVE  Pages(vmPend'[u].range) \cap vmPool'.stale = {}
    <3>1. CASE u # t BY <1>7, <1>8, <2>1, <3>1 DEF VmInv, VmFreshIsZero
    <3>2. CASE u = t
      <4>1. ~ got.zero BY <1>3, <1>7, <2>1, <3>2
      <4>2. \A x \in Nat : In(x, got.range) => x \notin vmPool.stale BY <4>1 DEF Allocated
      <4>3. vmPend'[u].range = got.range BY <1>7, <3>2
      <4>4. \A x : x \in Pages(got.range) <=> x \in Nat /\ In(x, got.range) BY <1>5, PagesIn
      <4>5. QED BY <1>8, <4>2, <4>3, <4>4
    <3>3. QED BY <3>1, <3>2
  <2>2. QED BY <2>1 DEF VmFreshIsZero
<1>10. QED BY <1>2, <1>5, <1>7, <1>9

\* Reserve.
LEMMA ReserveGood ==
    ASSUME VmInv, NEW t \in VmTask, NEW n \in VmSize, Reserve(t, n) PROVE VmGood
<1> DEFINE new == Holding("call", t, AllocateNozero(vmPool, n).range)
<1>1. PICK got : got = AllocateNozero(vmPool, n) OBVIOUS
<1>2. /\ vmPend[t] = Idle /\ CanAllocate(vmPool, n) /\ PhaseA(t, "create", got)
      /\ UNCHANGED <<vmCaps, vmMail, vmChild>>
  BY <1>1 DEF Reserve, PhaseA
<1>3. n \in Nat /\ n > 0 BY VmoAssumption
<1>4. Allocated(vmPool, n, got) BY <1>1, <1>2, <1>3, Allocates DEF VmInv
<1>5. /\ vmPend' \in [VmTask -> [stage : {"none", "zero", "publish"},
                                  call : {"none", "create", "exec"}, range : Span]]
      /\ \A u \in VmTask : u # t => vmPend'[u] = vmPend[u]
      /\ vmPend'[t].stage # "none" /\ vmPend'[t].call = "create" /\ vmPend'[t].range = got.range
      /\ got.range \in Span /\ got.range # NoRange
      /\ VmFreshIsZero'
  BY <1>2, <1>4, PhaseAParts
<1>6. VmTypeOK' BY <1>2, <1>5 DEF VmInv, VmTypeOK
<1>7. vmPend[t].call = "none" BY <1>2 DEF Idle
<1>8. VmCallsOK' BY <1>2, <1>5, <1>7 DEF VmInv, VmCallsOK
<1>9. Users' \subseteq Users \cup {new}
  <2>1. Calling(vmPend') <=> Calling(vmPend) BY <1>5, <1>7 DEF Calling
  <2>2. ASSUME NEW h, IsUser(h, vmCaps, vmMail, vmPend', vmChild.image), h # new
        PROVE  IsUser(h, vmCaps, vmMail, vmPend, vmChild.image)
    <3>1. CASE \E u \in VmTask : h = Holding("call", u, vmPend'[u].range)
      <4>1. PICK u \in VmTask : h = Holding("call", u, vmPend'[u].range) BY <3>1
      <4>2. u # t BY <1>1, <1>5, <2>2, <4>1
      <4>3. h = Holding("call", u, vmPend[u].range) BY <1>5, <4>1, <4>2
      <4>4. QED BY <2>2, <4>3 DEF IsUser
    <3>2. QED BY <2>1, <2>2, <3>1 DEF IsUser
  <2>3. \A h : h \in Users' <=> IsUser(h, vmCaps, vmMail, vmPend', vmChild.image)
    BY <1>2, UsersAre DEF Users
  <2>4. \A h : h \in Users <=> IsUser(h, vmCaps, vmMail, vmPend, vmChild.image)
    BY UsersAre DEF Users
  <2> HIDE DEF new
  <2>5. QED BY <2>2, <2>3, <2>4
<1>10. HandingStep
  <2>1. new.range = AllocateNozero(vmPool, n).range BY HoldingParts
  <2>2. HandOut(AllocateNozero(vmPool, n)) BY <1>1, <1>2 DEF PhaseA
  <2> HIDE DEF new
  <2>3. QED BY <1>2, <1>9, <2>1, <2>2 DEF HandingStep
<1>11. QED BY <1>5, <1>6, <1>8, <1>10 DEF VmGood, PoolMoves

\* ExecPhaseA.
LEMMA ExecGood ==
    ASSUME VmInv, NEW t \in VmTask, NEW n \in VmSize, ExecPhaseA(t, n) PROVE VmGood
<1> DEFINE new == Holding("call", t, AllocateNozero(vmPool, n).range)
<1>1. PICK got : got = AllocateNozero(vmPool, n) OBVIOUS
<1>2. /\ vmPend[t] = Idle /\ vmChild.state = "none" /\ CanAllocate(vmPool, n)
      /\ UNCHANGED <<vmCaps, vmMail>>
  BY DEF ExecPhaseA
<1>3. n \in Nat /\ n > 0 BY VmoAssumption
<1>4. Allocated(vmPool, n, got) BY <1>1, <1>2, <1>3, Allocates DEF VmInv
<1>5. CASE PhaseA(t, "exec", got) /\ vmChild' = [state |-> "suspended", image |-> got.range]
  <2>1. /\ vmPend' \in [VmTask -> [stage : {"none", "zero", "publish"},
                                    call : {"none", "create", "exec"}, range : Span]]
        /\ \A u \in VmTask : u # t => vmPend'[u] = vmPend[u]
        /\ vmPend'[t].stage # "none" /\ vmPend'[t].call = "exec" /\ vmPend'[t].range = got.range
        /\ got.range \in Span /\ got.range # NoRange
        /\ VmFreshIsZero'
    BY <1>2, <1>4, <1>5, PhaseAParts
  <2>2. VmTypeOK' BY <1>2, <1>5, <2>1 DEF VmInv, VmTypeOK
  <2>3. vmChild'.state = "suspended" /\ vmChild'.image = got.range BY <1>5
  <2>4. ~ Calling(vmPend) BY <1>2 DEF VmInv, VmCallsOK, Calling
  <2>5. VmCallsOK' BY <2>1, <2>3, <2>4 DEF VmInv, VmCallsOK, Calling
  <2>6. Users' \subseteq Users \cup {new}
    <3>1. Calling(vmPend') BY <2>1 DEF Calling
    <3>2. ASSUME NEW h, IsUser(h, vmCaps, vmMail, vmPend', vmChild'.image), h # new
          PROVE  IsUser(h, vmCaps, vmMail, vmPend, vmChild.image)
      <4>1. CASE \E u \in VmTask : h = Holding("call", u, vmPend'[u].range)
        <5>1. PICK u \in VmTask : h = Holding("call", u, vmPend'[u].range) BY <4>1
        <5>2. u # t BY <1>1, <2>1, <3>2, <5>1
        <5>3. h = Holding("call", u, vmPend[u].range) BY <2>1, <5>1, <5>2
        <5>4. QED BY <3>2, <5>3 DEF IsUser
      <4>2. QED BY <3>1, <3>2, <4>1 DEF IsUser
    <3>3. \A h : h \in Users' <=> IsUser(h, vmCaps, vmMail, vmPend', vmChild'.image)
      BY <1>2, UsersAre DEF Users
    <3>4. \A h : h \in Users <=> IsUser(h, vmCaps, vmMail, vmPend, vmChild.image)
      BY UsersAre DEF Users
    <3> HIDE DEF new
    <3>5. QED BY <3>2, <3>3, <3>4
  <2>7. HandingStep
    <3>1. new.range = AllocateNozero(vmPool, n).range BY HoldingParts
    <3>2. HandOut(AllocateNozero(vmPool, n)) BY <1>1, <1>5 DEF PhaseA
    <3> HIDE DEF new
    <3>3. QED BY <1>2, <2>6, <3>1, <3>2 DEF HandingStep
  <2>8. QED BY <2>1, <2>2, <2>5, <2>7 DEF VmGood, PoolMoves
<1>6. CASE UNCHANGED <<vmPend, vmChild>>
           /\ vmPool'.stale \subseteq vmPool.stale /\ (Users' = Users => FailingStep \/ HandingStep)
  <2>1. VmTypeOK' /\ VmCallsOK' BY <1>2, <1>6 DEF VmInv, VmTypeOK, VmCallsOK
  <2>2. Users' = Users BY <1>2, <1>6 DEF Users
  <2>3. VmFreshIsZero' BY <1>6 DEF VmInv, VmFreshIsZero
  <2>4. QED BY <1>6, <2>1, <2>2, <2>3 DEF VmGood, PoolMoves
<1>7. CASE /\ vmPool' = PoolFree(got.pool, got.range)
           /\ vmReturned' = vmReturned \cup Pages(got.range) /\ UNCHANGED <<vmPend, vmChild>>
  <2>1. PoolOK(got.pool) /\ Taken(got.pool, got.range) /\ got.pool.stale = vmPool.stale
    BY <1>4 DEF Allocated
  <2>2. Freed(got.pool, got.range, PoolFree(got.pool, got.range)) BY <2>1, Frees
  <2>3. vmPool'.stale \subseteq vmPool.stale BY <1>7, <2>1, <2>2 DEF Freed
  <2>4. Users' = Users => FailingStep BY <1>1, <1>2, <1>7, SubsetWithin DEF FailingStep
  <2>5. QED BY <1>6, <1>7, <2>3, <2>4
<1>8. CASE HandOut(got) /\ UNCHANGED <<vmPend, vmChild>>
  <2>1. vmPool'.stale = vmPool.stale BY <1>4, <1>8 DEF Allocated, HandOut
  <2>2. new.range = AllocateNozero(vmPool, n).range BY HoldingParts
  <2> HIDE DEF new
  <2>3. Users' = Users => Users' \subseteq Users \cup {new} OBVIOUS
  <2>4. Users' = Users => HandingStep BY <1>1, <1>2, <1>8, <2>2, <2>3 DEF HandingStep
  <2>5. QED BY <1>6, <1>8, <2>1, <2>4
<1>9. QED BY <1>1, <1>5, <1>7, <1>8 DEF ExecPhaseA, PhaseA

\* The pool when the contents of the range of a user change.
LEMMA UserStale ==
    ASSUME VmInv, NEW old \in Users, NEW s, s \subseteq vmPool.stale \cup Pages(old.range),
           vmPool' = [vmPool EXCEPT !.stale = s], vmReturned' = vmReturned, Within(Users', Users)
    PROVE  QuietStep /\ vmPool'.stale = s
<1>1. PoolOK(vmPool) /\ Taken(vmPool, old.range) BY DEF VmInv, UsersOK
<1>2. PoolStep(vmPool, vmPool') /\ vmPool'.stale = s BY <1>1, StaleKeeps DEF PoolStep
<1>3. vmPool \in VmPoolType BY <1>1 DEF PoolOK
<1>4. /\ vmPool'.next = vmPool.next /\ vmPool'.free = vmPool.free
      /\ vmPool'.dirty = vmPool.dirty /\ vmPool'.leaked = vmPool.leaked
  BY <1>3 DEF VmPoolType
<1>5. QED BY <1>2, <1>4 DEF QuietStep

\* A call that has a range is a user.
LEMMA CallIsUser ==
    ASSUME VmInv, NEW t \in VmTask, vmPend[t].stage # "none"
    PROVE  Holding("call", t, vmPend[t].range) \in Users
<1>1. vmPend[t].range # NoRange BY DEF VmInv, VmCallsOK
<1>2. IsUser(Holding("call", t, vmPend[t].range), vmCaps, vmMail, vmPend, vmChild.image)
  BY <1>1, HoldingParts DEF IsUser
<1>3. QED BY <1>2, UsersAre DEF Users

\* ZeroRange.
LEMMA ZeroRangeGood == ASSUME VmInv, NEW t \in VmTask, ZeroRange(t) PROVE VmGood
<1> DEFINE old == Holding("call", t, vmPend[t].range)
           s == vmPool.stale \ Pages(vmPend[t].range)
<1>1. /\ vmPend[t].stage = "zero" /\ vmPool' = [vmPool EXCEPT !.stale = s]
      /\ vmPend' = [vmPend EXCEPT ![t].stage = "publish"]
      /\ UNCHANGED <<vmCaps, vmMail, vmChild, vmReturned>>
  BY DEF ZeroRange
<1>2. vmPend \in [VmTask -> [stage : {"none", "zero", "publish"},
                             call : {"none", "create", "exec"}, range : Span]]
  BY DEF VmInv, VmTypeOK
<1>3. /\ vmPend' \in [VmTask -> [stage : {"none", "zero", "publish"},
                                 call : {"none", "create", "exec"}, range : Span]]
      /\ \A u \in VmTask : u # t => vmPend'[u] = vmPend[u]
      /\ vmPend'[t].stage = "publish"
      /\ \A u \in VmTask : vmPend'[u].call = vmPend[u].call /\ vmPend'[u].range = vmPend[u].range
  BY <1>1, <1>2
<1>4. VmTypeOK' BY <1>1, <1>3 DEF VmInv, VmTypeOK
<1>5. VmCallsOK' BY <1>1, <1>3 DEF VmInv, VmCallsOK
<1>6. Users' \subseteq Users
  <2>1. Calling(vmPend') <=> Calling(vmPend) BY <1>3 DEF Calling
  <2>2. \A h : IsUser(h, vmCaps, vmMail, vmPend', vmChild.image)
                 => IsUser(h, vmCaps, vmMail, vmPend, vmChild.image)
    BY <1>3, <2>1 DEF IsUser
  <2>3. \A h : h \in Users' <=> IsUser(h, vmCaps, vmMail, vmPend', vmChild.image)
    BY <1>1, UsersAre DEF Users
  <2>4. \A h : h \in Users <=> IsUser(h, vmCaps, vmMail, vmPend, vmChild.image)
    BY UsersAre DEF Users
  <2>5. QED BY <2>2, <2>3, <2>4
<1>7. QuietStep /\ vmPool'.stale = s
  <2>1. old \in Users BY <1>1, CallIsUser
  <2>2. s \subseteq vmPool.stale \cup Pages(old.range) OBVIOUS
  <2> HIDE DEF old, s
  <2>3. QED BY <1>1, <1>6, <2>1, <2>2, SubsetWithin, UserStale
<1>8. VmFreshIsZero' BY <1>3, <1>7 DEF VmInv, VmFreshIsZero
<1>9. QED BY <1>4, <1>5, <1>7, <1>8 DEF VmGood, PoolMoves

\* The pages of two users are apart.
LEMMA UsersApart ==
    ASSUME VmInv, NEW g \in Users, NEW h \in Users, g # h
    PROVE  Pages(g.range) \cap Pages(h.range) = {}
<1>1. Off(g.range, h.range) /\ g.range \in Span /\ h.range \in Span BY DEF VmInv, UsersOK, Taken
<1>2. QED BY <1>1, OffPages

\* CopySegments.
LEMMA CopySegmentsGood == ASSUME VmInv, NEW t \in VmTask, CopySegments(t) PROVE VmGood
<1> DEFINE old == Holding("call", t, vmPend[t].range)
           new == Holding("image", 0, vmPend[t].range)
           s == vmPool.stale \cup Pages(vmPend[t].range)
<1>1. /\ vmPend[t].stage = "publish" /\ vmPend[t].call = "exec"
      /\ vmPool' = [vmPool EXCEPT !.stale = s] /\ vmPend' = [vmPend EXCEPT ![t] = Idle]
      /\ UNCHANGED <<vmCaps, vmMail, vmChild, vmReturned>>
  BY DEF CopySegments
<1>2. vmPend \in [VmTask -> [stage : {"none", "zero", "publish"},
                             call : {"none", "create", "exec"}, range : Span]]
  BY DEF VmInv, VmTypeOK
<1>3. Idle.stage = "none" /\ Idle.call = "none" /\ Idle.range = NoRange BY DEF Idle
<1>4. /\ vmPend' \in [VmTask -> [stage : {"none", "zero", "publish"},
                                 call : {"none", "create", "exec"}, range : Span]]
      /\ \A u \in VmTask : u # t => vmPend'[u] = vmPend[u]
      /\ vmPend'[t] = Idle
  BY <1>1, <1>2, NoRangeParts DEF Idle
<1>5. VmTypeOK' BY <1>1, <1>4 DEF VmInv, VmTypeOK
<1>6. VmCallsOK' BY <1>1, <1>3, <1>4 DEF VmInv, VmCallsOK
<1>7. old \in Users /\ old.range = vmPend[t].range /\ new.range = vmPend[t].range
  BY <1>1, CallIsUser, HoldingParts
<1>8. Users' \subseteq (Users \ {old}) \cup {new}
  <2>1. vmChild.image = vmPend[t].range BY <1>1 DEF VmInv, VmCallsOK
  <2>2. ASSUME NEW h, IsUser(h, vmCaps, vmMail, vmPend', vmChild.image), h # new
        PROVE  IsUser(h, vmCaps, vmMail, vmPend, vmChild.image) /\ h # old
    <3>1. CASE \E u \in VmTask : h = Holding("call", u, vmPend'[u].range)
      <4>1. PICK u \in VmTask : h = Holding("call", u, vmPend'[u].range) BY <3>1
      <4>2. h.range = vmPend'[u].range /\ h.at = u BY <4>1, HoldingParts
      <4>3. u # t BY <1>3, <1>4, <2>2, <4>2 DEF IsUser
      <4>4. h = Holding("call", u, vmPend[u].range) BY <1>4, <4>1, <4>3
      <4>5. old.at = t BY HoldingParts
      <4>6. QED BY <2>2, <4>2, <4>3, <4>4, <4>5 DEF IsUser
    <3>2. CASE h.what = "vmo" /\ IsUser(h, vmCaps, vmMail, vmPend, vmChild.image)
      BY <3>2, HoldingParts
    <3>3. h.what = "vmo" => IsUser(h, vmCaps, vmMail, vmPend, vmChild.image)
      BY <2>2, HoldingParts DEF IsUser
    <3>4. \/ \E u \in VmTask : h = Holding("call", u, vmPend'[u].range)
          \/ h.what = "vmo"
      BY <2>1, <2>2, HoldingParts DEF IsUser
    <3>5. QED BY <3>1, <3>2, <3>3, <3>4
  <2>3. \A h : h \in Users' <=> IsUser(h, vmCaps, vmMail, vmPend', vmChild.image)
    BY <1>1, UsersAre DEF Users
  <2>4. \A h : h \in Users <=> IsUser(h, vmCaps, vmMail, vmPend, vmChild.image)
    BY UsersAre DEF Users
  <2> HIDE DEF new, old
  <2>5. QED BY <2>2, <2>3, <2>4
<1>9. QuietStep /\ vmPool'.stale = s
  <2>1. s \subseteq vmPool.stale \cup Pages(old.range) BY <1>7
  <2>2. new.range = old.range BY <1>7
  <2> HIDE DEF old, new, s
  <2>3. Within(Users', Users) BY <1>7, <1>8, <2>2, MovedWithin
  <2>4. QED BY <1>1, <1>7, <2>1, <2>3, UserStale
<1>10. VmFreshIsZero'
  <2>1. ASSUME NEW u \in VmTask, vmPend'[u].stage = "publish"
        PROVE  Pages(vmPend'[u].range) \cap vmPool'.stale = {}
    <3> DEFINE g == Holding("call", u, vmPend[u].range)
    <3>1. u # t /\ vmPend'[u] = vmPend[u] /\ vmPend[u].stage = "publish" BY <1>3, <1>4, <2>1
    <3>2. g \in Users BY <3>1, CallIsUser
    <3>3. g # old BY <3>1, HoldingParts
    <3>4. Pages(g.range) \cap Pages(old.range) = {}
      <4> HIDE DEF g, old
      <4> QED BY <1>7, <3>2, <3>3, UsersApart
    <3>5. g.range = vmPend[u].range BY HoldingParts
    <3>6. Pages(vmPend[u].range) \cap vmPool.stale = {} BY <3>1 DEF VmInv, VmFreshIsZero
    <3> HIDE DEF g, old
    <3>7. QED BY <1>7, <1>9, <3>1, <3>4, <3>5, <3>6
  <2>2. QED BY <2>1 DEF VmFreshIsZero
<1>11. QED BY <1>5, <1>6, <1>9, <1>10 DEF VmGood, PoolMoves

\* VmoWrite.
LEMMA WriteGood ==
    ASSUME VmInv, NEW t \in VmTask, NEW s \in 1..VmSlots, VmoWrite(t, s) PROVE VmGood
<1> DEFINE old == Holding("vmo", 0, vmCaps[t][s])
           st == vmPool.stale \cup Pages(vmCaps[t][s])
<1>1. /\ vmCaps[t][s] # NoRange /\ vmPool' = [vmPool EXCEPT !.stale = st]
      /\ UNCHANGED <<vmCaps, vmMail, vmPend, vmChild, vmReturned>>
  BY DEF VmoWrite, Holds
<1>2. VmTypeOK' /\ VmCallsOK' BY <1>1 DEF VmInv, VmTypeOK, VmCallsOK
<1>3. Users' = Users BY <1>1 DEF Users
<1>4. old \in Users /\ old.range = vmCaps[t][s]
  BY <1>1, UsersAre, HoldingParts DEF Users, IsUser
<1>5. QuietStep /\ vmPool'.stale = st
  <2>1. st \subseteq vmPool.stale \cup Pages(old.range) BY <1>4
  <2> HIDE DEF old, st
  <2>2. QED BY <1>1, <1>3, <1>4, <2>1, SubsetWithin, UserStale
<1>6. VmFreshIsZero'
  <2>1. ASSUME NEW u \in VmTask, vmPend'[u].stage = "publish"
        PROVE  Pages(vmPend'[u].range) \cap vmPool'.stale = {}
    <3> DEFINE g == Holding("call", u, vmPend[u].range)
    <3>1. vmPend'[u] = vmPend[u] /\ vmPend[u].stage = "publish" BY <1>1, <2>1
    <3>2. g \in Users BY <3>1, CallIsUser
    <3>3. g # old BY HoldingParts
    <3>4. Pages(g.range) \cap Pages(old.range) = {}
      <4> HIDE DEF g, old
      <4> QED BY <1>4, <3>2, <3>3, UsersApart
    <3>5. g.range = vmPend[u].range BY HoldingParts
    <3>6. Pages(vmPend[u].range) \cap vmPool.stale = {} BY <3>1 DEF VmInv, VmFreshIsZero
    <3> HIDE DEF g, old
    <3>7. QED BY <1>4, <1>5, <3>1, <3>4, <3>5, <3>6
  <2>2. QED BY <2>1 DEF VmFreshIsZero
<1>7. QED BY <1>2, <1>5, <1>6 DEF VmGood, PoolMoves

(* The capabilities and the message name no range that none named before. *)
NamedBefore(r) ==
    r = NoRange \/ r = vmMail \/ \E v \in VmTask, e \in 1..VmSlots : r = vmCaps[v][e]
NamesBefore ==
    /\ \A u \in VmTask, d \in 1..VmSlots : NamedBefore(vmCaps'[u][d])
    /\ NamedBefore(vmMail')

\* Copying and closing capabilities makes no new user.
LEMMA NamesGood ==
    ASSUME VmInv, NamesBefore, vmCaps' \in [VmTask -> [1..VmSlots -> Span]], vmMail' \in Span,
           UNCHANGED <<vmPool, vmPend, vmChild, vmReturned>>
    PROVE  VmGood
<1>1. VmTypeOK' /\ VmCallsOK' /\ VmFreshIsZero'
  BY DEF VmInv, VmTypeOK, VmCallsOK, VmFreshIsZero
<1>2. Users' \subseteq Users
  <2>1. ASSUME NEW h, IsUser(h, vmCaps', vmMail', vmPend, vmChild.image)
        PROVE  IsUser(h, vmCaps, vmMail, vmPend, vmChild.image)
    <3>1. ASSUME NEW r, h = Holding("vmo", 0, r), NamedBefore(r)
          PROVE  IsUser(h, vmCaps, vmMail, vmPend, vmChild.image)
      <4>1. r # NoRange BY <2>1, <3>1, HoldingParts DEF IsUser
      <4>2. QED BY <2>1, <3>1, <4>1 DEF IsUser, NamedBefore
    <3>2. QED BY <2>1, <3>1 DEF IsUser, NamesBefore
  <2>2. \A h : h \in Users' <=> IsUser(h, vmCaps', vmMail', vmPend, vmChild.image)
    BY UsersAre DEF Users
  <2>3. \A h : h \in Users <=> IsUser(h, vmCaps, vmMail, vmPend, vmChild.image)
    BY UsersAre DEF Users
  <2>4. QED BY <2>1, <2>2, <2>3
<1>3. QuietStep BY <1>2, SubsetWithin, PoolSame DEF QuietStep
<1>4. QED BY <1>1, <1>3 DEF VmGood, PoolMoves

\* One capability slot is set.
SetsSlot(u, d, r) == vmCaps' = [vmCaps EXCEPT ![u][d] = r]

OnlySlot(u, d, r) ==
    /\ vmCaps' \in [VmTask -> [1..VmSlots -> Span]] /\ vmCaps'[u][d] = r
    /\ \A v \in VmTask, e \in 1..VmSlots : <<v, e>> # <<u, d>> => vmCaps'[v][e] = vmCaps[v][e]

LEMMA SlotSet ==
    ASSUME VmInv, NEW u \in VmTask, NEW d \in 1..VmSlots, NEW r \in Span, SetsSlot(u, d, r)
    PROVE  OnlySlot(u, d, r)
<1>1. vmCaps \in [VmTask -> [1..VmSlots -> Span]] BY DEF VmInv, VmTypeOK
<1>2. QED BY <1>1 DEF SetsSlot, OnlySlot

\* CopyOrClose.
LEMMA CopyOrCloseGood ==
    ASSUME VmInv, NEW t \in VmTask, NEW s \in 1..VmSlots, CopyOrClose(t, s) PROVE VmGood
<1>1. UNCHANGED <<vmPool, vmMail, vmPend, vmChild, vmReturned>> BY DEF CopyOrClose
<1>2. PICK u \in VmTask, d \in 1..VmSlots, r \in {NoRange, vmCaps[t][s]} :
          vmCaps' = [vmCaps EXCEPT ![u][d] = r]
  <2>1. CASE \E u \in VmTask, d \in 1..VmSlots : vmCaps' = [vmCaps EXCEPT ![u][d] = vmCaps[t][s]]
    BY <2>1
  <2>2. CASE vmCaps' = [vmCaps EXCEPT ![t][s] = NoRange] BY <2>2
  <2>3. QED BY <2>1, <2>2 DEF CopyOrClose
<1>3. vmCaps[t][s] \in Span /\ vmMail \in Span BY DEF VmInv, VmTypeOK
<1>4. r \in Span BY <1>2, <1>3, NoRangeParts
<1>5. /\ vmCaps' \in [VmTask -> [1..VmSlots -> Span]] /\ vmCaps'[u][d] = r
      /\ \A v \in VmTask, e \in 1..VmSlots : <<v, e>> # <<u, d>> => vmCaps'[v][e] = vmCaps[v][e]
  <2>1. SetsSlot(u, d, r) BY <1>2 DEF SetsSlot
  <2>2. OnlySlot(u, d, r) BY <1>4, <2>1, SlotSet
  <2>3. QED BY <2>2 DEF OnlySlot
<1>6. ASSUME NEW v \in VmTask, NEW e \in 1..VmSlots PROVE NamedBefore(vmCaps'[v][e])
  <2>1. CASE <<v, e>> = <<u, d>>
    <3>1. v = u /\ e = d BY <2>1
    <3>2. QED BY <1>2, <1>5, <3>1 DEF NamedBefore
  <2>2. CASE <<v, e>> # <<u, d>> BY <1>5, <2>2 DEF NamedBefore
  <2>3. QED BY <2>1, <2>2
<1>7. NamesBefore BY <1>1, <1>6 DEF NamesBefore, NamedBefore
<1>8. QED BY <1>1, <1>3, <1>5, <1>7, NamesGood

\* SendOrReceive.
LEMMA SendOrReceiveGood ==
    ASSUME VmInv, NEW t \in VmTask, NEW s \in 1..VmSlots, SendOrReceive(t, s) PROVE VmGood
<1>1. UNCHANGED <<vmPool, vmPend, vmChild, vmReturned>> BY DEF SendOrReceive
<1>2. vmCaps \in [VmTask -> [1..VmSlots -> Span]] /\ vmMail \in Span BY DEF VmInv, VmTypeOK
<1>3. CASE vmMail' = vmCaps[t][s] /\ UNCHANGED vmCaps
  <2>1. NamesBefore BY <1>3 DEF NamesBefore, NamedBefore
  <2>2. vmMail' \in Span /\ vmCaps' \in [VmTask -> [1..VmSlots -> Span]] BY <1>2, <1>3
  <2>3. QED BY <1>1, <2>1, <2>2, NamesGood
<1>4. CASE vmCaps' = [vmCaps EXCEPT ![t][s] = vmMail] /\ vmMail' = NoRange
  <2>1. /\ vmCaps' \in [VmTask -> [1..VmSlots -> Span]] /\ vmCaps'[t][s] = vmMail
        /\ \A v \in VmTask, e \in 1..VmSlots : <<v, e>> # <<t, s>> => vmCaps'[v][e] = vmCaps[v][e]
    <3>1. SetsSlot(t, s, vmMail) BY <1>4 DEF SetsSlot
    <3>2. OnlySlot(t, s, vmMail) BY <1>2, <3>1, SlotSet
    <3>3. QED BY <3>2 DEF OnlySlot
  <2>2. ASSUME NEW v \in VmTask, NEW e \in 1..VmSlots PROVE NamedBefore(vmCaps'[v][e])
    <3>1. CASE <<v, e>> = <<t, s>>
      <4>1. v = t /\ e = s BY <3>1
      <4>2. QED BY <2>1, <4>1 DEF NamedBefore
    <3>2. CASE <<v, e>> # <<t, s>> BY <2>1, <3>2 DEF NamedBefore
    <3>3. QED BY <3>1, <3>2
  <2>3. NamesBefore BY <1>4, <2>2 DEF NamesBefore, NamedBefore
  <2>4. QED BY <1>1, <1>4, <2>1, <2>3, NoRangeParts, NamesGood
<1>5. QED BY <1>3, <1>4 DEF SendOrReceive

\* VmoDestroy: the one reference is the slot that is emptied.
LEMMA DestroyGood ==
    ASSUME VmInv, NEW t \in VmTask, NEW s \in 1..VmSlots, VmoDestroy(t, s), ~ DestroySent
    PROVE  VmGood
<1> DEFINE r == vmCaps[t][s]
           old == Holding("vmo", 0, r)
<1>1. /\ r # NoRange /\ Cardinality(References(r)) = 1 /\ Pages(vmMail) \cap Pages(r) = {}
      /\ GiveBack(r) /\ vmCaps' = [vmCaps EXCEPT ![t][s] = NoRange]
      /\ UNCHANGED <<vmMail, vmPend, vmChild>>
  BY DEF VmoDestroy, CanDestroy, Holds
<1>2. vmCaps \in [VmTask -> [1..VmSlots -> Span]] /\ vmMail \in Span BY DEF VmInv, VmTypeOK
<1>3. /\ vmCaps' \in [VmTask -> [1..VmSlots -> Span]] /\ vmCaps'[t][s] = NoRange
      /\ \A v \in VmTask, e \in 1..VmSlots : <<v, e>> # <<t, s>> => vmCaps'[v][e] = vmCaps[v][e]
  <2>1. SetsSlot(t, s, NoRange) BY <1>1 DEF SetsSlot
  <2>2. OnlySlot(t, s, NoRange) BY <2>1, SlotSet, NoRangeParts
  <2>3. QED BY <2>2 DEF OnlySlot
<1>4. VmTypeOK' /\ VmCallsOK' BY <1>1, <1>3 DEF VmInv, VmTypeOK, VmCallsOK
<1>5. old \in Users /\ old.range = r
  BY <1>1, UsersAre, HoldingParts DEF Users, IsUser
<1>6. Pages(r) # {}
  <2>1. r \in Span /\ r[2] > 0 BY <1>5 DEF VmInv, UsersOK, Taken
  <2>2. r[1] \in Nat /\ In(r[1], r) BY <2>1, SpanParts DEF In
  <2>3. QED BY <2>1, <2>2, PagesIn
<1>7. vmMail # r BY <1>1, <1>6
<1>8. ASSUME NEW v \in VmTask, NEW e \in 1..VmSlots, vmCaps[v][e] = r PROVE v = t /\ e = s
  <2>1. <<v, e>> \in References(r) /\ <<t, s>> \in References(r) BY <1>6, <1>8 DEF References
  <2>2. PICK c : References(r) = {c}
    <3>1. IsFiniteSet(VmTask \X (1..VmSlots))
      <4>1. IsFiniteSet(VmTask) /\ IsFiniteSet(1..VmSlots) BY VmoAssumption, FS_Interval
      <4>2. QED BY <4>1, FS_Product
    <3>2. References(r) \subseteq VmTask \X (1..VmSlots) BY DEF References
    <3>3. IsFiniteSet(References(r)) BY <3>1, <3>2, FS_Subset
    <3>4. QED BY <1>1, <3>3, FS_Singleton
  <2>3. QED BY <2>1, <2>2
<1> HIDE DEF r
<1>9. Users' \subseteq Users \ {old}
  <2>1. ASSUME NEW h, IsUser(h, vmCaps', vmMail, vmPend, vmChild.image)
        PROVE  IsUser(h, vmCaps, vmMail, vmPend, vmChild.image) /\ h # old
    <3>1. CASE \E v \in VmTask, e \in 1..VmSlots : h = Holding("vmo", 0, vmCaps'[v][e])
      <4>1. PICK v \in VmTask, e \in 1..VmSlots : h = Holding("vmo", 0, vmCaps'[v][e]) BY <3>1
      <4>2. h.range = vmCaps'[v][e] /\ h.range # NoRange BY <2>1, <4>1, HoldingParts DEF IsUser
      <4>3. <<v, e>> # <<t, s>> BY <1>3, <4>2
      <4>4. vmCaps'[v][e] = vmCaps[v][e] BY <1>3, <4>3
      <4>5. vmCaps[v][e] # r BY <1>8, <4>3
      <4>6. h # old BY <1>5, <4>2, <4>4, <4>5
      <4>7. QED BY <2>1, <4>1, <4>4, <4>6 DEF IsUser
    <3>2. CASE h = Holding("vmo", 0, vmMail) BY <1>7, <2>1, <3>2, HoldingParts DEF IsUser
    <3>3. CASE h.what # "vmo" BY <2>1, <3>3, HoldingParts DEF IsUser
    <3>4. QED BY <2>1, <3>1, <3>2, <3>3, HoldingParts DEF IsUser
  <2>2. \A h : h \in Users' <=> IsUser(h, vmCaps', vmMail, vmPend, vmChild.image)
    BY <1>1, UsersAre DEF Users
  <2>3. \A h : h \in Users <=> IsUser(h, vmCaps, vmMail, vmPend, vmChild.image)
    BY UsersAre DEF Users
  <2> HIDE DEF old
  <2>4. QED BY <2>1, <2>2, <2>3
<1>10. TakingStep BY <1>1, <1>5, <1>9 DEF TakingStep
<1>11. VmFreshIsZero'
  <2>1. vmPool'.stale \subseteq vmPool.stale
    <3> HIDE DEF old
    <3> QED BY <1>1, <1>5, GiveBackStale
  <2>2. QED BY <1>1, <2>1 DEF VmInv, VmFreshIsZero
<1>12. QED BY <1>4, <1>10, <1>11 DEF VmGood, PoolMoves

\* CreateFinish: the range is the call's until a capability names it.
LEMMA CreateFinishGood ==
    ASSUME VmInv, NEW t \in VmTask, NEW named \in 0..VmSlots, CreateFinish(t, named) PROVE VmGood
<1> DEFINE r == vmPend[t].range
           old == Holding("call", t, r)
           new == Holding("vmo", 0, r)
           free == {s \in 1..VmSlots : vmCaps[t][s] = NoRange}
           into == IF named # 0 THEN {named} ELSE IF free = {} THEN {} ELSE {Min(free)}
           caps == [vmCaps EXCEPT ![t] = [s \in 1..VmSlots |-> IF s \in into THEN r ELSE @[s]]]
<1>1. /\ vmPend[t].stage = "publish" /\ vmPend[t].call = "create"
      /\ vmPend' = [vmPend EXCEPT ![t] = Idle] /\ UNCHANGED <<vmMail, vmChild>>
      /\ IF into = {} THEN GiveBack(r) /\ UNCHANGED vmCaps
         ELSE vmCaps' = caps /\ UNCHANGED <<vmPool, vmReturned>>
  BY DEF CreateFinish
<1> HIDE DEF into
<1>2. vmPend \in [VmTask -> [stage : {"none", "zero", "publish"},
                             call : {"none", "create", "exec"}, range : Span]]
  BY DEF VmInv, VmTypeOK
<1>3. Idle.stage = "none" /\ Idle.call = "none" /\ Idle.range = NoRange BY DEF Idle
<1>4. /\ vmPend' \in [VmTask -> [stage : {"none", "zero", "publish"},
                                 call : {"none", "create", "exec"}, range : Span]]
      /\ \A u \in VmTask : u # t => vmPend'[u] = vmPend[u]
      /\ vmPend'[t] = Idle
  BY <1>1, <1>2, NoRangeParts DEF Idle
<1>5. VmCallsOK' BY <1>1, <1>3, <1>4 DEF VmInv, VmCallsOK
<1>6. old \in Users /\ old.range = r /\ new.range = r BY <1>1, CallIsUser, HoldingParts
<1>7. r \in Span BY <1>2
<1>8. /\ vmCaps' \in [VmTask -> [1..VmSlots -> Span]]
      /\ \A u \in VmTask, d \in 1..VmSlots :
             vmCaps'[u][d] = vmCaps[u][d] \/ (into # {} /\ vmCaps'[u][d] = r)
  <2>1. vmCaps \in [VmTask -> [1..VmSlots -> Span]] BY DEF VmInv, VmTypeOK
  <2> HIDE DEF r
  <2>2. CASE into = {} BY <1>1, <2>1, <2>2
  <2>3. CASE into # {}
    <3>1. vmCaps' = caps BY <1>1, <2>3
    <3>2. /\ caps \in [VmTask -> [1..VmSlots -> Span]]
          /\ \A u \in VmTask : u # t => caps[u] = vmCaps[u]
          /\ caps[t] = [s \in 1..VmSlots |-> IF s \in into THEN r ELSE vmCaps[t][s]]
      BY <1>7, <2>1
    <3> HIDE DEF caps
    <3>3. QED BY <2>3, <3>1, <3>2
  <2>4. QED BY <2>2, <2>3
<1>9. VmTypeOK' BY <1>1, <1>4, <1>8 DEF VmInv, VmTypeOK
<1> HIDE DEF r
<1>10. ASSUME NEW h, IsUser(h, vmCaps', vmMail, vmPend', vmChild.image)
       PROVE  h # old /\ (IsUser(h, vmCaps, vmMail, vmPend, vmChild.image) \/ (into # {} /\ h = new))
  <2>1. CASE \E u \in VmTask : h = Holding("call", u, vmPend'[u].range)
    <3>1. PICK u \in VmTask : h = Holding("call", u, vmPend'[u].range) BY <2>1
    <3>2. h.range = vmPend'[u].range /\ h.at = u BY <3>1, HoldingParts
    <3>3. u # t BY <1>3, <1>4, <1>10, <3>2 DEF IsUser
    <3>4. h = Holding("call", u, vmPend[u].range) BY <1>4, <3>1, <3>3
    <3>5. old.at = t BY HoldingParts
    <3>6. QED BY <1>10, <3>2, <3>3, <3>4, <3>5 DEF IsUser
  <2>2. CASE \E u \in VmTask, d \in 1..VmSlots : h = Holding("vmo", 0, vmCaps'[u][d])
    <3>1. PICK u \in VmTask, d \in 1..VmSlots : h = Holding("vmo", 0, vmCaps'[u][d]) BY <2>2
    <3>2. h # old BY <3>1, HoldingParts
    <3>3. QED BY <1>8, <1>10, <3>1, <3>2 DEF IsUser
  <2>3. CASE h = Holding("vmo", 0, vmMail) BY <1>10, <2>3, HoldingParts DEF IsUser
  <2>4. CASE ~ Calling(vmPend') /\ h = Holding("image", 0, vmChild.image)
    <3>1. ~ Calling(vmPend) BY <1>1, <1>4, <2>4 DEF Calling
    <3>2. QED BY <1>10, <2>4, <3>1, HoldingParts DEF IsUser
  <2>5. QED BY <1>10, <2>1, <2>2, <2>3, <2>4 DEF IsUser
<1>11. \A h : h \in Users' <=> IsUser(h, vmCaps', vmMail, vmPend', vmChild.image)
  BY <1>1, UsersAre DEF Users
<1>12. \A h : h \in Users <=> IsUser(h, vmCaps, vmMail, vmPend, vmChild.image)
  BY UsersAre DEF Users
<1> HIDE DEF old, new
<1>13. vmPool'.stale \subseteq vmPool.stale /\ PoolMoves
  <2>1. CASE into = {}
    <3>1. GiveBack(old.range) BY <1>1, <1>6, <2>1
    <3>2. Users' \subseteq Users \ {old} BY <1>10, <1>11, <1>12, <2>1
    <3>3. TakingStep BY <1>6, <3>1, <3>2 DEF TakingStep
    <3>4. QED BY <1>6, <3>1, <3>3, GiveBackStale DEF PoolMoves
  <2>2. CASE into # {}
    <3>1. vmPool' = vmPool /\ vmReturned' = vmReturned BY <1>1, <2>2
    <3>2. Users' \subseteq (Users \ {old}) \cup {new} BY <1>10, <1>11, <1>12
    <3>3. new.range = old.range BY <1>6
    <3>4. Within(Users', Users) BY <1>6, <3>2, <3>3, MovedWithin
    <3>5. QuietStep BY <3>1, <3>4, PoolSame DEF QuietStep
    <3>6. QED BY <3>1, <3>5 DEF PoolMoves
  <2>3. QED BY <2>1, <2>2
<1>14. VmFreshIsZero'
  <2>1. ASSUME NEW u \in VmTask, vmPend'[u].stage = "publish"
        PROVE  Pages(vmPend'[u].range) \cap vmPool'.stale = {}
    <3>1. u # t /\ vmPend'[u] = vmPend[u] /\ vmPend[u].stage = "publish" BY <1>3, <1>4, <2>1
    <3>2. QED BY <1>13, <3>1 DEF VmInv, VmFreshIsZero
  <2>2. QED BY <2>1 DEF VmFreshIsZero
<1>15. QED BY <1>5, <1>9, <1>13, <1>14 DEF VmGood

\* Every action is one of the moves of the pool.
LEMMA VmStepGood ==
    ASSUME ~ DestroySent, ~ ResumeEarly, VmInv, VmNext PROVE VmGood
BY IdleZeroGood, TaskResumeGood, ExitGood, ReserveGood, ExecGood, ZeroRangeGood, CopySegmentsGood,
   CreateFinishGood, DestroyGood, WriteGood, CopyOrCloseGood, SendOrReceiveGood DEF VmNext

\* The moves keep the pool and its users in order.
LEMMA MovesKeep ==
    ASSUME PoolOK(vmPool), UsersOK(Users, vmPool), PoolMoves
    PROVE  PoolOK(vmPool') /\ UsersOK(Users', vmPool')
<1>1. CASE QuietStep BY <1>1, WithinKeeps DEF QuietStep, PoolStep
<1>2. CASE ZeroingStep BY <1>2, WithinKeeps DEF ZeroingStep, Zeroed, PoolStep
<1>3. CASE HandingStep
  <2>0. PICK n \in VmSize : \E new, got :
            /\ got = AllocateNozero(vmPool, n) /\ CanAllocate(vmPool, n) /\ HandOut(got)
            /\ new.range = got.range /\ Users' \subseteq Users \cup {new}
    BY <1>3 DEF HandingStep
  <2>1. PICK new, got :
            /\ got = AllocateNozero(vmPool, n) /\ CanAllocate(vmPool, n) /\ HandOut(got)
            /\ new.range = got.range /\ Users' \subseteq Users \cup {new}
    BY <2>0
  <2>2. n \in Nat /\ n > 0 BY VmoAssumption
  <2>3. Allocated(vmPool, n, got) BY <2>1, <2>2, Allocates
  <2>4. PoolOK(got.pool) BY <2>3 DEF Allocated
  <2>5. UsersOK(Users', got.pool) BY <2>1, <2>3, AllocatedKeeps
  <2>6. QED BY <2>1, <2>4, <2>5 DEF HandOut
<1>4. CASE TakingStep
  <2>1. PICK old \in Users : GiveBack(old.range) /\ Users' \subseteq Users \ {old}
    BY <1>4 DEF TakingStep
  <2>2. PICK q : q = PoolFree(vmPool, old.range) OBVIOUS
  <2>3. Taken(vmPool, old.range) BY DEF UsersOK
  <2>4. Freed(vmPool, old.range, q) BY <2>2, <2>3, Frees
  <2>5. PoolOK(q) BY <2>4 DEF Freed
  <2>6. UsersOK(Users', q) BY <2>1, <2>4, FreedKeeps
  <2>7. QED BY <2>1, <2>2, <2>5, <2>6 DEF GiveBack
<1>5. CASE FailingStep
  <2>0. PICK n \in VmSize : \E got :
            /\ got = AllocateNozero(vmPool, n) /\ CanAllocate(vmPool, n)
            /\ vmPool' = PoolFree(got.pool, got.range) /\ Within(Users', Users)
    BY <1>5 DEF FailingStep
  <2>1. PICK got :
            /\ got = AllocateNozero(vmPool, n) /\ CanAllocate(vmPool, n)
            /\ vmPool' = PoolFree(got.pool, got.range) /\ Within(Users', Users)
    BY <2>0
  <2>2. n \in Nat /\ n > 0 BY VmoAssumption
  <2>3. Allocated(vmPool, n, got) BY <2>1, <2>2, Allocates
  <2>4. PoolOK(got.pool) /\ Taken(got.pool, got.range) BY <2>3 DEF Allocated
  <2>5. Freed(got.pool, got.range, vmPool') BY <2>1, <2>4, Frees
  <2>6. \A u : Taken(vmPool, u) => Taken(vmPool', u) BY <2>3, <2>5 DEF Allocated, Freed
  <2>7. UsersOK(Users', vmPool') BY <2>1, <2>6, WithinKeeps
  <2>8. QED BY <2>5, <2>7 DEF Freed
<1>6. QED BY <1>1, <1>2, <1>3, <1>4, <1>5 DEF PoolMoves

\* The invariant holds at the start.
LEMMA VmInvInit == ASSUME VmInit PROVE VmInv
<1>1. /\ vmPool \in VmPoolType /\ vmPool.next = 0 /\ vmPool.zeroed = 0
      /\ \A i \in Entries : vmPool.free[i] = NoRange /\ vmPool.dirty[i] = NoRange
  <2>1. 0..(Arena - 1) \subseteq Nat BY VmoAssumption
  <2>2. QED BY <2>1, NoRangeParts DEF VmInit, VmPoolType
<1>2. vmPool.free \in [Entries -> Span] /\ vmPool.dirty \in [Entries -> Span] BY <1>1 DEF VmPoolType
<1>3. Off(NoRange, NoRange) /\ \A x \in Nat : ~ In(x, NoRange) BY NoRangeParts DEF Off, In
<1>4. ListOK(vmPool.free, 0) /\ ListOK(vmPool.dirty, 0) BY <1>1, <1>2, <1>3 DEF ListOK
<1>5. Clean(vmPool) BY <1>1, <1>3 DEF Clean
<1>6. PoolOK(vmPool) BY <1>1, <1>3, <1>4, <1>5, VmoAssumption DEF PoolOK
<1>7. Idle.stage = "none" /\ Idle.call = "none" /\ Idle.range = NoRange BY DEF Idle
<1>8. VmTypeOK BY NoRangeParts DEF VmInit, VmTypeOK, NoChild, Idle
<1>9. VmCallsOK /\ VmFreshIsZero BY <1>7 DEF VmInit, VmCallsOK, VmFreshIsZero, NoChild
<1>10. Users = {}
  <2>1. ASSUME NEW h, IsUser(h, vmCaps, vmMail, vmPend, vmChild.image) PROVE FALSE
    BY <1>7, <2>1, HoldingParts DEF VmInit, IsUser, NoChild
  <2>2. QED BY <2>1, UsersAre DEF Users
<1>11. UsersOK(Users, vmPool) BY <1>10 DEF UsersOK
<1>12. QED BY <1>6, <1>8, <1>9, <1>11 DEF VmInv

\* Every step keeps the invariant.
LEMMA VmInvStep ==
    ASSUME ~ DestroySent, ~ ResumeEarly, VmInv, [VmNext]_vmVars PROVE VmInv'
<1>1. CASE VmNext
  <2>1. VmGood BY <1>1, VmStepGood
  <2>2. PoolOK(vmPool') /\ UsersOK(Users', vmPool') BY <2>1, MovesKeep DEF VmGood, VmInv
  <2>3. QED BY <2>1, <2>2 DEF VmInv, VmGood
<1>2. CASE UNCHANGED vmVars
  <2>1. Users' = Users BY <1>2 DEF vmVars, Users
  <2>2. QED BY <1>2, <2>1 DEF vmVars, VmInv, VmTypeOK, VmCallsOK, VmFreshIsZero
<1>3. QED BY <1>1, <1>2

\* What a call publishes is zero: of the pages that vmo_create puts behind a
\* capability and exec copies a program into, none holds what an earlier owner
\* wrote, whether the call zeroed them or the pool called them clean.
THEOREM VmoFreshIsZero == ASSUME ~ DestroySent, ~ ResumeEarly PROVE VmoSpec => []VmFreshIsZero
<1>1. VmInit => VmInv BY VmInvInit
<1>2. VmInv /\ [VmNext]_vmVars => VmInv' BY VmInvStep
<1>3. VmInv => VmFreshIsZero BY DEF VmInv
<1>4. QED BY <1>1, <1>2, <1>3, PTL DEF VmoSpec

\* The holdings: the users, the lists and what is beyond the frontier.
LEMMA HoldingsAre ==
    ASSUME VmInv, NEW h \in Holdings
    PROVE  \/ Pages(h.range) = {} \/ h \in Users
           \/ \E i \in Entries : h = Holding("free", i, vmPool.free[i])
           \/ \E i \in Entries : h = Holding("dirty", i, vmPool.dirty[i])
           \/ h = Holding("frontier", 0, <<vmPool.next, Arena - vmPool.next>>)
<1>1. Pages(NoRange) = {} BY NoRangeParts, PagesIn DEF In
<1>2. CopyingImage <=> Calling(vmPend) BY DEF CopyingImage, Calling
<1>3. h.range # NoRange /\ IsUser(h, vmCaps, vmMail, vmPend, vmChild.image) => h \in Users
  BY UsersAre DEF Users
<1>4. \/ \E t \in VmTask, s \in 1..VmSlots : h = Holding("vmo", 0, vmCaps[t][s])
      \/ h = Holding("vmo", 0, vmMail)
      \/ \E t \in VmTask : h = Holding("call", t, vmPend[t].range)
      \/ ~ Calling(vmPend) /\ h = Holding("image", 0, vmChild.image)
      \/ \E i \in Entries : h = Holding("free", i, vmPool.free[i])
      \/ \E i \in Entries : h = Holding("dirty", i, vmPool.dirty[i])
      \/ h = Holding("frontier", 0, <<vmPool.next, Arena - vmPool.next>>)
  BY <1>2 DEF Holdings
<1>5. QED BY <1>1, <1>3, <1>4 DEF IsUser

\* The invariant gives every page one owner.
LEMMA VmInvDisjoint == ASSUME VmInv PROVE VmDisjoint
<1> DEFINE p == vmPool
           top == <<p.next, Arena - p.next>>
           F(i) == Holding("free", i, p.free[i])
           D(i) == Holding("dirty", i, p.dirty[i])
           T == Holding("frontier", 0, top)
<1>1. PoolOK(p) /\ UsersOK(Users, p) BY DEF VmInv
<1>2. p.next \in Nat /\ p.free \in [Entries -> Span] /\ p.dirty \in [Entries -> Span] BY <1>1, PoolParts
<1>3. top \in Span /\ top[1] = p.next /\ top[2] \in Nat
  <2>1. p.next <= Arena /\ Arena \in Nat BY <1>1, VmoAssumption DEF PoolOK
  <2>2. QED BY <1>2, <2>1 DEF Span
<1>4. ASSUME NEW r \in Span, r = NoRange \/ r[1] + r[2] <= p.next PROVE Off(r, top)
  <2>1. r[1] \in Nat /\ r[2] \in Nat BY SpanParts
  <2>2. QED BY <1>3, <1>4, <2>1, NoRangeParts DEF Off
<1> HIDE DEF p, top
<1>5. \A a, b \in Span : Off(a, b) <=> Pages(a) \cap Pages(b) = {} BY OffPages
<1>6. \A g, h \in Users : g # h => Pages(g.range) \cap Pages(h.range) = {}
  BY <1>1, <1>5 DEF UsersOK, Taken
<1>7. ASSUME NEW g \in Users, NEW i \in Entries
      PROVE  /\ Pages(g.range) \cap Pages(p.free[i]) = {} /\ Pages(g.range) \cap Pages(p.dirty[i]) = {}
             /\ Pages(g.range) \cap Pages(top) = {}
  <2>1. Taken(p, g.range) BY <1>1 DEF UsersOK
  <2>2. g.range \in Span /\ Off(g.range, p.free[i]) /\ Off(g.range, p.dirty[i]) /\ Off(g.range, top)
    BY <1>4, <2>1 DEF Taken
  <2>3. QED BY <1>2, <1>3, <1>5, <2>2
<1>8. \A g \in Users : Pages(g.range) \cap Pages(top) = {}
  <2>1. ASSUME NEW g \in Users PROVE g.range \in Span /\ Off(g.range, top)
    BY <1>1, <1>4 DEF UsersOK, Taken
  <2>2. QED BY <1>3, <1>5, <2>1
<1>9. \A i, j \in Entries : /\ i # j => Pages(p.free[i]) \cap Pages(p.free[j]) = {}
                            /\ i # j => Pages(p.dirty[i]) \cap Pages(p.dirty[j]) = {}
                            /\ Pages(p.free[i]) \cap Pages(p.dirty[j]) = {}
  BY <1>1, <1>2, <1>5 DEF PoolOK, ListOK
<1>10. \A i \in Entries : /\ Pages(p.free[i]) \cap Pages(top) = {}
                          /\ Pages(p.dirty[i]) \cap Pages(top) = {}
  <2>1. ASSUME NEW i \in Entries PROVE Off(p.free[i], top) /\ Off(p.dirty[i], top)
    BY <1>1, <1>2, <1>4 DEF PoolOK, ListOK
  <2>2. QED BY <1>2, <1>3, <1>5, <2>1
<1>11. ASSUME NEW h \in Holdings, Pages(h.range) # {}
       PROVE  h \in Users \/ (\E i \in Entries : h = F(i)) \/ (\E i \in Entries : h = D(i)) \/ h = T
  BY <1>11, HoldingsAre DEF p, top
<1>12. /\ \A i : F(i).range = p.free[i] /\ D(i).range = p.dirty[i]
       /\ T.range = top
  BY HoldingParts
<1> HIDE DEF F, D, T
<1>13. ASSUME NEW a \in Holdings, NEW b \in Holdings, a # b
       PROVE  Pages(a.range) \cap Pages(b.range) = {}
  <2>1. SUFFICES ASSUME Pages(a.range) # {}, Pages(b.range) # {}
                 PROVE  Pages(a.range) \cap Pages(b.range) = {}
    OBVIOUS
  <2>2. CASE a \in Users
    <3>1. CASE b \in Users BY <1>6, <1>13, <2>2, <3>1
    <3>2. CASE b \notin Users BY <1>7, <1>8, <1>11, <1>12, <2>1, <2>2, <3>2
    <3>3. QED BY <3>1, <3>2
  <2>3. CASE \E i \in Entries : a = F(i)
    <3>1. PICK i \in Entries : a = F(i) BY <2>3
    <3>2. CASE b \in Users BY <1>7, <1>12, <3>1, <3>2
    <3>3. CASE \E j \in Entries : b = F(j) BY <1>9, <1>12, <1>13, <3>1, <3>3
    <3>4. CASE \E j \in Entries : b = D(j) BY <1>9, <1>12, <3>1, <3>4
    <3>5. CASE b = T BY <1>10, <1>12, <3>1, <3>5
    <3>6. QED BY <1>11, <2>1, <3>2, <3>3, <3>4, <3>5
  <2>4. CASE \E i \in Entries : a = D(i)
    <3>1. PICK i \in Entries : a = D(i) BY <2>4
    <3>2. CASE b \in Users BY <1>7, <1>12, <3>1, <3>2
    <3>3. CASE \E j \in Entries : b = F(j)
      <4>1. PICK j \in Entries : b = F(j) BY <3>3
      <4>2. Pages(p.free[j]) \cap Pages(p.dirty[i]) = {} BY <1>9
      <4>3. QED BY <1>12, <3>1, <4>1, <4>2
    <3>4. CASE \E j \in Entries : b = D(j) BY <1>9, <1>12, <1>13, <3>1, <3>4
    <3>5. CASE b = T BY <1>10, <1>12, <3>1, <3>5
    <3>6. QED BY <1>11, <2>1, <3>2, <3>3, <3>4, <3>5
  <2>5. CASE a = T
    <3>1. CASE b \in Users BY <1>8, <1>12, <2>5, <3>1
    <3>2. CASE b \notin Users BY <1>10, <1>11, <1>12, <1>13, <2>1, <2>5, <3>2
    <3>3. QED BY <3>1, <3>2
  <2>6. QED BY <1>11, <2>1, <2>2, <2>3, <2>4, <2>5
<1>14. QED BY <1>13 DEF VmDisjoint

\* No page has two owners: calls in their phases, capabilities, programs, the two
\* lists and the frontier hold apart ranges, whatever is split, joined and reused.
THEOREM VmoPagesDisjoint == ASSUME ~ DestroySent, ~ ResumeEarly PROVE VmoSpec => []VmDisjoint
<1>1. VmInit => VmInv BY VmInvInit
<1>2. VmInv /\ [VmNext]_vmVars => VmInv' BY VmInvStep
<1>3. VmInv => VmDisjoint BY VmInvDisjoint
<1>4. QED BY <1>1, <1>2, <1>3, PTL DEF VmoSpec

(* A page that is below the frontier and on no list. *)
Out(p, x) == x < p.next /\ x \notin Listed(p)

(* What allocate_nozero does to the lists. *)
Delisted(p, got) ==
    LET q == got.pool
    IN  /\ q.dirty = p.dirty /\ q.leaked = p.leaked /\ Listed(q) \subseteq Listed(p)
        /\ \A x \in Nat : In(x, got.range) => ~ Out(p, x) /\ x \notin Listed(q)
        /\ \A x \in Nat : ~ In(x, got.range) => (Out(q, x) <=> Out(p, x))

\* allocate_nozero takes the range it hands out off the list or from beyond the
\* frontier, and nothing else.
LEMMA AllocateDelists ==
    ASSUME NEW p, PoolOK(p), NEW n \in Nat, n > 0, CanAllocate(p, n)
    PROVE  Delisted(p, AllocateNozero(p, n))
<1> DEFINE got == AllocateNozero(p, n)
<1>1. /\ p \in VmPoolType /\ p.next \in Nat
      /\ p.free \in [Entries -> Span] /\ p.dirty \in [Entries -> Span]
  BY PoolParts
<1>2. Allocated(p, n, got) BY Allocates
<1>3. PoolOK(got.pool) /\ Taken(got.pool, got.range) /\ got.range \in Span BY <1>2 DEF Allocated
<1>4. \A x \in Nat : In(x, got.range) => x \notin Listed(got.pool)
  <2>1. Listed(got.pool) \cap Pages(got.range) = {} BY <1>3, TakenUnlisted
  <2>2. QED BY <1>3, <2>1, PagesIn
<1>5. CASE Fits(p, n) # {}
  <2> DEFINE i == BestFit(p, n)
             r == p.free[i]
             rest == IF r[2] > n THEN <<r[1] + n, r[2] - n>> ELSE NoRange
  <2>1. i \in Entries /\ r[2] >= n BY <1>1, <1>5, BestFitFits
  <2>2. r \in Span /\ r[1] \in Nat /\ r[2] \in Nat BY <1>1, <2>1, SpanParts
  <2>3. got.range = <<r[1], n>> /\ got.pool = [p EXCEPT !.free[i] = rest]
    BY <1>5 DEF AllocateNozero
  <2>4. \A x \in Nat : In(x, r) <=> In(x, <<r[1], n>>) \/ In(x, rest)
    BY <2>1, <2>2, NoRangeParts DEF In
  <2> HIDE DEF rest, i
  <2>5. /\ got.pool.dirty = p.dirty /\ got.pool.leaked = p.leaked /\ got.pool.next = p.next
        /\ got.pool.free[i] = rest /\ \A j \in Entries : j # i => got.pool.free[j] = p.free[j]
    BY <1>1, <2>1, <2>3 DEF VmPoolType
  <2>6. \A x \in Nat : In(x, r) <=> In(x, got.range) \/ In(x, rest) BY <2>3, <2>4
  <2> HIDE DEF got
  <2>7. \A x \in Nat : x \in Listed(p) <=> x \in Listed(got.pool) \/ In(x, got.range)
    BY <2>1, <2>5, <2>6 DEF Listed
  <2>8. Listed(got.pool) \subseteq Nat BY DEF Listed
  <2>9. QED BY <1>4, <2>5, <2>7, <2>8 DEF Delisted, Out, got
<1>6. CASE Fits(p, n) = {}
  <2>1. got.range = <<p.next, n>> /\ got.pool = [p EXCEPT !.next = @ + n]
    BY <1>6 DEF AllocateNozero
  <2>2. /\ got.pool.dirty = p.dirty /\ got.pool.leaked = p.leaked /\ got.pool.next = p.next + n
        /\ got.pool.free = p.free
    BY <1>1, <2>1 DEF VmPoolType
  <2>3. \A x \in Nat : In(x, got.range) <=> p.next <= x /\ x < p.next + n BY <2>1 DEF In
  <2> HIDE DEF got
  <2>4. Listed(got.pool) = Listed(p) BY <2>2 DEF Listed
  <2>5. \A x \in Nat : In(x, got.range) => ~ Out(p, x) BY <1>1, <2>3 DEF Out
  <2>6. \A x \in Nat : ~ In(x, got.range) => (Out(got.pool, x) <=> Out(p, x))
    BY <1>1, <2>2, <2>3, <2>4 DEF Out
  <2>7. QED BY <1>4, <2>2, <2>4, <2>5, <2>6 DEF Delisted, got
<1>7. QED BY <1>5, <1>6

\* How many pages a range has.
LEMMA PagesCount ==
    ASSUME NEW r \in Span PROVE IsFiniteSet(Pages(r)) /\ Cardinality(Pages(r)) = r[2]
<1>1. r[1] \in Nat /\ r[2] \in Nat BY SpanParts
<1>2. PICK a \in Int, b \in Int : a = r[1] /\ b = (r[1] + r[2]) - 1 BY <1>1
<1>3. IsFiniteSet(a..b) /\ Cardinality(a..b) = IF a > b THEN 0 ELSE b-a+1 BY FS_Interval
<1>4. (IF a > b THEN 0 ELSE b-a+1) = r[2] BY <1>1, <1>2
<1>5. Pages(r) = a..b
  <2>1. \A x : x \in Pages(r) <=> x \in a..b BY <1>1, <1>2, PagesIn DEF In
  <2>2. QED BY <2>1
<1>6. QED BY <1>3, <1>4, <1>5

\* A set of pages that grows by a range that is apart from it.
LEMMA CountWith ==
    ASSUME NEW S, IsFiniteSet(S), NEW r \in Span, S \cap Pages(r) = {}
    PROVE  IsFiniteSet(S \cup Pages(r)) /\ Cardinality(S \cup Pages(r)) = Cardinality(S) + r[2]
<1>1. IsFiniteSet(Pages(r)) /\ Cardinality(Pages(r)) = r[2] BY PagesCount
<1>2. /\ IsFiniteSet(S \cup Pages(r))
      /\ Cardinality(S \cup Pages(r)) = Cardinality(S) + Cardinality(Pages(r)) - Cardinality(S \cap Pages(r))
  BY <1>1, FS_Union
<1>3. Cardinality(S \cap Pages(r)) = 0 BY FS_EmptySet
<1>4. Cardinality(S) \in Nat /\ r[2] \in Nat BY FS_CardinalityType, SpanParts
<1>5. QED BY <1>1, <1>2, <1>3, <1>4

\* The pages that were lost, by what is out.
LEMMA LostAre ==
    ASSUME NEW p, NEW returned
    PROVE  \A x : x \in Lost(p, returned) <=> x \in returned /\ Out(p, x)
BY DEF Lost, Out

\* Handing a range out loses no page.
LEMMA KeptAllocated ==
    ASSUME NEW p, NEW n, NEW got, NEW returned, KeptOK(p, returned), Allocated(p, n, got), Delisted(p, got)
    PROVE  KeptOK(got.pool, returned \ Pages(got.range))
<1> DEFINE q == got.pool
           ret == returned \ Pages(got.range)
<1>1. returned \subseteq Nat /\ Listed(p) \subseteq returned BY DEF KeptOK
<1>2. got.range \in Span BY DEF Allocated
<1>3. \A x : x \in Pages(got.range) <=> x \in Nat /\ In(x, got.range) BY <1>2, PagesIn
<1>4. q.dirty = p.dirty /\ q.leaked = p.leaked /\ Listed(q) \subseteq Listed(p) BY DEF Delisted
<1>5. Listed(q) \subseteq ret BY <1>1, <1>3, <1>4 DEF Delisted
<1>6. \A x \in Nat : x \in ret /\ Out(q, x) <=> x \in returned /\ Out(p, x)
  BY <1>3 DEF Delisted
<1>7. Lost(q, ret) = Lost(p, returned)
  <2> HIDE DEF q, ret
  <2>1. \A x : x \in Lost(q, ret) <=> x \in ret /\ Out(q, x) BY LostAre
  <2>2. \A x : x \in Lost(p, returned) <=> x \in returned /\ Out(p, x) BY LostAre
  <2>3. \A x : x \in ret => x \in Nat BY <1>1 DEF ret
  <2>4. QED BY <1>1, <1>6, <2>1, <2>2, <2>3
<1>8. ret \subseteq Nat BY <1>1
<1> HIDE DEF q, ret
<1>9. KeptOK(q, ret) BY <1>4, <1>5, <1>7, <1>8 DEF KeptOK
<1>10. QED BY <1>9 DEF q, ret

\* Zeroing loses the pages that it counts as leaked, and the dropped head.
LEMMA KeptZeroed ==
    ASSUME NEW p, NEW q, NEW returned, PoolOK(p), PoolOK(q), KeptOK(p, returned),
           NEW head, Zeroed(p, q, head)
    PROVE  KeptOK(q, returned \ head)
<1>1. /\ returned \subseteq Nat /\ Listed(p) \subseteq returned
      /\ IsFiniteSet(Lost(p, returned)) /\ Cardinality(Lost(p, returned)) = p.leaked
  BY DEF KeptOK
<1>2. Relisted(p, q, head) /\ q.next = p.next /\ head \subseteq Listed(p) BY DEF Zeroed
<1>3. CASE Listed(q) = Listed(p) \ head /\ q.leaked = p.leaked
  <2>1. Lost(q, returned \ head) = Lost(p, returned) BY <1>2, <1>3 DEF Lost
  <2>2. Listed(q) \subseteq returned \ head /\ returned \ head \subseteq Nat BY <1>1, <1>3
  <2>3. QED BY <1>1, <1>3, <2>1, <2>2 DEF KeptOK
<1>4. CASE ~ (Listed(q) = Listed(p) \ head /\ q.leaked = p.leaked)
  <2>1. PICK r \in Span : /\ r[2] > 0 /\ Listed(p) = Listed(q) \cup Pages(r) /\ head = {}
                          /\ Listed(q) \cap Pages(r) = {} /\ q.leaked = p.leaked + r[2]
    BY <1>2, <1>4 DEF Relisted
  <2>2. ASSUME NEW x \in Listed(p) PROVE x < p.next
    <3>1. PICK i \in Entries : x \in Nat /\ (In(x, p.free[i]) \/ In(x, p.dirty[i])) BY DEF Listed
    <3>2. /\ p.next \in Nat /\ p.free[i] \in Span /\ p.dirty[i] \in Span BY PoolParts
    <3>3. /\ p.free[i][1] \in Nat /\ p.free[i][2] \in Nat /\ p.dirty[i][1] \in Nat /\ p.dirty[i][2] \in Nat
      BY <3>2, SpanParts
    <3>4. /\ In(x, p.free[i]) => p.free[i] # NoRange
          /\ In(x, p.dirty[i]) => p.dirty[i] # NoRange
      BY <3>1, NoRangeParts DEF In
    <3>5. /\ In(x, p.free[i]) => p.free[i][1] + p.free[i][2] <= p.next
          /\ In(x, p.dirty[i]) => p.dirty[i][1] + p.dirty[i][2] <= p.next
      BY <3>4 DEF PoolOK, ListOK
    <3>6. QED BY <3>1, <3>2, <3>3, <3>5 DEF In
  <2>3. Lost(q, returned) = Lost(p, returned) \cup Pages(r)
    BY <1>1, <1>2, <2>1, <2>2 DEF Lost
  <2>4. Lost(p, returned) \cap Pages(r) = {} BY <2>1 DEF Lost
  <2>5. /\ IsFiniteSet(Lost(q, returned))
        /\ Cardinality(Lost(q, returned)) = Cardinality(Lost(p, returned)) + r[2]
    BY <1>1, <2>3, <2>4, CountWith
  <2>6. Listed(q) \subseteq returned BY <1>1, <2>1
  <2>7. KeptOK(q, returned) BY <1>1, <2>1, <2>5, <2>6 DEF KeptOK
  <2>8. returned \ head = returned BY <2>1
  <2>9. QED BY <2>7, <2>8
<1>5. QED BY <1>3, <1>4

\* Taking a range back loses the pages that it counts as leaked.
LEMMA KeptFreed ==
    ASSUME NEW p, NEW q, NEW r, NEW returned, PoolOK(p), Taken(p, r),
           KeptOK(p, returned), Freed(p, r, q), \A x \in returned : ~ In(x, r)
    PROVE  KeptOK(q, returned \cup Pages(r))
<1> DEFINE ret == returned \cup Pages(r)
<1>1. /\ returned \subseteq Nat /\ Listed(p) \subseteq returned
      /\ IsFiniteSet(Lost(p, returned)) /\ Cardinality(Lost(p, returned)) = p.leaked
  BY DEF KeptOK
<1>2. /\ p.next \in Nat /\ p.free \in [Entries -> Span] /\ p.dirty \in [Entries -> Span]
      /\ r \in Span /\ r[1] \in Nat /\ r[2] \in Nat /\ r[1] + r[2] <= p.next
  BY PoolParts, SpanParts DEF Taken
<1>3. \A x : x \in Pages(r) <=> x \in Nat /\ In(x, r) BY <1>2, PagesIn
<1>4. \A x \in ret : x \in Nat /\ (x \in returned <=> ~ In(x, r)) BY <1>1, <1>3
<1>5. Listed(p) \cap Pages(r) = {} BY TakenUnlisted
<1>6. ret \subseteq Nat BY <1>4
<1>7. returned \subseteq ret /\ Pages(r) \subseteq ret OBVIOUS
<1> HIDE DEF ret
<1>8. ASSUME q.leaked = p.leaked, Lost(q, ret) = Lost(p, returned), Listed(q) \subseteq ret
      PROVE  KeptOK(q, ret)
  BY <1>1, <1>6, <1>8 DEF KeptOK
<1>9. CASE q.next = r[1] /\ r[1] + r[2] = p.next /\ q.free = p.free /\ q.dirty = p.dirty
           /\ q.leaked = p.leaked
  <2>1. Listed(q) = Listed(p) BY <1>9 DEF Listed
  <2>2. \A x \in Nat : In(x, r) <=> r[1] <= x /\ x < p.next BY <1>2, <1>9 DEF In
  <2>3. ASSUME NEW x PROVE x \in Lost(q, ret) <=> x \in Lost(p, returned)
    <3>1. CASE x \in ret BY <1>2, <1>4, <1>9, <2>1, <2>2, <3>1 DEF Lost
    <3>2. CASE x \notin ret BY <1>7, <3>2 DEF Lost
    <3>3. QED BY <3>1, <3>2
  <2>4. Lost(q, ret) = Lost(p, returned) BY <2>3
  <2>5. QED BY <1>1, <1>7, <1>8, <1>9, <2>1, <2>4 DEF ret
<1>10. ASSUME q.next = p.next, q.leaked = p.leaked, Fills(p, r, q)
       PROVE  KeptOK(q, ret)
  <2>1. Listed(q) = Listed(p) \cup Pages(r) BY <1>2, <1>10, ListedWith
  <2>2. ASSUME NEW x PROVE x \in Lost(q, ret) <=> x \in Lost(p, returned)
    <3>1. CASE x \in ret BY <1>3, <1>4, <1>10, <2>1, <3>1 DEF Lost
    <3>2. CASE x \notin ret BY <1>7, <3>2 DEF Lost
    <3>3. QED BY <3>1, <3>2
  <2>3. Lost(q, ret) = Lost(p, returned) BY <2>2
  <2>4. Listed(q) \subseteq ret BY <1>1, <1>7, <2>1
  <2>5. QED BY <1>8, <1>10, <2>3, <2>4
<1>11. CASE /\ q.next = p.next /\ q.free = p.free /\ q.leaked = p.leaked
            /\ \E i \in Entries : p.dirty[i] = NoRange /\ q.dirty = [p.dirty EXCEPT ![i] = r]
  <2>1. Fills(p, r, q) BY <1>11 DEF Fills
  <2>2. QED BY <1>10, <1>11, <2>1 DEF ret
<1>12. CASE /\ q.next = p.next /\ q.dirty = p.dirty /\ q.leaked = p.leaked
            /\ \E i \in Entries : p.free[i] = NoRange /\ q.free = [p.free EXCEPT ![i] = r]
  <2>1. Fills(p, r, q) BY <1>12 DEF Fills
  <2>2. QED BY <1>1, <1>10, <1>12, <2>1 DEF ret
<1>13. CASE /\ q.next = p.next /\ q.dirty = p.dirty /\ q.free = p.free
            /\ q.leaked = p.leaked + r[2]
  <2>1. Listed(q) = Listed(p) BY <1>13 DEF Listed
  <2>2. \A x \in Nat : In(x, r) => x < p.next BY <1>2 DEF In
  <2>3. ASSUME NEW x PROVE x \in Lost(q, ret) <=> x \in Lost(p, returned) \cup Pages(r)
    <3>1. CASE x \in ret BY <1>3, <1>4, <1>5, <1>13, <2>1, <2>2, <3>1 DEF Lost
    <3>2. CASE x \notin ret BY <1>7, <3>2 DEF Lost
    <3>3. QED BY <3>1, <3>2
  <2>4. Lost(q, ret) = Lost(p, returned) \cup Pages(r) BY <2>3
  <2>5. Lost(p, returned) \cap Pages(r) = {} BY <1>3 DEF Lost
  <2>6. /\ IsFiniteSet(Lost(q, ret))
        /\ Cardinality(Lost(q, ret)) = Cardinality(Lost(p, returned)) + r[2]
    BY <1>1, <1>2, <2>4, <2>5, CountWith
  <2>7. Listed(q) \subseteq ret BY <1>1, <1>7, <2>1
  <2>8. KeptOK(q, ret) BY <1>1, <1>6, <1>13, <2>6, <2>7 DEF KeptOK
  <2>9. QED BY <2>8 DEF ret
<1>14. QED BY <1>9, <1>11, <1>12, <1>13 DEF Freed

\* The moves keep the account of the pages that were given back.
LEMMA MovesKept ==
    ASSUME VmInv, VmKeptOK, PoolMoves, PoolOK(vmPool')
    PROVE  VmKeptOK'
<1> DEFINE p == vmPool
           q == vmPool'
           ret == vmReturned
<1>1. /\ PoolOK(p) /\ UsersOK(Users, p) /\ KeptOK(p, ret) /\ UsersKept(Users, ret)
      /\ PoolOK(q) /\ ret \subseteq Nat
  BY DEF VmInv, VmKeptOK, KeptOK
<1>2. ASSUME Within(Users', Users) PROVE UsersKept(Users', ret)
  BY <1>1, <1>2 DEF Within, UsersKept
<1>3. CASE QuietStep
  <2>1. /\ Within(Users', Users) /\ vmReturned' = ret /\ q.next = p.next /\ q.free = p.free
        /\ q.dirty = p.dirty /\ q.leaked = p.leaked
    BY <1>3 DEF QuietStep
  <2> HIDE DEF p, q
  <2>2. Listed(q) = Listed(p) BY <2>1 DEF Listed
  <2>3. Lost(q, ret) = Lost(p, ret) BY <2>1, <2>2 DEF Lost
  <2>4. KeptOK(q, ret) BY <1>1, <2>1, <2>2, <2>3 DEF KeptOK
  <2>5. QED BY <1>2, <2>1, <2>4 DEF VmKeptOK, q
<1>4. CASE ZeroingStep
  <2>1. PICK head : Within(Users', Users) /\ vmReturned' = ret \ head /\ Zeroed(p, q, head)
    BY <1>4 DEF ZeroingStep
  <2>2. KeptOK(q, ret \ head) BY <1>1, <2>1, KeptZeroed
  <2>3. UsersKept(Users', ret \ head) BY <1>2, <2>1 DEF UsersKept
  <2>4. QED BY <2>1, <2>2, <2>3 DEF VmKeptOK
<1>5. CASE HandingStep
  <2>0. PICK n \in VmSize : \E new, got :
            /\ got = AllocateNozero(p, n) /\ CanAllocate(p, n) /\ HandOut(got)
            /\ new.range = got.range /\ Users' \subseteq Users \cup {new}
    BY <1>5 DEF HandingStep
  <2>1. PICK new, got :
            /\ got = AllocateNozero(p, n) /\ CanAllocate(p, n) /\ HandOut(got)
            /\ new.range = got.range /\ Users' \subseteq Users \cup {new}
    BY <2>0
  <2>2. n \in Nat /\ n > 0 BY VmoAssumption
  <2>3. Allocated(p, n, got) /\ Delisted(p, got) BY <1>1, <2>1, <2>2, Allocates, AllocateDelists
  <2>4. q = got.pool /\ vmReturned' = ret \ Pages(got.range) BY <2>1 DEF HandOut
  <2>5. KeptOK(q, vmReturned') BY <1>1, <2>3, <2>4, KeptAllocated
  <2>6. \A x \in vmReturned' : ~ In(x, new.range)
    <3>1. got.range \in Span /\ got.range[2] = n BY <2>3 DEF Allocated
    <3>2. \A x : x \in Pages(got.range) <=> x \in Nat /\ In(x, got.range) BY <3>1, PagesIn
    <3>3. QED BY <1>1, <2>1, <2>2, <2>4, <3>1, <3>2
  <2>7. UsersKept(Users', vmReturned') BY <1>1, <2>1, <2>4, <2>6 DEF UsersKept
  <2>8. QED BY <2>5, <2>7 DEF VmKeptOK
<1>6. CASE TakingStep
  <2>1. PICK old \in Users : GiveBack(old.range) /\ Users' \subseteq Users \ {old}
    BY <1>6 DEF TakingStep
  <2>2. PICK r : r = old.range OBVIOUS
  <2>3. Taken(p, r) /\ \A x \in ret : ~ In(x, r)
    BY <1>1, <2>2 DEF UsersOK, UsersKept
  <2>4. ~ Rejected(p, r) /\ Freed(p, r, PoolFree(p, r)) BY <1>1, <2>3, Frees
  <2>5. q = PoolFree(p, r) /\ vmReturned' = ret \cup Pages(r) BY <2>1, <2>2, <2>4 DEF GiveBack
  <2>6. KeptOK(q, ret \cup Pages(r)) BY <1>1, <2>3, <2>4, <2>5, KeptFreed
  <2>7. ASSUME NEW h \in Users'
        PROVE  \A x \in vmReturned' : ~ In(x, h.range)
    <3>1. h \in Users /\ h # old BY <2>1
    <3>2. Off(h.range, r) /\ h.range \in Span /\ r \in Span
      BY <1>1, <2>2, <2>3, <3>1 DEF UsersOK, Taken
    <3>3. \A x \in Nat : ~ (In(x, h.range) /\ In(x, r)) BY <3>2, OffPages
    <3>4. \A x : x \in Pages(r) <=> x \in Nat /\ In(x, r) BY <3>2, PagesIn
    <3>5. QED BY <1>1, <2>5, <3>1, <3>3, <3>4 DEF UsersKept
  <2>8. QED BY <2>5, <2>6, <2>7 DEF VmKeptOK, UsersKept
<1>7. CASE FailingStep
  <2>0. PICK n \in VmSize : \E got :
            /\ got = AllocateNozero(p, n) /\ CanAllocate(p, n)
            /\ q = PoolFree(got.pool, got.range) /\ vmReturned' = ret \cup Pages(got.range)
            /\ Within(Users', Users)
    BY <1>7 DEF FailingStep
  <2>1. PICK got :
            /\ got = AllocateNozero(p, n) /\ CanAllocate(p, n)
            /\ q = PoolFree(got.pool, got.range) /\ vmReturned' = ret \cup Pages(got.range)
            /\ Within(Users', Users)
    BY <2>0
  <2>2. n \in Nat /\ n > 0 BY VmoAssumption
  <2>3. Allocated(p, n, got) /\ Delisted(p, got) BY <1>1, <2>1, <2>2, Allocates, AllocateDelists
  <2>4. PICK r, c, out : r = got.range /\ c = got.pool /\ out = ret \ Pages(r) OBVIOUS
  <2>5. PoolOK(c) /\ Taken(c, r) /\ r \in Span
    BY <2>2, <2>3, <2>4 DEF Allocated
  <2>6. KeptOK(c, out) BY <1>1, <2>3, <2>4, KeptAllocated
  <2>7. \A x : x \in Pages(r) <=> x \in Nat /\ In(x, r) BY <2>5, PagesIn
  <2>8. \A x \in out : ~ In(x, r) BY <1>1, <2>4, <2>7
  <2>9. Freed(c, r, q) BY <2>1, <2>4, <2>5, Frees
  <2>10. KeptOK(q, out \cup Pages(r)) BY <2>5, <2>6, <2>8, <2>9, KeptFreed
  <2>11. vmReturned' = out \cup Pages(r) BY <2>1, <2>4
  <2>12. ASSUME NEW g \in Users
         PROVE  \A x \in vmReturned' : ~ In(x, g.range)
    <3>1. Taken(p, g.range) BY <1>1 DEF UsersOK
    <3>2. Off(g.range, r) /\ g.range \in Span BY <2>3, <2>4, <3>1 DEF Allocated, Taken
    <3>3. \A x \in Nat : ~ (In(x, g.range) /\ In(x, r)) BY <2>5, <3>2, OffPages
    <3>4. QED BY <1>1, <2>1, <2>4, <2>7, <3>3 DEF UsersKept
  <2>13. UsersKept(Users', vmReturned') BY <2>1, <2>12 DEF Within, UsersKept
  <2>14. QED BY <2>10, <2>11, <2>13 DEF VmKeptOK
<1>8. QED BY <1>3, <1>4, <1>5, <1>6, <1>7 DEF PoolMoves

\* The account at the start.
LEMMA VmKeptInit == ASSUME VmInit PROVE VmKeptOK
<1>1. /\ vmReturned = {} /\ vmPool.leaked = 0
      /\ \A i \in Entries : vmPool.free[i] = NoRange /\ vmPool.dirty[i] = NoRange
  BY DEF VmInit
<1>2. Listed(vmPool) = {} BY <1>1, NoRangeParts DEF Listed, In
<1>3. Lost(vmPool, {}) = {} BY DEF Lost
<1>5. KeptOK(vmPool, vmReturned) BY <1>1, <1>2, <1>3, FS_EmptySet DEF KeptOK
<1>6. VmInv BY VmInvInit
<1>7. \A h : ~ IsUser(h, vmCaps, vmMail, vmPend, vmChild.image)
  BY HoldingParts DEF VmInit, IsUser, NoChild, Idle
<1>8. UsersKept(Users, vmReturned) BY <1>7, UsersAre DEF Users, UsersKept
<1>9. QED BY <1>5, <1>8 DEF VmKeptOK

\* The account is what is counted as leaked.
LEMMA VmKeptReturned == ASSUME VmInv, VmKeptOK PROVE VmReturnedKept
<1> DEFINE listed == UNION {Pages(vmPool.free[i]) \cup Pages(vmPool.dirty[i]) : i \in Entries}
<1>1. vmPool.free \in [Entries -> Span] /\ vmPool.dirty \in [Entries -> Span]
  BY PoolParts DEF VmInv
<1>2. ASSUME NEW i \in Entries, NEW x
      PROVE  x \in Pages(vmPool.free[i]) \cup Pages(vmPool.dirty[i])
               <=> x \in Nat /\ (In(x, vmPool.free[i]) \/ In(x, vmPool.dirty[i]))
  BY <1>1, PagesIn
<1>3. listed = Listed(vmPool) BY <1>2 DEF Listed
<1> HIDE DEF listed
<1>4. {x \in vmReturned : x < vmPool.next} \ listed = Lost(vmPool, vmReturned) BY <1>3 DEF Lost
<1>5. Cardinality({x \in vmReturned : x < vmPool.next} \ listed) = vmPool.leaked
  BY <1>4 DEF VmKeptOK, KeptOK
<1>6. QED BY <1>5 DEF VmReturnedKept, listed

\* No page has two owners, and every page that was given back is on a list, beyond
\* the frontier, counted as leaked or the dropped head of a range longer than an
\* idle step zeroes (VmoPool::free, idle_zero_step), for ranges of every size.
THEOREM VmoPagesOwned ==
    ASSUME ~ DestroySent, ~ ResumeEarly
    PROVE  VmoSpec => []VmPagesOwned
<1> DEFINE Inv == VmInv /\ VmKeptOK
<1>1. VmInit => Inv BY VmInvInit, VmKeptInit
<1>2. ASSUME Inv, [VmNext]_vmVars PROVE Inv'
  <2>1. VmInv' BY <1>2, VmInvStep
  <2>2. CASE VmNext
    <3>1. PoolMoves BY <1>2, <2>2, VmStepGood DEF VmGood
    <3>2. PoolOK(vmPool') BY <2>1 DEF VmInv
    <3>3. QED BY <1>2, <2>1, <3>1, <3>2, MovesKept
  <2>3. CASE UNCHANGED vmVars
    <3>1. Users' = Users BY <2>3 DEF vmVars, Users
    <3>2. QED BY <1>2, <2>1, <2>3, <3>1 DEF vmVars, VmKeptOK
  <2>4. QED BY <1>2, <2>2, <2>3
<1>3. Inv => VmPagesOwned BY VmInvDisjoint, VmKeptReturned DEF VmPagesOwned
<1>4. Inv /\ [VmNext]_vmVars => Inv' BY <1>2
<1> HIDE DEF Inv
<1>5. QED BY <1>1, <1>3, <1>4, PTL DEF VmoSpec
=============================================================================
