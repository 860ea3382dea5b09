--------------------------- MODULE ServicesProofs ---------------------------
(***************************************************************************)
(* Safety of the services, for every value of their bounds.                *)
(***************************************************************************)
EXTENDS Updates, Launch, Journal, Mux, SeqOpsProofs, SequenceTheorems

-----------------------------------------------------------------------------
(* Updates                                                                  *)

Slot == {"A", "B"}
BootRecord == [active : Slot, pending : Slot \cup {None}, staged : Slot \cup {None},
               rollback : Slot \cup {None}, tries : Nat, health : BOOLEAN]
StoredRecord == [active : Slot, pending : Slot \cup {None}, staged : Slot \cup {None},
                 tries : Nat, health : BOOLEAN]

(* A boot control that the operations of bootctrl.rs can build: only a trial *)
(* has a slot to fall back to and counts its tries, and it is not healthy.   *)
SoundBoot(b) ==
    /\ b.staged \in {None, Other(b.active)}
    /\ IF b.pending = None THEN b.rollback = None /\ b.tries = 0
       ELSE b.pending = b.active /\ b.rollback = Other(b.active) /\ ~ b.health

(* Two boot controls agree but for what is staged. *)
SameButStaged(b, c) ==
    b.active = c.active /\ b.pending = c.pending /\ b.tries = c.tries /\ b.health = c.health

UpTypeOK == upBoot \in BootRecord /\ upStored \in StoredRecord \cup {Nothing} /\ upGood \subseteq Slot

UpSound == SoundBoot(upBoot)

UpInv == UpTypeOK /\ UpSound /\ UpFallbackGood /\ UpRestoreExact

\* A record is determined by its fields.
LEMMA BootRecordFields ==
    ASSUME NEW b \in BootRecord
    PROVE  b = [active |-> b.active, pending |-> b.pending, staged |-> b.staged,
                rollback |-> b.rollback, tries |-> b.tries, health |-> b.health]
BY DEF BootRecord

\* A fresh boot control.
LEMMA NewBootFields ==
    ASSUME NEW x \in Slot
    PROVE  /\ NewBoot(x) \in BootRecord /\ SoundBoot(NewBoot(x))
           /\ NewBoot(x).active = x /\ NewBoot(x).pending = None /\ NewBoot(x).staged = None
           /\ NewBoot(x).tries = 0 /\ NewBoot(x).health = FALSE
BY DEF NewBoot, BootRecord, SoundBoot, None, Other, Slot

\* Staging changes nothing else.
LEMMA StageFields ==
    ASSUME NEW b \in BootRecord, SoundBoot(b)
    PROVE  /\ Stage(b) \in BootRecord /\ SoundBoot(Stage(b))
           /\ Stage(b).staged = Other(b.active)
           /\ SameButStaged(Stage(b), b) /\ Stage(b).rollback = b.rollback
<1>1. Other(b.active) \in Slot BY DEF Other, Slot
<1>2. QED BY <1>1 DEF Stage, BootRecord, SoundBoot, SameButStaged

\* A switch puts the staged slot on trial.
LEMMA SwitchFields ==
    ASSUME NEW b \in BootRecord, SoundBoot(b), b.staged # None, NEW n \in Nat
    PROVE  /\ Switch(b, n) \in BootRecord /\ SoundBoot(Switch(b, n))
           /\ Switch(b, n).active = Other(b.active) /\ Switch(b, n).pending = Other(b.active)
           /\ Switch(b, n).rollback = b.active /\ Switch(b, n).staged = None
           /\ Switch(b, n).tries = n /\ Switch(b, n).health = FALSE
BY DEF Switch, BootRecord, SoundBoot, Other, Slot, None

\* A health commit ends the trial in favour of the active slot.
LEMMA CommitFields ==
    ASSUME NEW b \in BootRecord, SoundBoot(b)
    PROVE  /\ CommitHealth(b) \in BootRecord /\ SoundBoot(CommitHealth(b))
           /\ CommitHealth(b).active = b.active /\ CommitHealth(b).pending = None
           /\ CommitHealth(b).tries = 0 /\ CommitHealth(b).health = TRUE
BY DEF CommitHealth, BootRecord, SoundBoot, Slot, None

\* What a restart makes of a stored record.
LEMMA RestoredFields ==
    ASSUME NEW s \in StoredRecord
    PROVE  /\ Restored(s) \in BootRecord /\ SoundBoot(Restored(s))
           /\ Restored(s).active = s.active
           /\ Restored(s).pending = IF s.pending = None THEN None ELSE s.active
           /\ Restored(s).tries = IF s.pending = None THEN 0 ELSE s.tries
           /\ Restored(s).health = IF s.pending = None THEN s.health ELSE FALSE
<1> DEFINE old == Stage(NewBoot(Other(s.active)))
<1>1. Restored(s) = BootctrlFromState(s) BY DEF Restored, Nothing, StoredRecord, Slot, None
<1>2. /\ s.active \in Slot /\ Other(s.active) \in Slot /\ Other(Other(s.active)) = s.active
      /\ s.tries \in Nat /\ 0 \in Nat /\ s.health \in BOOLEAN
  BY DEF StoredRecord, Other, Slot
<1>3. /\ old \in BootRecord /\ SoundBoot(old) /\ old.active = Other(s.active)
      /\ old.staged # None /\ Other(old.active) = s.active
  <2>1. old.active = Other(s.active) /\ old.staged = s.active
    BY <1>2, NewBootFields, StageFields DEF SameButStaged
  <2>2. QED BY <1>2, <2>1, NewBootFields, StageFields DEF Slot, None
<1> HIDE DEF old
<1>4. CASE s.pending # None
  <2>1. Restored(s) = Switch(old, s.tries) BY <1>1, <1>4 DEF BootctrlFromState, old
  <2>2. /\ Switch(old, s.tries) \in BootRecord /\ SoundBoot(Switch(old, s.tries))
        /\ Switch(old, s.tries).active = s.active /\ Switch(old, s.tries).pending = s.active
        /\ Switch(old, s.tries).tries = s.tries /\ Switch(old, s.tries).health = FALSE
    BY <1>2, <1>3, SwitchFields
  <2>3. QED BY <1>4, <2>1, <2>2
<1>5. CASE s.pending = None /\ s.health
  <2>1. Restored(s) = CommitHealth(Switch(old, 0)) BY <1>1, <1>5 DEF BootctrlFromState, old
  <2>2. /\ Switch(old, 0) \in BootRecord /\ SoundBoot(Switch(old, 0))
        /\ Switch(old, 0).active = s.active
    BY <1>2, <1>3, SwitchFields
  <2>3. s.health = TRUE BY <1>2, <1>5
  <2>4. QED BY <1>5, <2>1, <2>2, <2>3, CommitFields
<1>6. CASE s.pending = None /\ ~ s.health /\ s.staged # None
  <2>1. Restored(s) = Stage(NewBoot(s.active)) BY <1>1, <1>6 DEF BootctrlFromState
  <2>2. s.health = FALSE BY <1>2, <1>6
  <2>3. /\ NewBoot(s.active) \in BootRecord /\ SoundBoot(NewBoot(s.active))
        /\ NewBoot(s.active).active = s.active /\ NewBoot(s.active).pending = None
        /\ NewBoot(s.active).tries = 0 /\ NewBoot(s.active).health = FALSE
    BY <1>2, NewBootFields
  <2>4. /\ Restored(s) \in BootRecord /\ SoundBoot(Restored(s))
        /\ SameButStaged(Restored(s), NewBoot(s.active))
    BY <2>1, <2>3, StageFields
  <2>5. QED BY <1>6, <2>2, <2>3, <2>4 DEF SameButStaged
<1>7. CASE s.pending = None /\ ~ s.health /\ s.staged = None
  <2>1. Restored(s) = NewBoot(s.active) BY <1>1, <1>7 DEF BootctrlFromState
  <2>2. s.health = FALSE BY <1>2, <1>7
  <2>3. QED BY <1>2, <1>7, <2>1, <2>2, NewBootFields
<1>8. QED BY <1>4, <1>5, <1>6, <1>7

\* The fields that are stored determine the rest.
LEMMA SoundBootsEqual ==
    ASSUME NEW b \in BootRecord, NEW c \in BootRecord, SoundBoot(b), SoundBoot(c),
           SameButStaged(b, c)
    PROVE  [b EXCEPT !.staged = None] = [c EXCEPT !.staged = None]
<1>1. b.rollback = c.rollback BY DEF SoundBoot, SameButStaged
<1>2. QED BY <1>1, BootRecordFields DEF SameButStaged

\* Storing a sound boot control and restoring it loses only what is staged.
LEMMA RoundTrip ==
    ASSUME NEW b \in BootRecord, SoundBoot(b)
    PROVE  /\ EncodeBootctrl(b) \in StoredRecord
           /\ SameButStaged(Restored(EncodeBootctrl(b)), b)
<1>1. EncodeBootctrl(b) \in StoredRecord BY DEF EncodeBootctrl, StoredRecord, BootRecord
<1>2. QED BY <1>1, RestoredFields DEF EncodeBootctrl, SameButStaged, SoundBoot, BootRecord

\* An attempt counts down, or falls back to the previous slot.
LEMMA TickFields ==
    ASSUME NEW b \in BootRecord, SoundBoot(b)
    PROVE  /\ TickBootAttempt(b) \in BootRecord /\ SoundBoot(TickBootAttempt(b))
           /\ Safe(b) => Safe(TickBootAttempt(b))
<1> DEFINE t == IF b.tries > 0 THEN b.tries - 1 ELSE 0
<1>1. t \in Nat BY DEF BootRecord
<1>2. CASE b.pending = None BY <1>2 DEF TickBootAttempt
<1>3. CASE b.pending # None /\ t = 0
  <2>1. b.rollback \in Slot BY <1>3 DEF SoundBoot, BootRecord, Other, Slot
  <2>2. TickBootAttempt(b) = NewBoot(b.rollback) BY <1>3 DEF TickBootAttempt, Rollback
  <2>3. QED BY <1>3, <2>1, <2>2, NewBootFields DEF Safe
<1>4. CASE b.pending # None /\ t # 0
  <2>1. TickBootAttempt(b) = [b EXCEPT !.tries = t] BY <1>4 DEF TickBootAttempt
  <2> HIDE DEF t
  <2>2. [b EXCEPT !.tries = t] \in BootRecord BY <1>1 DEF BootRecord
  <2>3. QED BY <1>1, <1>4, <2>1, <2>2 DEF BootRecord, SoundBoot, Safe
<1>5. QED BY <1>2, <1>3, <1>4

\* What a restart makes of the record in statefs is always sound.
LEMMA RestoredSound ==
    ASSUME NEW s \in StoredRecord \cup {Nothing}
    PROVE  Restored(s) \in BootRecord /\ SoundBoot(Restored(s))
<1>1. CASE s = Nothing
  <2>1. Restored(s) = NewBoot("A") /\ "A" \in Slot BY <1>1 DEF Restored, Slot
  <2>2. QED BY <2>1, NewBootFields
<1>2. CASE s \in StoredRecord BY <1>2, RestoredFields
<1>3. QED BY <1>1, <1>2

\* A step that leaves the sound boot control b in memory and has stored the
\* sound boot control c, or stored nothing.
LEMMA StoreKeeps ==
    ASSUME UpTypeOK, NEW b \in BootRecord, SoundBoot(b), NEW c \in BootRecord, SoundBoot(c),
           upBoot' = b, upStored' \in {EncodeBootctrl(c), upStored},
           upSaved' => b = c /\ upStored' = EncodeBootctrl(c),
           upGood' \subseteq Slot, Safe(b)', Safe(c)',
           upStored' = upStored => Safe(Restored(upStored))'
    PROVE  UpInv'
<1> DEFINE r == Restored(EncodeBootctrl(c))
<1>1. /\ EncodeBootctrl(c) \in StoredRecord /\ r \in BootRecord /\ SoundBoot(r)
      /\ SameButStaged(r, c)
  BY RoundTrip, RestoredFields
<1> HIDE DEF r
<1>2. Safe(r)'
  BY <1>1 DEF Safe, SameButStaged, SoundBoot
<1>3. Safe(Restored(upStored))'
  BY <1>2 DEF r
<1>4. UpTypeOK' /\ UpSound' /\ UpFallbackGood'
  BY <1>1, <1>3 DEF UpTypeOK, UpSound, UpFallbackGood
<1>5. UpRestoreExact'
  <2> SUFFICES ASSUME upSaved'
               PROVE [Restored(upStored') EXCEPT !.staged = None] = [b EXCEPT !.staged = None]
    BY DEF UpRestoreExact
  <2>1. Restored(upStored') = r /\ b = c BY DEF r
  <2>2. QED BY <1>1, <2>1, SoundBootsEqual
<1>6. QED BY <1>4, <1>5 DEF UpInv

\* At the start nothing is stored and slot A is confirmed.
LEMMA UpInvInit == UpInit => UpInv
<1> SUFFICES ASSUME UpInit PROVE UpInv OBVIOUS
<1>1. upBoot = NewBoot("A") /\ Restored(upStored) = NewBoot("A") /\ "A" \in Slot
  BY DEF UpInit, Restored, Slot
<1>2. UpTypeOK /\ UpSound BY <1>1, NewBootFields DEF UpInit, UpTypeOK, UpSound
<1>3. UpFallbackGood BY <1>1, NewBootFields DEF UpInit, UpFallbackGood, Safe
<1>4. UpRestoreExact BY <1>1 DEF UpRestoreExact
<1>5. QED BY <1>2, <1>3, <1>4 DEF UpInv

\* Every step keeps the boot control and the record sound and safe.
LEMMA UpInvStep == ASSUME ~ LoadFailures, UpInv, [UpNext]_upVars PROVE UpInv'
<1>1. /\ upBoot \in BootRecord /\ SoundBoot(upBoot) /\ upGood \subseteq Slot
      /\ Safe(upBoot) /\ Safe(Restored(upStored))
  BY DEF UpInv, UpTypeOK, UpSound, UpFallbackGood
<1>2. UpTypeOK BY DEF UpInv
<1>4. PICK rec : rec = Restored(upStored) OBVIOUS
<1>5. CASE HandleStage
  <2>1. PICK b : b = Stage(upBoot) OBVIOUS
  <2>2. b \in BootRecord /\ SoundBoot(b) BY <1>1, <2>1, StageFields
  <2>3. upGood' = upGood /\ upBoot' = b BY <1>5, <2>1 DEF HandleStage
  <2>4. Safe(b)' /\ Safe(rec)' BY <1>1, <1>4, <2>1, <2>3, StageFields DEF Safe, SameButStaged
  <2>5. upStored' \in {EncodeBootctrl(b), upStored} /\ (upSaved' => upStored' = EncodeBootctrl(b))
    BY <1>5, <2>3 DEF HandleStage, Persist
  <2>6. upStored' = upStored => Safe(Restored(upStored))' BY <1>4, <2>4
  <2>7. QED BY <1>1, <1>2, <2>2, <2>3, <2>4, <2>5, <2>6, StoreKeeps
<1>6. CASE HandleHealthOk
  <2>1. PICK b : b = CommitHealth(upBoot) OBVIOUS
  <2>2. b \in BootRecord /\ SoundBoot(b) BY <1>1, <2>1, CommitFields
  <2>3. upGood' = upGood \cup {upBoot.active} /\ upBoot' = b BY <1>6, <2>1 DEF HandleHealthOk
  <2>4. Safe(b)' BY <1>1, <2>1, <2>3, CommitFields DEF Safe
  <2>5. Safe(rec)' BY <1>1, <1>4, <2>3 DEF Safe
  <2>6. upStored' \in {EncodeBootctrl(b), upStored} /\ (upSaved' => upStored' = EncodeBootctrl(b))
    BY <1>6, <2>3 DEF HandleHealthOk, Persist
  <2>7. upStored' = upStored => Safe(Restored(upStored))' BY <1>4, <2>5
  <2>8. upGood' \subseteq Slot BY <1>1, <2>3 DEF BootRecord
  <2>9. QED BY <1>2, <2>2, <2>3, <2>4, <2>6, <2>7, <2>8, StoreKeeps
<1>7. CASE HandleBootAttempt
  <2>1. PICK b : b = TickBootAttempt(upBoot) OBVIOUS
  <2>2. b \in BootRecord /\ SoundBoot(b) /\ Safe(b) BY <1>1, <2>1, TickFields
  <2>3. upGood' = upGood /\ upBoot' = b BY <1>7, <2>1 DEF HandleBootAttempt
  <2>4. Safe(b)' /\ Safe(rec)' BY <1>1, <1>4, <2>2, <2>3 DEF Safe
  <2>5. upStored' \in {EncodeBootctrl(b), upStored} /\ (upSaved' => upStored' = EncodeBootctrl(b))
    BY <1>7, <2>3 DEF HandleBootAttempt, Persist
  <2>6. upStored' = upStored => Safe(Restored(upStored))' BY <1>4, <2>4
  <2>7. QED BY <1>1, <1>2, <2>2, <2>3, <2>4, <2>5, <2>6, StoreKeeps
<1>8. ASSUME NEW n \in Tries, HandleSwitch(n) PROVE UpInv'
  <2>1. PICK b : b = Switch(upBoot, n) OBVIOUS
  <2>2. PICK c : c = Rollback(b) OBVIOUS
  <2>3. upBoot.pending = None /\ upBoot.staged # None BY <1>8 DEF HandleSwitch, CanSwitch
  <2>4. upBoot.active \in upGood /\ upBoot.active \in Slot BY <1>1, <2>3 DEF Safe, BootRecord
  <2>5. /\ b \in BootRecord /\ SoundBoot(b) /\ b.active = Other(upBoot.active)
        /\ b.rollback = upBoot.active /\ b.pending = b.active
    <3>1. n \in Nat BY TriesAreNumbers
    <3>2. /\ Switch(upBoot, n) \in BootRecord /\ SoundBoot(Switch(upBoot, n))
          /\ Switch(upBoot, n).active = Other(upBoot.active)
          /\ Switch(upBoot, n).pending = Other(upBoot.active)
          /\ Switch(upBoot, n).rollback = upBoot.active
      BY <1>1, <2>3, <3>1, SwitchFields
    <3>3. QED BY <2>1, <3>2
  <2>6. Other(b.active) = upBoot.active /\ b.active # upBoot.active BY <2>4, <2>5 DEF Other, Slot
  <2>7. c \in BootRecord /\ SoundBoot(c) /\ c.active = upBoot.active /\ c.pending = None
    BY <2>2, <2>4, <2>5, NewBootFields DEF Rollback
  <2>8. b.pending # None BY <2>5 DEF BootRecord, Slot, None
  <2>9. CASE upBoot' = c /\ UNCHANGED upGood /\ upStored' \in {EncodeBootctrl(b), upStored}
             /\ upSaved' = FALSE
    <3>1. Safe(b)' /\ Safe(c)' BY <2>4, <2>5, <2>6, <2>7, <2>8, <2>9 DEF Safe
    <3>2. Safe(rec)' BY <1>1, <1>4, <2>9 DEF Safe
    <3>3. upStored' = upStored => Safe(Restored(upStored))' BY <1>4, <3>2
    <3>4. QED BY <1>1, <1>2, <2>5, <2>7, <2>9, <3>1, <3>3, StoreKeeps
  <2>10. CASE upBoot' = b /\ upGood' = upGood \ {b.active} /\ upStored' = EncodeBootctrl(b)
    <3>1. Safe(b)' BY <2>4, <2>5, <2>6, <2>8, <2>10 DEF Safe
    <3>2. upStored' = upStored => Safe(Restored(upStored))'
      <4>1. Restored(EncodeBootctrl(b)) \in BootRecord /\ SoundBoot(Restored(EncodeBootctrl(b)))
              /\ SameButStaged(Restored(EncodeBootctrl(b)), b)
        BY <2>5, RoundTrip, RestoredFields
      <4>2. PICK x : x = Restored(EncodeBootctrl(b)) OBVIOUS
      <4>3. Safe(x)' BY <3>1, <2>5, <4>1, <4>2 DEF Safe, SameButStaged, SoundBoot
      <4>4. QED BY <2>10, <4>2, <4>3
    <3>3. upGood' \subseteq Slot BY <1>1, <2>10
    <3>4. QED BY <1>2, <2>5, <2>10, <3>1, <3>2, <3>3, StoreKeeps
  <2>11. QED BY <1>8, <2>1, <2>2, <2>9, <2>10 DEF HandleSwitch, Persist
<1>9. CASE Reboot
  <2>1. upBoot' = Restored(upStored) /\ UNCHANGED <<upStored, upGood, upSaved>> BY <1>9 DEF Reboot
  <2>2. rec \in BootRecord /\ SoundBoot(rec) BY <1>2, <1>4, RestoredSound DEF UpTypeOK
  <2>3. Safe(rec)' BY <1>1, <1>4, <2>1 DEF Safe
  <2>4. upBoot' = rec /\ Restored(upStored') = rec BY <1>4, <2>1
  <2>5. UpTypeOK' /\ UpSound' /\ UpFallbackGood'
    BY <1>2, <2>1, <2>2, <2>3, <2>4 DEF UpTypeOK, UpSound, UpFallbackGood
  <2>6. UpRestoreExact' BY <2>4 DEF UpRestoreExact
  <2>7. QED BY <2>5, <2>6 DEF UpInv
<1>10. CASE UNCHANGED <<upBoot, upStored, upGood, upSaved>>
  BY <1>10 DEF UpInv, UpTypeOK, UpSound, UpFallbackGood, UpRestoreExact, Safe
<1>11. QED
  BY <1>5, <1>6, <1>7, <1>8, <1>9, <1>10
  DEF UpNext, SendBootAttempt, InitDone, ServeLate, upVars

\* For any try counts, deadlines and queue bounds, if the stored state can be
\* loaded: whatever stores failed or were half done, the machine runs a
\* confirmed image or one that falls back to a confirmed image, now and after a
\* restart (handle_switch, handle_health_ok, handle_boot_attempt).
THEOREM UpdatesFallBackGood == ASSUME ~ LoadFailures PROVE UpdatesSpec => []UpFallbackGood
<1>1. UpInit => UpInv BY UpInvInit
<1>2. UpInv /\ [UpNext]_upVars => UpInv' BY UpInvStep
<1>3. UpInv => UpFallbackGood BY DEF UpInv
<1>4. QED BY <1>1, <1>2, <1>3, PTL DEF UpdatesSpec

\* Under the same assumption: once a change was acknowledged as stored, a restart
\* rebuilds the boot control but for what is staged (encode_bootctrl_state,
\* bootctrl_from_state).
THEOREM UpdatesRestoreExact == ASSUME ~ LoadFailures PROVE UpdatesSpec => []UpRestoreExact
<1>1. UpInit => UpInv BY UpInvInit
<1>2. UpInv /\ [UpNext]_upVars => UpInv' BY UpInvStep
<1>3. UpInv => UpRestoreExact BY DEF UpInv
<1>4. QED BY <1>1, <1>2, <1>3, PTL DEF UpdatesSpec

-----------------------------------------------------------------------------
(* Launch                                                                   *)

SessionState == {"Greeter", "Active"}
InstanceRecord == [app : App, state : States \cup {"Created"}]
Asking == [at : {"ask", "gate"}, app : App, cap : BOOLEAN]
Serving == [at : {"spawn", "reply", "answer"}, cap : BOOLEAN]

LnTypeOK ==
    /\ lnSession \in SessionState /\ lnAnswers \in Seq(SessionState)
    /\ lnInstance \in Seq(InstanceRecord)
    /\ lnPc \in {Idle} \cup Asking \cup Serving

(* sessiond's answers stay true: there is no way back to the greeter. *)
AnswersTrue ==
    \A i \in DOMAIN lnAnswers : lnAnswers[i] = "Active" => lnSession = "Active"

LnInv == LnTypeOK /\ AnswersTrue /\ LnNoLaunchBeforeLogin

\* A launch keeps the types, and launches nothing else than what was asked for.
LEMMA LaunchKeeps ==
    ASSUME LnTypeOK, NEW a \in App, NEW cap \in BOOLEAN, DispatchLaunch(a, cap)
    PROVE  /\ lnInstance' \in Seq(InstanceRecord)
           /\ lnPc' \in Serving
           /\ \A id \in DOMAIN lnInstance' :
                 lnInstance'[id].app = a
                 \/ (id \in DOMAIN lnInstance /\ lnInstance'[id] = lnInstance[id])
<1>0. Answering(cap) \in Serving BY DEF Answering, Serving
<1>1. CASE LaunchWithCaps(a, cap)
  <2>0. PICK new : new = [app |-> a, state |-> "Created"] OBVIOUS
  <2>1. lnInstance' = Append(lnInstance, new) BY <1>1, <2>0 DEF LaunchWithCaps
  <2>2. new \in InstanceRecord BY <2>0 DEF InstanceRecord
  <2>3. new.app = a BY <2>0
  <2>4. Len(lnInstance) \in Nat BY DEF LnTypeOK
  <2>5. lnPc' \in Serving BY <1>0, <1>1 DEF LaunchWithCaps, Serving
  <2>6. /\ lnInstance' \in Seq(InstanceRecord)
        /\ Len(lnInstance') = Len(lnInstance) + 1 /\ lnInstance'[Len(lnInstance) + 1] = new
        /\ \A i \in 1..Len(lnInstance) : lnInstance'[i] = lnInstance[i]
    BY <2>1, <2>2, AppendProperties DEF LnTypeOK
  <2>7. /\ DOMAIN lnInstance' = 1..(Len(lnInstance) + 1)
        /\ DOMAIN lnInstance = 1..Len(lnInstance)
    BY <2>6 DEF LnTypeOK
  <2>8. ASSUME NEW id \in DOMAIN lnInstance'
        PROVE  lnInstance'[id].app = a
               \/ (id \in DOMAIN lnInstance /\ lnInstance'[id] = lnInstance[id])
    <3>1. CASE id = Len(lnInstance) + 1
      <4>1. lnInstance'[id] = new BY <2>6, <3>1, Zenon
      <4>2. QED BY <2>3, <4>1
    <3>2. CASE id \in 1..Len(lnInstance) BY <2>6, <2>7, <3>2
    <3>3. QED BY <2>4, <2>7, <3>1, <3>2
  <2>9. QED BY <2>5, <2>6, <2>8
<1>2. CASE UNCHANGED lnInstance /\ lnPc' = Answering(cap) BY <1>0, <1>2 DEF LnTypeOK
<1>3. QED BY <1>1, <1>2 DEF DispatchLaunch

\* Every step keeps the types, the truth of the answers and the gate.
LEMMA LnInvStep == LnInv /\ [LnNext]_lnVars => LnInv'
<1> SUFFICES ASSUME LnInv, [LnNext]_lnVars PROVE LnInv' OBVIOUS
<1>0. LnTypeOK BY DEF LnInv
<1>14. /\ lnPc.at \in {"ask", "gate"} => lnPc \in Asking /\ lnPc.app \in App /\ lnPc.cap \in BOOLEAN
       /\ lnPc.at \in {"spawn", "reply", "answer"} => lnPc \in Serving /\ lnPc.cap \in BOOLEAN
  BY <1>0 DEF LnTypeOK, Asking, Serving, Idle
<1>15. \A cap \in BOOLEAN : Answering(cap) \in Serving BY DEF Answering, Serving
<1> USE DEF LnInv, LnTypeOK, AnswersTrue, LnNoLaunchBeforeLogin, SessionState
<1>1. CASE Login BY <1>1 DEF Login, lnQueues
<1>2. CASE GetState
  <2>1. CASE lnAnswers' = lnAnswers BY <1>2, <2>1 DEF GetState
  <2>2. CASE lnAnswers' = Append(lnAnswers, lnSession) BY <1>2, <2>2 DEF GetState
  <2>3. QED BY <1>2, <2>1, <2>2 DEF GetState
<1>3. CASE GateAnswer
  <2>1. lnPc.app \in App /\ lnPc.cap \in BOOLEAN /\ lnAnswers # <<>> BY <1>3, <1>14 DEF GateAnswer
  <2>2. /\ lnAnswers' \in Seq(SessionState)
        /\ \A i \in DOMAIN lnAnswers' : lnAnswers'[i] = lnAnswers[i + 1] /\ i + 1 \in DOMAIN lnAnswers
    BY <1>3, <2>1 DEF GateAnswer
  <2>3. Head(lnAnswers) = lnAnswers[1] /\ 1 \in DOMAIN lnAnswers BY <2>1
  <2>4. CASE GateOpens(Head(lnAnswers)) /\ DispatchLaunch(lnPc.app, lnPc.cap)
    <3>1. lnSession = "Active" BY <2>3, <2>4 DEF GateOpens
    <3>2. QED BY <1>0, <1>3, <2>1, <2>2, <2>4, <3>1, LaunchKeeps DEF GateAnswer
  <2>5. CASE lnPc' = Answering(lnPc.cap) /\ UNCHANGED lnInstance
    BY <1>3, <1>15, <2>1, <2>2, <2>5 DEF GateAnswer
  <2>6. QED BY <1>3, <2>4, <2>5 DEF GateAnswer
<1>4. ASSUME lnPc' \in {Idle} \cup Asking \cup Serving, UNCHANGED <<lnSession, lnInstance, lnAnswers>>
      PROVE  LnInv'
  BY <1>4
<1>5. CASE AskSession
  <2>1. lnPc' \in Asking \cup Serving BY <1>5, <1>14, <1>15 DEF AskSession, Asking
  <2>2. QED BY <1>4, <1>5, <2>1 DEF AskSession
<1>6. CASE GateTimeout \/ SpawnAnswer \/ SpawnTimeout
  <2>1. lnPc' \in Serving BY <1>6, <1>14, <1>15 DEF GateTimeout, SpawnAnswer, SpawnTimeout
  <2>2. QED BY <1>4, <1>6, <2>1 DEF GateTimeout, SpawnAnswer, SpawnTimeout, lnQueues
<1>7. CASE SendSpawn
  <2>1. lnPc' \in Serving BY <1>7, <1>14 DEF SendSpawn, Serving
  <2>2. QED BY <1>4, <1>7, <2>1 DEF SendSpawn
<1>8. CASE Reply \/ ClientTakes \/ ExecStep
  BY <1>4, <1>8 DEF Reply, ClientTakes, ExecStep, HandleFrame, ExecReply
<1>9. ASSUME NEW a \in App, NEW cap \in BOOLEAN, RequestPreSession(a, cap) PROVE LnInv'
  BY <1>0, <1>9, LaunchKeeps DEF RequestPreSession, lnQueues
<1>10. ASSUME NEW a \in App, NEW cap \in BOOLEAN, RequestGated(a, cap) PROVE LnInv'
  <2>1. lnPc' \in Asking \cup Serving BY <1>10, <1>15 DEF RequestGated, Asking
  <2>2. QED BY <1>4, <1>10, <2>1 DEF RequestGated, lnQueues
<1>11. ASSUME NEW id \in DOMAIN lnInstance, NEW to \in States, NEW cap \in BOOLEAN,
              BrokerTransition(id, to, cap)
       PROVE  LnInv'
  <2>1. /\ lnInstance' = [lnInstance EXCEPT ![id].state = to] \/ lnInstance' = lnInstance
        /\ lnPc' \in Serving /\ UNCHANGED <<lnSession, lnAnswers>>
    BY <1>11, <1>15 DEF BrokerTransition, lnQueues
  <2>2. CASE lnInstance' = lnInstance BY <1>4, <2>1, <2>2
  <2>3. CASE lnInstance' = [lnInstance EXCEPT ![id].state = to]
    <3>1. lnInstance[id] \in InstanceRecord /\ id \in 1..Len(lnInstance) OBVIOUS
    <3>2. PICK r : r = [lnInstance[id] EXCEPT !.state = to] OBVIOUS
    <3>3. r \in InstanceRecord BY <3>1, <3>2 DEF InstanceRecord
    <3>4. lnInstance' = [lnInstance EXCEPT ![id] = r] BY <2>3, <3>2
    <3>5. lnInstance' \in Seq(InstanceRecord) BY <3>1, <3>3, <3>4, ExceptSeq
    <3>6. /\ DOMAIN lnInstance' = DOMAIN lnInstance
          /\ \A j \in DOMAIN lnInstance : lnInstance'[j].app = lnInstance[j].app
      BY <2>3
    <3>7. QED BY <2>1, <3>5, <3>6
  <2>4. QED BY <2>1, <2>2, <2>3
<1>12. CASE UNCHANGED lnVars BY <1>12 DEF lnVars, lnQueues
<1>13. QED BY <1>1, <1>2, <1>3, <1>5, <1>6, <1>7, <1>8, <1>9, <1>10, <1>11, <1>12
         DEF LnNext, BrokerStep

\* For any apps, tables and queues: no app but the login surface has an instance
\* before somebody logged in, although answers are taken for those of later
\* questions (session_gate_active).
THEOREM LaunchGated == LaunchSpec => []LnNoLaunchBeforeLogin
<1>1. LnInit => LnInv
  BY DEF LnInit, LnInv, LnTypeOK, AnswersTrue, LnNoLaunchBeforeLogin, SessionState
<1>2. LnInv => LnNoLaunchBeforeLogin BY DEF LnInv
<1>3. QED BY <1>1, <1>2, LnInvStep, PTL DEF LaunchSpec

-----------------------------------------------------------------------------
(* Journal                                                                  *)

JnRecord == [id : Nat, size : Nat]
Sizes(records) == [i \in DOMAIN records |-> records[i].size]

(* The newest k records of a history. *)
Newest(h, k) == SubSeq(h, Len(h) - k + 1, Len(h))

\* A sequence of records has a sequence of sizes.
LEMMA SizesType ==
    ASSUME NEW s \in Seq(JnRecord)
    PROVE  /\ Sizes(s) \in Seq(Nat) /\ Len(Sizes(s)) = Len(s) /\ Bytes(s) = SumSeq(Sizes(s))
           /\ \A i \in 1..Len(s) : Sizes(s)[i] = s[i].size
           /\ Bytes(s) \in Nat
<1>1. ASSUME NEW i \in 1..Len(s) PROVE s[i].size \in Nat
  <2>1. s[i] \in JnRecord OBVIOUS
  <2>2. QED BY <2>1 DEF JnRecord
<1>2. Sizes(s) \in Seq(Nat) /\ Len(Sizes(s)) = Len(s) BY <1>1 DEF Sizes
<1>3. Bytes(s) = SumSeq(Sizes(s)) BY DEF Bytes, Sizes
<1>4. QED BY <1>2, <1>3, SumSeqType DEF Sizes

\* The elements of the newest k records.
LEMMA NewestType ==
    ASSUME NEW h \in Seq(JnRecord), NEW k \in 0..Len(h)
    PROVE  /\ Newest(h, k) \in Seq(JnRecord) /\ Len(Newest(h, k)) = k
           /\ \A i \in 1..k : Newest(h, k)[i] = h[(Len(h) - k) + i]
           /\ Bytes(Newest(h, k)) \in Nat
<1> DEFINE n == Len(h)
           m == n - k + 1
<1>1. n \in Nat /\ k \in Nat /\ k <= n /\ m \in Int /\ m >= 1 OBVIOUS
<1>2. \A i \in m..n : h[i] \in JnRecord
  <2>1. m..n \subseteq 1..Len(h) BY <1>1
  <2>2. QED BY <2>1
<1>3. /\ Newest(h, k) \in Seq(JnRecord)
      /\ Len(Newest(h, k)) = IF m <= n THEN n - m + 1 ELSE 0
      /\ \A i \in 1..(n - m + 1) : Newest(h, k)[i] = h[m + i - 1]
  <2> HIDE DEF m
  <2> QED BY <1>1, <1>2, SubSeqProperties DEF m, Newest
<1>4. n - m + 1 = k /\ Len(Newest(h, k)) = k BY <1>1, <1>3
<1>5. ASSUME NEW i \in 1..k PROVE m + i - 1 = (n - k) + i BY <1>1
<1>6. QED BY <1>3, <1>4, <1>5, SizesType

\* Sequences with the same elements are the same.
LEMMA SameElements ==
    ASSUME NEW s \in Seq(JnRecord), NEW t \in Seq(JnRecord), Len(s) = Len(t),
           \A i \in 1..Len(s) : s[i] = t[i]
    PROVE  s = t
OBVIOUS

\* Without its j oldest, the newest k records are the newest k - j, and their
\* bytes are those of the newest k less the bytes of the j.
LEMMA NewestSplit ==
    ASSUME NEW h \in Seq(JnRecord), NEW k \in 0..Len(h), NEW j \in 0..k
    PROVE  /\ SubSeq(Newest(h, k), j + 1, k) = Newest(h, k - j)
           /\ Bytes(Newest(h, k)) - Bytes(SubSeq(Newest(h, k), 1, j)) = Bytes(Newest(h, k - j))
           /\ k - j \in 0..Len(h)
<1> DEFINE n == Len(h)
           a == n - k
           s == Newest(h, k)
           old == SubSeq(s, 1, j)
           rest == SubSeq(s, j + 1, k)
<1>1. n \in Nat /\ k \in Nat /\ j \in Nat /\ j <= k /\ k <= n /\ a \in Nat /\ k - j \in 0..n OBVIOUS
<1>2. s \in Seq(JnRecord) /\ Len(s) = k /\ \A i \in 1..k : s[i] = h[a + i] BY NewestType
<1> HIDE DEF s
<1>3. rest \in Seq(JnRecord) /\ Len(rest) = k - j /\ \A i \in 1..(k - j) : rest[i] = s[j + i]
  <2>1. \A i \in (j + 1)..k : s[i] \in JnRecord
    <3>1. (j + 1)..k \subseteq 1..Len(s) BY <1>1, <1>2
    <3>2. QED BY <1>2, <3>1
  <2>2. j + 1 \in Int /\ k \in Int BY <1>1
  <2>3. /\ rest \in Seq(JnRecord) /\ Len(rest) = IF j + 1 <= k THEN k - (j + 1) + 1 ELSE 0
        /\ \A i \in 1..(k - (j + 1) + 1) : rest[i] = s[(j + 1) + i - 1]
    BY <2>1, <2>2, SubSeqProperties
  <2>4. k - (j + 1) + 1 = k - j /\ Len(rest) = k - j BY <1>1, <2>3
  <2>5. \A i \in 1..(k - j) : (j + 1) + i - 1 = j + i BY <1>1
  <2>6. QED BY <2>3, <2>4, <2>5
<1>4. old \in Seq(JnRecord) /\ Len(old) = j /\ \A i \in 1..j : old[i] = s[i]
  <2>1. \A i \in 1..j : s[i] \in JnRecord
    <3>1. 1..j \subseteq 1..Len(s) BY <1>1, <1>2
    <3>2. QED BY <1>2, <3>1
  <2>2. 1 \in Int /\ j \in Int BY <1>1
  <2>3. /\ old \in Seq(JnRecord) /\ Len(old) = IF 1 <= j THEN j - 1 + 1 ELSE 0
        /\ \A i \in 1..(j - 1 + 1) : old[i] = s[1 + i - 1]
    BY <2>1, <2>2, SubSeqProperties
  <2>4. j - 1 + 1 = j /\ Len(old) = j BY <1>1, <2>3
  <2>5. \A i \in 1..j : 1 + i - 1 = i BY <1>1
  <2>6. QED BY <2>3, <2>4, <2>5
<1> HIDE DEF old, rest
<1>5. rest = Newest(h, k - j)
  <2>1. /\ Newest(h, k - j) \in Seq(JnRecord) /\ Len(Newest(h, k - j)) = k - j
        /\ \A i \in 1..(k - j) : Newest(h, k - j)[i] = h[(n - (k - j)) + i]
    BY <1>1, NewestType
  <2>2. ASSUME NEW i \in 1..(k - j) PROVE rest[i] = Newest(h, k - j)[i]
    <3>1. j + i \in 1..k /\ a + (j + i) = (n - (k - j)) + i BY <1>1
    <3>2. s[j + i] = h[a + (j + i)] BY <1>2, <3>1
    <3>3. QED BY <1>3, <2>1, <3>1, <3>2
  <2>3. QED BY <1>3, <2>1, <2>2, SameElements
<1>6. Bytes(s) = Bytes(old) + Bytes(rest)
  <2>1. Sizes(s) \in Seq(Nat) /\ Len(Sizes(s)) = k /\ Bytes(s) = SumSeq(Sizes(s))
        /\ \A i \in 1..k : Sizes(s)[i] = s[i].size
    BY <1>2, SizesType
  <2>2. Sizes(old) \in Seq(Nat) /\ Len(Sizes(old)) = j /\ Bytes(old) = SumSeq(Sizes(old))
        /\ \A i \in 1..j : Sizes(old)[i] = old[i].size
    BY <1>4, SizesType
  <2>3. Sizes(rest) \in Seq(Nat) /\ Len(Sizes(rest)) = k - j /\ Bytes(rest) = SumSeq(Sizes(rest))
        /\ \A i \in 1..(k - j) : Sizes(rest)[i] = rest[i].size
    BY <1>3, SizesType
  <2>4. PICK ss \in Seq(Nat), oo \in Seq(Nat), rr \in Seq(Nat) :
          ss = Sizes(s) /\ oo = Sizes(old) /\ rr = Sizes(rest)
    BY <2>1, <2>2, <2>3
  <2>5. ASSUME NEW i \in 1..j PROVE oo[i] = ss[i]
    <3>1. i \in 1..k BY <1>1
    <3>2. QED BY <1>4, <2>1, <2>2, <2>4, <3>1
  <2>6. ASSUME NEW i \in 1..(k - j) PROVE rr[i] = ss[j + i]
    <3>1. j + i \in 1..k BY <1>1
    <3>2. QED BY <1>3, <2>1, <2>3, <2>4, <3>1
  <2>7. Len(ss) = k /\ Len(oo) = j /\ Len(rr) = k - j BY <2>1, <2>2, <2>3, <2>4
  <2>8. j \in 0..Len(ss) /\ Len(rr) = Len(ss) - j /\ \A i \in 1..(Len(ss) - j) : rr[i] = ss[j + i]
    BY <1>1, <2>6, <2>7
  <2>9. SumSeq(ss) = SumSeq(oo) + SumSeq(rr) BY <2>5, <2>7, <2>8, SumSeqSplit
  <2>10. QED BY <2>1, <2>2, <2>3, <2>4, <2>9
<1>7. Bytes(old) \in Nat /\ Bytes(rest) \in Nat BY <1>3, <1>4, SizesType
<1>8. Bytes(s) - Bytes(old) = Bytes(rest) BY <1>6, <1>7
<1>9. QED BY <1>1, <1>5, <1>8 DEF s, old, rest

\* A record appended to the newest k is the newest k + 1 of the longer history.
LEMMA NewestAppend ==
    ASSUME NEW h \in Seq(JnRecord), NEW k \in 0..Len(h), NEW r \in JnRecord
    PROVE  /\ Append(Newest(h, k), r) = Newest(Append(h, r), k + 1)
           /\ Bytes(Newest(Append(h, r), k + 1)) = Bytes(Newest(h, k)) + r.size
<1> DEFINE n == Len(h)
           s == Newest(h, k)
           g == Append(h, r)
<1>1. n \in Nat /\ k \in Nat /\ k <= n OBVIOUS
<1>2. s \in Seq(JnRecord) /\ Len(s) = k /\ \A i \in 1..k : s[i] = h[(n - k) + i] BY NewestType
<1>3. g \in Seq(JnRecord) /\ Len(g) = n + 1 /\ g[n + 1] = r /\ \A i \in 1..n : g[i] = h[i] OBVIOUS
<1> HIDE DEF s, g
<1>4. /\ Newest(g, k + 1) \in Seq(JnRecord) /\ Len(Newest(g, k + 1)) = k + 1
      /\ \A i \in 1..(k + 1) : Newest(g, k + 1)[i] = g[((n + 1) - (k + 1)) + i]
  <2>1. k + 1 \in 0..Len(g) BY <1>1, <1>3
  <2>2. QED BY <1>3, <2>1, NewestType
<1>5. /\ Append(s, r) \in Seq(JnRecord) /\ Len(Append(s, r)) = k + 1 /\ Append(s, r)[k + 1] = r
      /\ \A i \in 1..k : Append(s, r)[i] = s[i]
  BY <1>2
<1>6. ASSUME NEW i \in 1..(k + 1) PROVE Append(s, r)[i] = Newest(g, k + 1)[i]
  <2>1. CASE i = k + 1
    <3>1. ((n + 1) - (k + 1)) + i = n + 1 BY <1>1, <2>1
    <3>2. QED BY <1>3, <1>4, <1>5, <2>1, <3>1
  <2>2. CASE i # k + 1
    <3>1. i \in 1..k /\ (n - k) + i \in 1..n /\ ((n + 1) - (k + 1)) + i = (n - k) + i BY <1>1, <2>2
    <3>2. Append(s, r)[i] = h[(n - k) + i] BY <1>2, <1>5, <3>1
    <3>3. Newest(g, k + 1)[i] = g[(n - k) + i] BY <1>4, <3>1
    <3>4. QED BY <1>3, <3>1, <3>2, <3>3
  <2>3. QED BY <2>1, <2>2
<1>7. Append(s, r) = Newest(g, k + 1) BY <1>4, <1>5, <1>6, SameElements
<1>8. Bytes(Append(s, r)) = Bytes(s) + r.size
  <2>1. Sizes(s) \in Seq(Nat) /\ Len(Sizes(s)) = k /\ Bytes(s) = SumSeq(Sizes(s))
        /\ \A i \in 1..k : Sizes(s)[i] = s[i].size
    BY <1>2, SizesType
  <2>2. Sizes(Append(s, r)) \in Seq(Nat) /\ Len(Sizes(Append(s, r))) = k + 1
        /\ Bytes(Append(s, r)) = SumSeq(Sizes(Append(s, r)))
        /\ \A i \in 1..(k + 1) : Sizes(Append(s, r))[i] = Append(s, r)[i].size
    BY <1>5, SizesType
  <2>3. r.size \in Nat BY DEF JnRecord
  <2>4. Sizes(Append(s, r)) = Append(Sizes(s), r.size)
    <3>1. Append(Sizes(s), r.size) \in Seq(Nat) /\ Len(Append(Sizes(s), r.size)) = k + 1
          /\ Append(Sizes(s), r.size)[k + 1] = r.size
          /\ \A i \in 1..k : Append(Sizes(s), r.size)[i] = Sizes(s)[i]
      BY <2>1, <2>3
    <3>2. ASSUME NEW i \in 1..(k + 1) PROVE Sizes(Append(s, r))[i] = Append(Sizes(s), r.size)[i]
      <4>1. CASE i = k + 1 BY <1>5, <2>2, <3>1, <4>1
      <4>2. CASE i # k + 1
        <5>1. i \in 1..k BY <1>1, <4>2
        <5>2. QED BY <1>5, <2>1, <2>2, <3>1, <5>1
      <4>3. QED BY <4>1, <4>2
    <3>3. QED BY <2>2, <3>1, <3>2
  <2>5. QED BY <2>1, <2>2, <2>3, <2>4, SumSeqAppend
<1>9. QED BY <1>7, <1>8 DEF s, g

JnTypeOK ==
    /\ jnRecords \in Seq(JnRecord) /\ jnHistory \in Seq(JnRecord)
    /\ jnUsed \in Nat /\ jnAllocated \in Nat /\ jnTotal \in Nat /\ jnDropped \in Nat

(* The journal is a part of the history, and it does not use more than was    *)
(* ever allocated: so its last check cannot refuse what Affordable admitted.  *)
JnInv ==
    /\ JnTypeOK /\ JnKeepsNewest
    /\ Len(jnRecords) <= Len(jnHistory) /\ jnUsed <= jnAllocated

\* What the journal holds and has left, as the newest k records of the history.
LEMMA JnShape ==
    ASSUME JnInv, NEW k, k = Len(jnRecords)
    PROVE  /\ k \in 0..Len(jnHistory) /\ jnRecords = Newest(jnHistory, k)
           /\ jnUsed = Bytes(Newest(jnHistory, k)) /\ Fitting(Newest(jnHistory, k))
           /\ k # Len(jnHistory) => ~ Fitting(Newest(jnHistory, k + 1))
<1>1. k \in Nat /\ Len(jnHistory) \in Nat /\ k <= Len(jnHistory) BY DEF JnInv, JnTypeOK
<1>2. jnRecords = Newest(jnHistory, k) BY DEF JnInv, JnKeepsNewest, Newest
<1>3. Len(jnHistory) - (k + 1) + 1 = Len(jnHistory) - k BY <1>1
<1>4. k # Len(jnHistory) => ~ Fitting(Newest(jnHistory, k + 1))
  BY <1>3 DEF JnInv, JnKeepsNewest, Newest
<1>5. QED BY <1>1, <1>2, <1>4 DEF JnInv, JnKeepsNewest

(* What the loop has done when it stops with k - d of k records left. *)
RoomMade(k, d, size) ==
    /\ d \in 0..k
    /\ d = k \/ ~ NoRoom(Newest(jnHistory, k - d), Bytes(Newest(jnHistory, k - d)), size)
    /\ \A m \in 0..(d - 1) :
         NoRoom(Newest(jnHistory, k - m), Bytes(Newest(jnHistory, k - m)), size)
    /\ SubSeq(jnRecords, d + 1, Len(jnRecords)) = Newest(jnHistory, k - d)
    /\ jnUsed - Bytes(SubSeq(jnRecords, 1, d)) = Bytes(Newest(jnHistory, k - d))

\* The loop stops, at the first number of dropped records that makes room, or
\* when nothing is left.
LEMMA MakeRoomStops ==
    ASSUME JnInv, NEW size \in Nat, NEW k, k = Len(jnRecords), NEW d, d = MakeRoom(size)
    PROVE  RoomMade(k, d, size)
<1> DEFINE h == jnHistory
           Full(m) == NoRoom(SubSeq(jnRecords, m + 1, Len(jnRecords)),
                             jnUsed - Bytes(SubSeq(jnRecords, 1, m)), size)
           Stops == {m \in 0..k : m = k \/ ~ Full(m)}
<1>1. k \in 0..Len(h) /\ jnRecords = Newest(h, k) /\ jnUsed = Bytes(Newest(h, k)) BY JnShape
<1>2. k \in Nat /\ h \in Seq(JnRecord) BY <1>1 DEF JnInv, JnTypeOK
<1>3. ASSUME NEW m \in 0..k
      PROVE  /\ SubSeq(jnRecords, m + 1, Len(jnRecords)) = Newest(h, k - m)
             /\ jnUsed - Bytes(SubSeq(jnRecords, 1, m)) = Bytes(Newest(h, k - m))
  BY <1>1, <1>2, NewestSplit
<1>4. \E e \in 0..k : (e = k \/ ~ Full(e)) /\ \A m \in 0..(e - 1) : Full(m)
  <2> HIDE DEF Full
  <2>1. Stops \subseteq Nat /\ k \in Stops BY <1>2
  <2>2. PICK e \in Stops : \A m \in Stops : e <= m
    <3> HIDE DEF Stops
    <3> QED BY <2>1, NatMinimum
  <2>3. ASSUME NEW m \in 0..(e - 1) PROVE Full(m)
    <3>1. m \in 0..k /\ m # k /\ ~ (e <= m) BY <1>2, <2>1
    <3>2. QED BY <2>2, <3>1
  <2>4. QED BY <2>2, <2>3
<1>5. d = CHOOSE e \in 0..k : (e = k \/ ~ Full(e)) /\ \A m \in 0..(e - 1) : Full(m)
  BY DEF MakeRoom
<1> HIDE DEF Full
<1>6. d \in 0..k /\ (d = k \/ ~ Full(d)) /\ \A m \in 0..(d - 1) : Full(m) BY <1>4, <1>5
<1>7. ASSUME NEW m \in 0..k
      PROVE  Full(m) <=> NoRoom(Newest(h, k - m), Bytes(Newest(h, k - m)), size)
  BY <1>3 DEF Full
<1>8. \A m \in 0..(d - 1) : m \in 0..k BY <1>2, <1>6
<1>9. QED BY <1>3, <1>6, <1>7, <1>8 DEF RoomMade

\* An append keeps the invariant.
LEMMA JnAppendKeeps ==
    ASSUME JnInv, NEW size \in Nat, JnAppend(size) PROVE JnInv'
<1> DEFINE h == jnHistory
           n == Len(jnHistory)
           k == Len(jnRecords)
           d == MakeRoom(size)
           rest == Newest(h, k - d)
           record == [id |-> jnTotal + 1, size |-> size]
           Refused == NoRoom(rest, Bytes(rest), size) \/ Bytes(rest) + size > AllocCap
<1>1. /\ k \in 0..n /\ jnRecords = Newest(h, k) /\ jnUsed = Bytes(Newest(h, k))
      /\ Fitting(Newest(h, k)) /\ (k # n => ~ Fitting(Newest(h, k + 1)))
  BY JnShape
<1>2. /\ d \in 0..k /\ (d = k \/ ~ NoRoom(rest, Bytes(rest), size))
      /\ \A m \in 0..(d - 1) : NoRoom(Newest(h, k - m), Bytes(Newest(h, k - m)), size)
      /\ SubSeq(jnRecords, d + 1, Len(jnRecords)) = rest
      /\ jnUsed - Bytes(SubSeq(jnRecords, 1, d)) = Bytes(rest)
  <2>1. RoomMade(k, d, size) BY MakeRoomStops
  <2>2. QED BY <2>1 DEF RoomMade
<1>3. h \in Seq(JnRecord) /\ n \in Nat /\ k \in Nat /\ d \in Nat /\ d <= k /\ k <= n /\ k - d \in 0..n
  BY <1>1, <1>2 DEF JnInv, JnTypeOK
<1>4. /\ size <= CapBytes /\ Affordable(size) /\ jnDropped' = jnDropped + d
      /\ IF Refused
         THEN /\ jnRecords' = rest /\ jnUsed' = Bytes(rest)
              /\ UNCHANGED <<jnAllocated, jnTotal, jnHistory>>
         ELSE /\ jnRecords' = Append(rest, record)
              /\ jnUsed' = Bytes(rest) + size
              /\ jnAllocated' = jnAllocated + size
              /\ jnTotal' = jnTotal + 1
              /\ jnHistory' = Append(jnHistory, record)
  BY <1>2 DEF JnAppend
<1> HIDE DEF d
<1>5. /\ CapRecords \in Nat /\ CapBytes \in Nat /\ AllocCap \in Nat
      /\ jnUsed \in Nat /\ jnAllocated \in Nat /\ jnTotal \in Nat /\ jnDropped \in Nat
      /\ jnUsed <= jnAllocated /\ jnDropped + k = jnTotal
  BY JnAssumption DEF JnInv, JnTypeOK, JnKeepsNewest
<1>6. rest \in Seq(JnRecord) /\ Len(rest) = k - d /\ Bytes(rest) \in Nat BY <1>3, NewestType
<1>7. Bytes(rest) <= jnUsed
  <2>1. Bytes(SubSeq(Newest(h, k), 1, d)) \in Nat
    <3>1. Newest(h, k) \in Seq(JnRecord) /\ Len(Newest(h, k)) = k BY <1>1, <1>3, NewestType
    <3>2. \A i \in 1..d : Newest(h, k)[i] \in JnRecord
      <4>1. 1..d \subseteq 1..Len(Newest(h, k)) BY <1>3, <3>1
      <4>2. QED BY <3>1, <4>1
    <3>3. SubSeq(Newest(h, k), 1, d) \in Seq(JnRecord)
      <4>1. 1 \in Int /\ d \in Int BY <1>3
      <4>2. QED BY <3>2, <4>1, SubSeqProperties
    <3>4. QED BY <3>3, SizesType
  <2>2. PICK b \in Nat : b = Bytes(SubSeq(jnRecords, 1, d)) BY <1>1, <2>1
  <2>3. jnUsed - b = Bytes(rest) BY <1>2, <2>2
  <2>4. QED BY <1>5, <1>6, <2>3
<1>8. Bytes(rest) + size <= AllocCap BY <1>4, <1>5, <1>6, <1>7 DEF Affordable
<1>9. CASE Refused
  <2>1. NoRoom(rest, Bytes(rest), size) BY <1>5, <1>6, <1>8, <1>9
  <2>2. d = k BY <1>2, <2>1
  <2>3. Len(rest) = 0 /\ rest = <<>> BY <1>3, <1>6, <2>2
  <2>4. Bytes(rest) = 0
    <3>1. Sizes(rest) = <<>> BY <1>6, <2>3, SizesType
    <3>2. QED BY <1>6, <3>1, SizesType, SumSeqEmpty
  <2>5. CapRecords = 0 BY <1>4, <1>5, <2>1, <2>3, <2>4 DEF NoRoom
  <2>6. k = 0 /\ d = 0
    <3>1. Len(Newest(h, k)) = k BY <1>1, <1>3, NewestType
    <3>2. k <= CapRecords BY <1>1, <3>1 DEF Fitting
    <3>3. QED BY <1>3, <2>2, <2>5, <3>2
  <2>7. jnRecords' = jnRecords /\ jnUsed' = jnUsed /\ jnDropped' = jnDropped
    <3>1. k - d = k BY <2>6
    <3>2. QED BY <1>1, <1>4, <1>5, <1>9, <2>6, <3>1
  <2>8. UNCHANGED jnVars BY <1>4, <1>9, <2>7 DEF jnVars
  <2>9. QED BY <2>8 DEF JnInv, JnTypeOK, JnKeepsNewest, jnVars
<1>10. CASE ~ Refused
  <2>1. /\ jnRecords' = Append(rest, record) /\ jnUsed' = Bytes(rest) + size
        /\ jnAllocated' = jnAllocated + size /\ jnTotal' = jnTotal + 1
        /\ jnHistory' = Append(h, record)
    BY <1>4, <1>10
  <2>2. record \in JnRecord /\ record.size = size BY <1>5 DEF JnRecord
  <2> HIDE DEF record, rest
  <2>3. Len(jnHistory') = n + 1 /\ jnHistory' \in Seq(JnRecord) BY <1>3, <2>1, <2>2
  <2>4. jnRecords' \in Seq(JnRecord) /\ Len(jnRecords') = k - d + 1 BY <1>6, <2>1, <2>2
  <2>5. JnTypeOK'
    BY <1>3, <1>4, <1>5, <1>6, <2>1, <2>3, <2>4 DEF JnTypeOK
  <2>6. Len(jnRecords') <= Len(jnHistory') /\ jnUsed' <= jnAllocated'
    BY <1>3, <1>5, <1>6, <1>7, <2>1, <2>3, <2>4
  <2>7. /\ jnRecords' = Newest(jnHistory', k - d + 1)
        /\ Bytes(jnRecords') = Bytes(rest) + size
    BY <1>3, <2>1, <2>2, NewestAppend DEF rest
  <2>8. Fitting(jnRecords')
    BY <1>3, <1>5, <1>6, <1>10, <2>4, <2>7 DEF Fitting, NoRoom
  <2>9. ASSUME k - d + 1 # n + 1 PROVE ~ Fitting(Newest(jnHistory', k - d + 2))
    <3> DEFINE m == k - d + 1
               bigger == Newest(h, m)
    <3>1. m \in 0..n /\ m + 1 = k - d + 2 BY <1>3, <2>9
    <3>2. Bytes(Newest(jnHistory', m + 1)) = Bytes(bigger) + size
      BY <1>3, <2>1, <2>2, <3>1, NewestAppend
    <3>3. Len(Newest(jnHistory', m + 1)) = m + 1
      <4>1. m + 1 \in 0..Len(jnHistory') BY <1>3, <2>3, <3>1
      <4>2. QED BY <2>3, <4>1, NewestType
    <3>4. Len(bigger) = m /\ Bytes(bigger) \in Nat BY <1>3, <3>1, NewestType
    <3>5. m + 1 > CapRecords \/ Bytes(bigger) + size > CapBytes
      <4>1. CASE d = 0
        <5>1. m = k + 1 /\ k # n BY <1>3, <2>9, <4>1
        <5>2. ~ Fitting(bigger) BY <1>1, <5>1
        <5>3. m > CapRecords \/ Bytes(bigger) > CapBytes
          BY <1>3, <1>5, <3>1, <3>4, <5>2 DEF Fitting
        <5>4. QED BY <1>3, <1>5, <3>1, <3>4, <5>3
      <4>2. CASE d # 0
        <5>1. d - 1 \in 0..(d - 1) /\ k - (d - 1) = m BY <1>3, <4>2
        <5>2. NoRoom(bigger, Bytes(bigger), size) BY <1>2, <5>1
        <5>3. QED BY <1>3, <1>5, <3>1, <3>4, <5>2 DEF NoRoom
      <4>3. QED BY <4>1, <4>2
    <3>6. ~ Fitting(Newest(jnHistory', m + 1))
      BY <1>3, <1>5, <3>1, <3>2, <3>3, <3>4, <3>5 DEF Fitting
    <3>7. QED BY <3>1, <3>6
  <2>10. JnKeepsNewest'
    <3>1. /\ jnRecords' = SubSeq(jnHistory', (n + 1) - (k - d + 1) + 1, n + 1)
          /\ Newest(jnHistory', k - d + 2) = SubSeq(jnHistory', (n + 1) - (k - d + 1), n + 1)
      <4>1. (n + 1) - (k - d + 2) + 1 = (n + 1) - (k - d + 1) BY <1>3
      <4>2. QED BY <2>3, <2>7, <4>1 DEF Newest
    <3>2. k - d + 1 = n + 1 \/ ~ Fitting(SubSeq(jnHistory', (n + 1) - (k - d + 1), n + 1))
      BY <2>9, <3>1
    <3>3. jnUsed' = Bytes(jnRecords') BY <2>1, <2>7
    <3>4. jnDropped' + (k - d + 1) = jnTotal'
      <4>1. jnDropped' = jnDropped + d /\ jnTotal' = jnTotal + 1 BY <1>4, <2>1
      <4>2. jnDropped \in Nat /\ jnDropped + k = jnTotal /\ k \in Nat /\ d \in Nat BY <1>3, <1>5
      <4> HIDE DEF k
      <4>3. QED BY <4>1, <4>2
    <3>5. QED BY <2>3, <2>4, <2>8, <3>1, <3>2, <3>3, <3>4 DEF JnKeepsNewest
  <2>11. QED BY <2>5, <2>6, <2>10 DEF JnInv
<1>11. QED BY <1>9, <1>10

\* For any sizes and bounds: the journal holds as many of the newest accepted
\* records as its bounds allow, not one less, although append drops before its
\* last check (Journal::append).
THEOREM JournalKeepsNewest == JournalSpec => []JnKeepsNewest
<1>1. JnInit => JnInv
  <2> SUFFICES ASSUME JnInit PROVE JnInv OBVIOUS
  <2>1. /\ jnRecords = <<>> /\ jnHistory = <<>> /\ jnUsed = 0 /\ jnAllocated = 0
        /\ jnTotal = 0 /\ jnDropped = 0
    BY DEF JnInit
  <2>2. <<>> \in Seq(JnRecord) /\ Len(<<>>) = 0 OBVIOUS
  <2>3. JnTypeOK BY <2>1, <2>2 DEF JnTypeOK
  <2>4. Bytes(<<>>) = 0
    <3>1. PICK e \in Seq(JnRecord) : e = <<>> BY <2>2
    <3>2. Sizes(e) \in Seq(Nat) /\ Len(Sizes(e)) = 0 BY <2>2, <3>1, SizesType
    <3>3. Sizes(e) = <<>> BY <3>2
    <3>4. QED BY <3>1, <3>3, SizesType, SumSeqEmpty
  <2>5. SubSeq(<<>>, 1, 0) = <<>> BY SubSeqEmpty
  <2>6. JnKeepsNewest BY <2>1, <2>2, <2>4, <2>5, JnAssumption DEF JnKeepsNewest, Fitting
  <2>7. QED BY <2>1, <2>2, <2>3, <2>6 DEF JnInv
<1>2. JnInv /\ [JnNext]_jnVars => JnInv'
  <2> SUFFICES ASSUME JnInv, [JnNext]_jnVars PROVE JnInv' OBVIOUS
  <2>1. ASSUME NEW size \in RecordSize, JnAppend(size) PROVE JnInv'
    <3>1. size \in Nat BY JnAssumption
    <3>2. QED BY <2>1, <3>1, JnAppendKeeps
  <2>2. CASE UNCHANGED jnVars
    BY <2>2 DEF jnVars, JnInv, JnTypeOK, JnKeepsNewest
  <2>3. QED BY <2>1, <2>2 DEF JnNext
<1>3. JnInv => JnKeepsNewest BY DEF JnInv
<1>4. QED BY <1>1, <1>2, <1>3, PTL DEF JournalSpec

-----------------------------------------------------------------------------
(* Mux                                                                      *)

Live == {"Open", "HalfClosedLocal", "HalfClosedRemote", "Closed", "Reset"}
StreamRecord == [state : Live, acked : BOOLEAN, credit : Nat, granted : Nat, buffered : Nat,
                 name : StreamName]
MxFrame == [kind : {"Open"}, id : StreamId, name : StreamName]
             \cup [kind : {"Data"}, id : StreamId, len : Nat]
             \cup [kind : {"WindowUpdate"}, id : StreamId, delta : Int]
             \cup [kind : {"OpenAck", "Close", "Rst"}, id : StreamId]

MxTypeOK ==
    /\ mxStream \in [End -> [StreamId -> StreamRecord \cup {Nobody}]]
    /\ mxWire \in [End -> Seq(MxFrame)]

(* A frame of a kind, or an Open with a name, is on its way for a stream. *)
Has(w, kind, i) == \E k \in 1..Len(w) : w[k].kind = kind /\ w[k].id = i
OpenFor(w, i, name) ==
    \E k \in 1..Len(w) : w[k].kind = "Open" /\ w[k].id = i /\ w[k].name = name

(* An Open is the first frame of its stream, no Data follows a Close. *)
MayFollow(first, second) ==
    second # "Open" /\ (first = "Close" => second \notin {"Data", "Close"})
FramesOrdered(w) ==
    \A k \in 1..Len(w) : \A l \in 1..Len(w) :
        k < l /\ w[k].id = w[l].id => MayFollow(w[k].kind, w[l].kind)

(* Bytes on their way for a stream, the credit used on it, and the bytes     *)
(* counted for it.                                                           *)
Share(f, i) == IF f.kind = "Data" /\ f.id = i THEN f.len ELSE 0
Flight(w, i) == SumSeq([k \in 1..Len(w) |-> Share(w[k], i)])
Used(s) == IF s.state = "none" THEN 0 ELSE s.granted - s.credit
Counted(s) == IF s.state = "none" THEN 0 ELSE s.buffered

DoneSending == {"HalfClosedLocal", "Closed", "Reset"}

(* One stream: r is what the receiver of the frames w knows of it, s what    *)
(* their sender does; mine and theirs say which of them opens it.            *)
Opening(w, i, r, s, mine, theirs) ==
    /\ \A kind : Has(w, kind, i) => s.state # "none"
    /\ \A name : OpenFor(w, i, name) => theirs /\ r.state = "none" /\ name = s.name
    /\ r.state # "none" => s.state # "none" \/ mine
    /\ r.state # "none" /\ s.state # "none" => r.name = s.name

Reached(w, i, r) == r.state # "none" \/ Has(w, "Open", i)

Closing(w, i, r, s) ==
    /\ r.state \in {"HalfClosedRemote", "Closed"} =>
           s.state \in DoneSending /\ ~ Has(w, "Data", i) /\ ~ Has(w, "Close", i)
    /\ Has(w, "Close", i) => s.state \in DoneSending
    /\ Has(w, "Rst", i) => s.state = "Reset"
    /\ Reached(w, i, r) /\ s.state \in {"HalfClosedLocal", "Closed"}
         /\ r.state \notin {"HalfClosedRemote", "Closed", "Reset"} => Has(w, "Close", i)
    /\ Reached(w, i, r) /\ s.state = "Reset" /\ r.state \notin {"Closed", "Reset"}
         => Has(w, "Rst", i)

Counting(w, i, r, s) ==
    /\ r.state # "none" => r.credit <= r.granted
    /\ Flight(w, i) + Counted(r) <= Used(r) + Used(s)

PairOK(w, i, r, s, mine, theirs) ==
    Opening(w, i, r, s, mine, theirs) /\ Closing(w, i, r, s) /\ Counting(w, i, r, s)

MxPairs ==
    \A e \in End : \A i \in StreamId :
        PairOK(mxWire[e], i, mxStream[e][i], mxStream[Peer(e)][i],
               i \in Opens[e], i \in Opens[Peer(e)])

MxOrdered == \A e \in End : FramesOrdered(mxWire[e])

MxInv == MxTypeOK /\ MxOrdered /\ MxPairs

\* The two ends.
LEMMA PeerFacts ==
    ASSUME NEW e \in End
    PROVE  Peer(e) \in End /\ Peer(e) # e /\ Peer(Peer(e)) = e /\ \A d \in End : d = e \/ d = Peer(e)
BY DEF Peer, End

\* The fields of a frame.
LEMMA FrameFields ==
    ASSUME NEW f \in MxFrame
    PROVE  /\ f.id \in StreamId
           /\ f.kind \in {"Open", "Data", "WindowUpdate", "OpenAck", "Close", "Rst"}
           /\ f.kind = "WindowUpdate" => f.delta \in Int
           /\ f.kind = "Data" => f.len \in Nat
           /\ f.kind = "Open" => f.name \in StreamName
           /\ \A i : Share(f, i) \in Nat
<1>1. CASE f \in [kind : {"Open"}, id : StreamId, name : StreamName] BY <1>1 DEF Share
<1>2. CASE f \in [kind : {"Data"}, id : StreamId, len : Nat] BY <1>2 DEF Share
<1>3. CASE f \in [kind : {"OpenAck", "Close", "Rst"}, id : StreamId] BY <1>3 DEF Share
<1>4. CASE f \in [kind : {"WindowUpdate"}, id : StreamId, delta : Int] BY <1>4 DEF Share
<1>5. QED BY <1>1, <1>2, <1>3, <1>4 DEF MxFrame

\* Sequences with the same elements are the same.
LEMMA SameNumbers ==
    ASSUME NEW s \in Seq(Nat), NEW t \in Seq(Nat), Len(s) = Len(t),
           \A i \in 1..Len(s) : s[i] = t[i]
    PROVE  s = t
OBVIOUS

\* The bytes on their way are counted by a natural.
LEMMA FlightType ==
    ASSUME NEW w \in Seq(MxFrame), NEW i
    PROVE  /\ [k \in 1..Len(w) |-> Share(w[k], i)] \in Seq(Nat)
           /\ Flight(w, i) \in Nat
<1>1. \A k \in 1..Len(w) : w[k] \in MxFrame OBVIOUS
<1>2. \A k \in 1..Len(w) : Share(w[k], i) \in Nat BY <1>1, FrameFields
<1>3. [k \in 1..Len(w) |-> Share(w[k], i)] \in Seq(Nat) BY <1>2
<1>4. QED BY <1>3, SumSeqType DEF Flight

\* What an appended frame adds to a wire.
LEMMA WireAppend ==
    ASSUME NEW w \in Seq(MxFrame), NEW f \in MxFrame
    PROVE  /\ Append(w, f) \in Seq(MxFrame)
           /\ \A kind, i : Has(Append(w, f), kind, i) <=> Has(w, kind, i) \/ (f.kind = kind /\ f.id = i)
           /\ \A i, name : OpenFor(Append(w, f), i, name)
                  <=> OpenFor(w, i, name) \/ (f.kind = "Open" /\ f.id = i /\ f.name = name)
           /\ \A i : Flight(Append(w, f), i) = Flight(w, i) + Share(f, i)
<1> DEFINE v == Append(w, f)
           n == Len(w)
<1>1. /\ v \in Seq(MxFrame) /\ n \in Nat /\ Len(v) = n + 1 /\ v[n + 1] = f
      /\ \A k \in 1..n : v[k] = w[k]
  OBVIOUS
<1>2. \A k \in 1..(n + 1) : k \in 1..n \/ k = n + 1 BY <1>1
<1>3. \A k \in 1..n : k \in 1..(n + 1) BY <1>1
<1>4. n + 1 \in 1..(n + 1) BY <1>1
<1>5. ASSUME NEW i PROVE Flight(v, i) = Flight(w, i) + Share(f, i)
  <2> DEFINE a == [k \in 1..Len(w) |-> Share(w[k], i)]
             b == [k \in 1..Len(v) |-> Share(v[k], i)]
  <2>1. a \in Seq(Nat) /\ b \in Seq(Nat) /\ Share(f, i) \in Nat BY <1>1, FlightType, FrameFields
  <2>2. Len(a) = n /\ Len(b) = n + 1 BY <1>1
  <2>3. \A k \in 1..n : b[k] = a[k] BY <1>1, <1>3
  <2>4. b[n + 1] = Share(f, i) BY <1>1, <1>4
  <2>5. b = Append(a, Share(f, i))
    <3> HIDE DEF a, b, v, n
    <3> QED BY <1>1, <2>1, <2>2, <2>3, <2>4
  <2>6. SumSeq(b) = SumSeq(a) + Share(f, i)
    <3> HIDE DEF a, b
    <3> QED BY <2>1, <2>5, SumSeqAppend
  <2>7. QED BY <2>6 DEF Flight
<1> HIDE DEF v, n
<1>6. ASSUME NEW kind, NEW i PROVE Has(v, kind, i) <=> Has(w, kind, i) \/ (f.kind = kind /\ f.id = i)
  BY <1>1, <1>2, <1>3, <1>4 DEF Has, n
<1>7. ASSUME NEW i, NEW name
      PROVE OpenFor(v, i, name)
              <=> OpenFor(w, i, name) \/ (f.kind = "Open" /\ f.id = i /\ f.name = name)
  BY <1>1, <1>2, <1>3, <1>4 DEF OpenFor, n
<1>8. QED BY <1>1, <1>5, <1>6, <1>7 DEF v

\* An appended frame keeps the order if it may follow those of its stream.
LEMMA OrderAppend ==
    ASSUME NEW w \in Seq(MxFrame), NEW f \in MxFrame, FramesOrdered(w),
           \A kind : Has(w, kind, f.id) => MayFollow(kind, f.kind)
    PROVE  FramesOrdered(Append(w, f))
<1> DEFINE v == Append(w, f)
           n == Len(w)
<1>1. /\ v \in Seq(MxFrame) /\ n \in Nat /\ Len(v) = n + 1 /\ v[n + 1] = f
      /\ \A k \in 1..n : v[k] = w[k]
  OBVIOUS
<1> HIDE DEF v
<1>2. ASSUME NEW k \in 1..Len(v), NEW l \in 1..Len(v), k < l, v[k].id = v[l].id
      PROVE  MayFollow(v[k].kind, v[l].kind)
  <2>1. k \in 1..n /\ v[k] = w[k] BY <1>1, <1>2
  <2>2. CASE l \in 1..n BY <1>1, <1>2, <2>1, <2>2 DEF FramesOrdered
  <2>3. CASE l = n + 1
    <3>1. Has(w, w[k].kind, f.id) BY <1>1, <1>2, <2>1, <2>3 DEF Has
    <3>2. QED BY <1>1, <2>1, <2>3, <3>1
  <2>4. QED BY <1>1, <2>2, <2>3
<1>3. FramesOrdered(v) BY <1>2 DEF FramesOrdered
<1>4. QED BY <1>3 DEF v

\* What a wire loses with its first frame.
LEMMA WireTail ==
    ASSUME NEW w \in Seq(MxFrame), w # <<>>
    PROVE  /\ Tail(w) \in Seq(MxFrame) /\ Head(w) \in MxFrame
           /\ \A kind, i : Has(w, kind, i)
                  <=> Has(Tail(w), kind, i) \/ (Head(w).kind = kind /\ Head(w).id = i)
           /\ \A i, name : OpenFor(w, i, name)
                  <=> OpenFor(Tail(w), i, name)
                      \/ (Head(w).kind = "Open" /\ Head(w).id = i /\ Head(w).name = name)
           /\ \A i : Flight(w, i) = Flight(Tail(w), i) + Share(Head(w), i)
<1> DEFINE v == Tail(w)
           n == Len(w)
<1>1. /\ v \in Seq(MxFrame) /\ n \in Nat /\ n >= 1 /\ Len(v) = n - 1 /\ Head(w) = w[1]
      /\ w[1] \in MxFrame /\ \A k \in 1..(n - 1) : v[k] = w[k + 1]
  OBVIOUS
<1>2. \A k \in 1..n : k = 1 \/ (k - 1 \in 1..(n - 1) /\ (k - 1) + 1 = k) BY <1>1
<1>3. \A k \in 1..(n - 1) : k + 1 \in 1..n BY <1>1
<1>4. 1 \in 1..n BY <1>1
<1>5. ASSUME NEW i PROVE Flight(w, i) = Flight(v, i) + Share(w[1], i)
  <2> DEFINE a == [k \in 1..Len(w) |-> Share(w[k], i)]
             b == [k \in 1..Len(v) |-> Share(v[k], i)]
  <2>1. a \in Seq(Nat) /\ b \in Seq(Nat) /\ Share(w[1], i) \in Nat BY <1>1, FlightType, FrameFields
  <2>2. Len(a) = n /\ Len(b) = n - 1 BY <1>1
  <2>3. \A k \in 1..(n - 1) : b[k] = a[k + 1] BY <1>1, <1>3
  <2>4. a[1] = Share(w[1], i) BY <1>1, <1>4
  <2>5. b = Tail(a) /\ a # <<>> /\ Head(a) = Share(w[1], i)
    <3> HIDE DEF a, b, v, n
    <3>1. a # <<>> /\ Head(a) = Share(w[1], i) BY <1>1, <2>1, <2>2, <2>4
    <3>2. /\ Tail(a) \in Seq(Nat) /\ Len(Tail(a)) = n - 1
          /\ \A k \in 1..(n - 1) : Tail(a)[k] = a[k + 1]
      BY <1>1, <2>1, <2>2, <3>1
    <3>3. b = Tail(a)
      <4>1. PICK c \in Seq(Nat) : c = Tail(a) BY <3>2
      <4>2. Len(b) = Len(c) /\ \A k \in 1..Len(b) : b[k] = c[k] BY <2>2, <2>3, <3>2, <4>1
      <4>3. b = c BY <2>1, <4>2, SameNumbers
      <4>4. QED BY <4>1, <4>3
    <3>4. QED BY <3>1, <3>3
  <2>6. SumSeq(a) = Share(w[1], i) + SumSeq(b) /\ SumSeq(b) \in Nat
    <3> HIDE DEF a, b
    <3> QED BY <2>1, <2>5, SumSeqTail, SumSeqType
  <2>7. Flight(w, i) = SumSeq(a) /\ Flight(v, i) = SumSeq(b) BY DEF Flight
  <2>8. QED
    <3> HIDE DEF a, b
    <3> QED BY <2>1, <2>6, <2>7
<1>9. Len(w) = n BY DEF n
<1> HIDE DEF v, n
<1>6. ASSUME NEW kind, NEW i PROVE Has(w, kind, i) <=> Has(v, kind, i) \/ (w[1].kind = kind /\ w[1].id = i)
  <2>1. ASSUME Has(w, kind, i) PROVE Has(v, kind, i) \/ (w[1].kind = kind /\ w[1].id = i)
    <3>1. PICK k \in 1..n : w[k].kind = kind /\ w[k].id = i BY <1>9, <2>1 DEF Has
    <3>2. CASE k # 1
      <4>1. k - 1 \in 1..(n - 1) /\ v[k - 1] = w[k] BY <1>1, <1>2, <3>2
      <4>2. QED BY <1>1, <3>1, <4>1 DEF Has
    <3>3. QED BY <3>1, <3>2
  <2>2. ASSUME Has(v, kind, i) PROVE Has(w, kind, i)
    <3>1. PICK k \in 1..(n - 1) : v[k].kind = kind /\ v[k].id = i BY <1>1, <2>2 DEF Has
    <3>2. QED BY <1>1, <1>3, <1>9, <3>1 DEF Has
  <2>3. QED BY <1>4, <1>9, <2>1, <2>2 DEF Has
<1>7. ASSUME NEW i, NEW name
      PROVE OpenFor(w, i, name)
              <=> OpenFor(v, i, name) \/ (w[1].kind = "Open" /\ w[1].id = i /\ w[1].name = name)
  <2>1. ASSUME OpenFor(w, i, name)
        PROVE  OpenFor(v, i, name) \/ (w[1].kind = "Open" /\ w[1].id = i /\ w[1].name = name)
    <3>1. PICK k \in 1..n : w[k].kind = "Open" /\ w[k].id = i /\ w[k].name = name
      BY <1>9, <2>1 DEF OpenFor
    <3>2. CASE k # 1
      <4>1. k - 1 \in 1..(n - 1) /\ v[k - 1] = w[k] BY <1>1, <1>2, <3>2
      <4>2. QED BY <1>1, <3>1, <4>1 DEF OpenFor
    <3>3. QED BY <3>1, <3>2
  <2>2. ASSUME OpenFor(v, i, name) PROVE OpenFor(w, i, name)
    <3>1. PICK k \in 1..(n - 1) : v[k].kind = "Open" /\ v[k].id = i /\ v[k].name = name
      BY <1>1, <2>2 DEF OpenFor
    <3>2. QED BY <1>1, <1>3, <1>9, <3>1 DEF OpenFor
  <2>3. QED BY <1>4, <1>9, <2>1, <2>2 DEF OpenFor
<1>8. QED BY <1>1, <1>5, <1>6, <1>7 DEF v

\* The rest of an ordered wire is ordered, and follows its first frame.
LEMMA OrderTail ==
    ASSUME NEW w \in Seq(MxFrame), w # <<>>, FramesOrdered(w)
    PROVE  /\ FramesOrdered(Tail(w))
           /\ \A kind : Has(Tail(w), kind, Head(w).id) => MayFollow(Head(w).kind, kind)
<1> DEFINE v == Tail(w)
           n == Len(w)
<1>1. /\ v \in Seq(MxFrame) /\ n \in Nat /\ n >= 1 /\ Len(v) = n - 1 /\ Head(w) = w[1]
      /\ \A k \in 1..(n - 1) : v[k] = w[k + 1]
  OBVIOUS
<1> HIDE DEF v
<1>2. FramesOrdered(v)
  <2>1. ASSUME NEW k \in 1..Len(v), NEW l \in 1..Len(v), k < l, v[k].id = v[l].id
        PROVE  MayFollow(v[k].kind, v[l].kind)
    <3>1. k + 1 \in 1..Len(w) /\ l + 1 \in 1..Len(w) /\ k + 1 < l + 1
          /\ v[k] = w[k + 1] /\ v[l] = w[l + 1]
      BY <1>1, <2>1
    <3>2. QED BY <2>1, <3>1 DEF FramesOrdered
  <2>2. QED BY <2>1 DEF FramesOrdered
<1>3. ASSUME NEW kind, Has(v, kind, w[1].id) PROVE MayFollow(w[1].kind, kind)
  <2>1. PICK k \in 1..Len(v) : v[k].kind = kind /\ v[k].id = w[1].id BY <1>3 DEF Has
  <2>2. k + 1 \in 1..Len(w) /\ 1 \in 1..Len(w) /\ 1 < k + 1 /\ v[k] = w[k + 1] BY <1>1
  <2>3. QED BY <2>1, <2>2 DEF FramesOrdered
<1>4. QED BY <1>1, <1>2, <1>3 DEF v

\* The fields of a stream, and how one that is not known shows.
LEMMA StreamFields ==
    ASSUME NEW r \in StreamRecord \cup {Nobody}
    PROVE  /\ r = Nobody <=> r.state = "none"
           /\ r.state # "none" => r \in StreamRecord
           /\ r \in StreamRecord => /\ r.state \in Live /\ r.credit \in Nat /\ r.buffered \in Nat
                                    /\ r.granted \in Nat /\ r.name \in StreamName /\ r.acked \in BOOLEAN
<1>1. CASE r \in StreamRecord BY <1>1 DEF StreamRecord, Live, Nobody
<1>2. CASE r = Nobody BY <1>2 DEF StreamRecord, Live, Nobody
<1>3. QED BY <1>1, <1>2

\* A new stream is open, and nothing was sent or received on it.
LEMMA NewStream ==
    ASSUME NEW name \in StreamName, NEW credit \in Nat
    PROVE  /\ Stream(name, credit) \in StreamRecord /\ Stream(name, credit).state = "Open"
           /\ Stream(name, credit).credit = credit /\ Stream(name, credit).granted = credit
           /\ Stream(name, credit).buffered = 0 /\ Stream(name, credit).name = name
BY DEF Stream, StreamRecord, Live

\* The appended frame is of another stream.
LEMMA PairAppendOther ==
    ASSUME NEW w \in Seq(MxFrame), NEW f \in MxFrame, NEW i, f.id # i,
           NEW r, NEW s, NEW mine, NEW theirs, PairOK(w, i, r, s, mine, theirs)
    PROVE  PairOK(Append(w, f), i, r, s, mine, theirs)
<1>1. Share(f, i) = 0 /\ Flight(w, i) \in Nat BY FlightType DEF Share
<1>2. Flight(Append(w, f), i) = Flight(w, i) BY <1>1, WireAppend
<1>3. \A kind : Has(Append(w, f), kind, i) <=> Has(w, kind, i) BY WireAppend
<1>4. \A name : OpenFor(Append(w, f), i, name) <=> OpenFor(w, i, name) BY WireAppend
<1>5. QED BY <1>2, <1>3, <1>4 DEF PairOK, Opening, Closing, Counting, Reached

\* The first frame is of another stream.
LEMMA PairTailOther ==
    ASSUME NEW w \in Seq(MxFrame), w # <<>>, NEW i, Head(w).id # i,
           NEW r, NEW s, NEW mine, NEW theirs, PairOK(w, i, r, s, mine, theirs)
    PROVE  PairOK(Tail(w), i, r, s, mine, theirs)
<1>1. Share(Head(w), i) = 0 /\ Flight(Tail(w), i) \in Nat BY WireTail, FlightType DEF Share
<1>2. Flight(Tail(w), i) = Flight(w, i) BY <1>1, WireTail
<1>3. \A kind : Has(Tail(w), kind, i) <=> Has(w, kind, i) BY WireTail
<1>4. \A name : OpenFor(Tail(w), i, name) <=> OpenFor(w, i, name) BY WireTail
<1>5. QED BY <1>2, <1>3, <1>4 DEF PairOK, Opening, Closing, Counting, Reached

(* Both directions of a stream: r and s of its two ends, the frames to r on  *)
(* w, those to s on v.                                                       *)
BothOK(i, w, r, v, s, mine, theirs) ==
    PairOK(w, i, r, s, mine, theirs) /\ PairOK(v, i, s, r, theirs, mine)

\* The end s opens the stream.
LEMMA OpenKeepsPair ==
    ASSUME NEW w \in Seq(MxFrame), NEW v \in Seq(MxFrame), NEW i \in StreamId,
           NEW r \in StreamRecord \cup {Nobody}, NEW mine \in BOOLEAN, NEW theirs \in BOOLEAN,
           BothOK(i, w, r, v, Nobody, mine, theirs), theirs, ~ mine,
           NEW name \in StreamName, NEW credit \in Nat, NEW f \in MxFrame,
           f = [kind |-> "Open", id |-> i, name |-> name]
    PROVE  /\ BothOK(i, Append(w, f), r, v, Stream(name, credit), mine, theirs)
           /\ \A kind : ~ Has(w, kind, i)
<1> DEFINE s == Stream(name, credit)
<1>1. /\ s \in StreamRecord /\ s.state = "Open" /\ s.name = name
      /\ s.credit = credit /\ s.granted = credit /\ s.buffered = 0
  BY NewStream
<1>2. Nobody.state = "none" BY DEF Nobody
<1>3. r.state = "none" /\ \A kind : ~ Has(w, kind, i) /\ ~ Has(v, kind, i)
  BY <1>2, StreamFields DEF BothOK, PairOK, Opening
<1>4. \A kind : Has(Append(w, f), kind, i) <=> kind = "Open" BY <1>3, WireAppend
<1>5. \A n : ~ OpenFor(w, i, n) /\ ~ OpenFor(v, i, n)
  <2>1. \A n : (OpenFor(w, i, n) => Has(w, "Open", i)) /\ (OpenFor(v, i, n) => Has(v, "Open", i))
    BY DEF OpenFor, Has
  <2>2. QED BY <1>3, <2>1
<1>6. \A n : OpenFor(Append(w, f), i, n) => n = name BY <1>5, WireAppend
<1>7. Flight(Append(w, f), i) = Flight(w, i)
  BY WireAppend, FlightType DEF Share
<1>8. Used(r) = 0 /\ Used(s) = 0 /\ Used(Nobody) = 0 /\ Counted(s) = 0 /\ Counted(Nobody) = 0
  BY <1>1, <1>2, <1>3 DEF Used, Counted
<1> HIDE DEF s
<1>9. Opening(Append(w, f), i, r, s, mine, theirs)
  BY <1>1, <1>3, <1>4, <1>6 DEF Opening
<1>10. Opening(v, i, s, r, theirs, mine) BY <1>1, <1>3, <1>5 DEF Opening
<1>11. Closing(Append(w, f), i, r, s) /\ Closing(v, i, s, r)
  BY <1>1, <1>3, <1>4 DEF Closing, DoneSending
<1>12. Counting(Append(w, f), i, r, s) /\ Counting(v, i, s, r)
  BY <1>1, <1>2, <1>3, <1>7, <1>8 DEF BothOK, PairOK, Counting
<1>13. QED BY <1>3, <1>9, <1>10, <1>11, <1>12 DEF BothOK, PairOK, s

\* The end s sends data.
LEMMA DataKeepsPair ==
    ASSUME NEW w \in Seq(MxFrame), NEW v \in Seq(MxFrame), NEW i \in StreamId,
           NEW r \in StreamRecord \cup {Nobody}, NEW s \in StreamRecord,
           NEW mine \in BOOLEAN, NEW theirs \in BOOLEAN,
           BothOK(i, w, r, v, s, mine, theirs),
           s.state \in {"Open", "HalfClosedRemote"}, NEW n \in Nat, n <= s.credit,
           NEW f \in MxFrame, f = [kind |-> "Data", id |-> i, len |-> n]
    PROVE  /\ BothOK(i, Append(w, f), r, v, Spent(s, n), mine, theirs)
           /\ Spent(s, n) \in StreamRecord /\ ~ Has(w, "Close", i)
<1> DEFINE t == Spent(s, n)
<1>1. /\ s.state \in Live /\ s.credit \in Nat /\ s.buffered \in Nat /\ s.credit - n \in Nat
      /\ s.buffered + n \in Nat /\ s.granted \in Nat
  BY DEF StreamRecord
<1>2. /\ t \in StreamRecord /\ t.state = s.state /\ t.name = s.name
      /\ t.credit = s.credit - n /\ t.granted = s.granted /\ t.buffered = s.buffered + n
  BY <1>1 DEF Spent, StreamRecord
<1> HIDE DEF t
<1>3. \A kind : Has(Append(w, f), kind, i) <=> Has(w, kind, i) \/ kind = "Data" BY WireAppend
<1>4. \A a : OpenFor(Append(w, f), i, a) <=> OpenFor(w, i, a) BY WireAppend
<1>5. /\ Flight(Append(w, f), i) = Flight(w, i) + n
      /\ Flight(w, i) \in Nat /\ Flight(v, i) \in Nat
  BY WireAppend, FlightType DEF Share
<1>6. s.state # "none" /\ t.state # "none" BY <1>1, <1>2 DEF Live
<1>7. /\ Used(t) = Used(s) + n /\ Counted(t) = Counted(s) + n /\ Used(s) \in Int
      /\ Counted(s) \in Int
  <2>1. Used(t) = t.granted - t.credit /\ Used(s) = s.granted - s.credit
        /\ Counted(t) = t.buffered /\ Counted(s) = s.buffered
    BY <1>6 DEF Used, Counted
  <2>2. QED BY <1>1, <1>2, <2>1
<1>8. Used(r) \in Int /\ Counted(r) \in Int
  <2>1. CASE r.state = "none" BY <2>1 DEF Used, Counted
  <2>2. CASE r.state # "none" BY <2>2, StreamFields DEF Used, Counted
  <2>3. QED BY <2>1, <2>2
<1>9. Opening(Append(w, f), i, r, t, mine, theirs) /\ Opening(v, i, t, r, theirs, mine)
  BY <1>2, <1>3, <1>4, <1>6 DEF BothOK, PairOK, Opening
<1>10. ~ Has(w, "Close", i) /\ r.state \notin {"HalfClosedRemote", "Closed"}
  BY DEF BothOK, PairOK, Closing, DoneSending
<1>11. Closing(Append(w, f), i, r, t) /\ Closing(v, i, t, r)
  BY <1>2, <1>3, <1>10 DEF BothOK, PairOK, Closing, DoneSending, Reached
<1>12. Counting(Append(w, f), i, r, t)
  BY <1>1, <1>2, <1>5, <1>7, <1>8 DEF BothOK, PairOK, Counting
<1>13. Counting(v, i, t, r)
  <2>1. s.credit <= s.granted /\ Flight(v, i) + Counted(s) <= Used(s) + Used(r)
    BY <1>6 DEF BothOK, PairOK, Counting
  <2>3. t.credit <= t.granted BY <1>1, <1>2, <2>1
  <2>4. Flight(v, i) + Counted(t) <= Used(t) + Used(r) BY <1>5, <1>7, <1>8, <2>1
  <2>5. QED BY <2>3, <2>4 DEF Counting
<1>14. QED BY <1>2, <1>9, <1>10, <1>11, <1>12, <1>13 DEF BothOK, PairOK, t

\* The numbers of a stream.
LEMMA UsedType ==
    ASSUME NEW r \in StreamRecord \cup {Nobody}
    PROVE  Used(r) \in Int /\ Counted(r) \in Nat
<1>1. CASE r.state = "none" BY <1>1 DEF Used, Counted
<1>2. CASE r.state # "none" BY <1>2, StreamFields DEF Used, Counted
<1>3. QED BY <1>1, <1>2

(* A stream after a transition. *)
Moved(s, t) ==
    /\ t \in StreamRecord /\ t.name = s.name /\ t.credit = s.credit /\ t.granted = s.granted
    /\ t.buffered = s.buffered

\* A transition leaves the counts alone.
LEMMA MovedCounts ==
    ASSUME NEW s \in StreamRecord, NEW t, Moved(s, t)
    PROVE  Used(t) = Used(s) /\ Counted(t) = Counted(s) /\ s.state # "none" /\ t.state # "none"
<1>1. s.state # "none" /\ t.state # "none" BY DEF Moved, StreamRecord, Live
<1>2. QED BY <1>1 DEF Moved, Used, Counted

(* s becomes t by a close or a reset, of which f tells the peer. *)
Ended(s, t, f, event) ==
    /\ Moved(s, t) /\ event \in {"SendClose", "Reset"}
    /\ t.state = Transition(s.state, event) /\ t.state # "rejected"
    /\ f.kind = (IF event = "Reset" THEN "Rst" ELSE "Close")

\* The end s closes or resets the stream.
LEMMA EndKeepsPair ==
    ASSUME NEW w \in Seq(MxFrame), NEW v \in Seq(MxFrame), NEW i \in StreamId,
           NEW r \in StreamRecord \cup {Nobody}, NEW s \in StreamRecord,
           NEW mine \in BOOLEAN, NEW theirs \in BOOLEAN,
           BothOK(i, w, r, v, s, mine, theirs),
           NEW t \in StreamRecord, NEW f \in MxFrame, f.id = i, NEW event, Ended(s, t, f, event)
    PROVE  /\ BothOK(i, Append(w, f), r, v, t, mine, theirs)
           /\ \A kind : Has(w, kind, i) => MayFollow(kind, f.kind)
<1>1. /\ s.state \in Live /\ t.state \in Live /\ s.state # "none" /\ t.state # "none"
      /\ Used(t) = Used(s) /\ Counted(t) = Counted(s)
  BY MovedCounts DEF Ended, Moved, StreamRecord
<1>2. f.id = i /\ f.kind = (IF event = "Reset" THEN "Rst" ELSE "Close") /\ event \in {"SendClose", "Reset"} BY DEF Ended
<1>3. \A kind : Has(Append(w, f), kind, i) <=> Has(w, kind, i) \/ kind = f.kind BY <1>2, WireAppend
<1>4. \A a : OpenFor(Append(w, f), i, a) <=> OpenFor(w, i, a) BY <1>2, WireAppend
<1>5. Flight(Append(w, f), i) = Flight(w, i)
  <2>1. Share(f, i) = 0 BY <1>2 DEF Share
  <2>2. QED BY <2>1, WireAppend, FlightType
<1>6. Opening(Append(w, f), i, r, t, mine, theirs) /\ Opening(v, i, t, r, theirs, mine)
  BY <1>1, <1>3, <1>4 DEF BothOK, PairOK, Opening, Moved, Ended
<1>7. Counting(Append(w, f), i, r, t) /\ Counting(v, i, t, r)
  BY <1>1, <1>5 DEF BothOK, PairOK, Counting, Moved, Ended
<1>8. CASE event = "SendClose"
  <2>1. \/ s.state = "Open" /\ t.state = "HalfClosedLocal"
        \/ s.state = "HalfClosedRemote" /\ t.state = "Closed"
    BY <1>1, <1>8 DEF Transition, Ended
  <2>2. f.kind = "Close" BY <1>2, <1>8
  <2>3. r.state \notin {"HalfClosedRemote", "Closed"} /\ ~ Has(w, "Close", i)
    BY <2>1 DEF BothOK, PairOK, Closing, DoneSending
  <2>4. Closing(Append(w, f), i, r, t)
    BY <1>3, <2>1, <2>2, <2>3 DEF BothOK, PairOK, Closing, DoneSending, Reached
  <2>5. Closing(v, i, t, r)
    BY <2>1 DEF BothOK, PairOK, Closing, DoneSending, Reached
  <2>6. \A kind : Has(w, kind, i) => MayFollow(kind, f.kind)
    BY <2>2, <2>3 DEF MayFollow
  <2>7. QED BY <1>6, <1>7, <2>4, <2>5, <2>6 DEF BothOK, PairOK
<1>9. CASE event = "Reset"
  <2>1. s.state # "Closed" /\ t.state = "Reset" BY <1>1, <1>9 DEF Transition, Ended
  <2>2. f.kind = "Rst" BY <1>2, <1>9
  <2>3. Closing(Append(w, f), i, r, t)
    BY <1>3, <2>1, <2>2 DEF BothOK, PairOK, Closing, DoneSending, Reached
  <2>4. Closing(v, i, t, r)
    BY <1>1, <2>1 DEF BothOK, PairOK, Closing, DoneSending, Reached
  <2>5. \A kind : Has(w, kind, i) => MayFollow(kind, f.kind) BY <2>2 DEF MayFollow
  <2>6. QED BY <1>6, <1>7, <2>3, <2>4, <2>5 DEF BothOK, PairOK
<1>10. QED BY <1>2, <1>8, <1>9

\* The end r accepts an Open.
LEMMA AcceptKeepsPair ==
    ASSUME NEW w \in Seq(MxFrame), NEW v \in Seq(MxFrame), NEW i \in StreamId, w # <<>>,
           NEW s \in StreamRecord \cup {Nobody}, NEW mine \in BOOLEAN, NEW theirs \in BOOLEAN,
           BothOK(i, w, Nobody, v, s, mine, theirs), FramesOrdered(w),
           Head(w).kind = "Open", Head(w).id = i,
           NEW g \in MxFrame, g = [kind |-> "OpenAck", id |-> i]
    PROVE  /\ BothOK(i, Tail(w), Stream(Head(w).name, InitialCredit), Append(v, g), s, mine, theirs)
           /\ \A kind : ~ Has(v, kind, i)
<1> DEFINE name == Head(w).name
           r == Stream(name, InitialCredit)
<1>1. Head(w) \in MxFrame /\ name \in StreamName /\ InitialCredit \in Nat
  BY WireTail, FrameFields, MuxAssumption
<1>2. /\ r \in StreamRecord /\ r.state = "Open" /\ r.name = name
      /\ r.credit = InitialCredit /\ r.granted = InitialCredit /\ r.buffered = 0
  BY <1>1, NewStream
<1>3. Nobody.state = "none" BY DEF Nobody
<1>4. OpenFor(w, i, name) /\ Has(w, "Open", i) BY WireTail
<1>5. theirs /\ s.name = name /\ s.state # "none" BY <1>4 DEF BothOK, PairOK, Opening
<1>6. \A kind : ~ Has(v, kind, i) BY <1>3 DEF BothOK, PairOK, Opening
<1>7. \A n : ~ OpenFor(v, i, n)
  <2>1. \A n : OpenFor(v, i, n) => Has(v, "Open", i) BY DEF OpenFor, Has
  <2>2. QED BY <1>6, <2>1
<1>8. \A kind : Has(Append(v, g), kind, i) <=> kind = "OpenAck" BY <1>6, WireAppend
<1>9. \A n : ~ OpenFor(Append(v, g), i, n) BY <1>7, WireAppend
<1>10. ~ Has(Tail(w), "Open", i) BY OrderTail DEF MayFollow
<1>11. \A n : ~ OpenFor(Tail(w), i, n)
  <2>1. \A n : OpenFor(Tail(w), i, n) => Has(Tail(w), "Open", i) BY DEF OpenFor, Has
  <2>2. QED BY <1>10, <2>1
<1>12. \A kind : kind # "Open" => (Has(Tail(w), kind, i) <=> Has(w, kind, i)) BY WireTail
<1>13. Flight(Append(v, g), i) = Flight(v, i) /\ Flight(Tail(w), i) = Flight(w, i)
  <2>1. Share(g, i) = 0 /\ Share(Head(w), i) = 0 BY DEF Share
  <2>2. Tail(w) \in Seq(MxFrame) BY WireTail
  <2>3. Flight(v, i) \in Nat /\ Flight(Tail(w), i) \in Nat BY <2>2, FlightType
  <2>4. QED BY <2>1, <2>3, WireAppend, WireTail
<1>14. Used(r) = 0 /\ Counted(r) = 0 /\ Used(Nobody) = 0 /\ Counted(Nobody) = 0
  BY <1>1, <1>2, <1>3 DEF Used, Counted
<1> HIDE DEF r, name
<1>15. Opening(Tail(w), i, r, s, mine, theirs)
  BY <1>2, <1>5, <1>11 DEF Opening
<1>16. Opening(Append(v, g), i, s, r, theirs, mine)
  BY <1>2, <1>5, <1>9 DEF Opening
<1>17. Closing(Tail(w), i, r, s)
  BY <1>2, <1>3, <1>4, <1>12 DEF BothOK, PairOK, Closing, Reached, DoneSending
<1>18. Closing(Append(v, g), i, s, r)
  <2>1. s.state \notin {"HalfClosedRemote", "Closed"}
    BY <1>3 DEF BothOK, PairOK, Closing, DoneSending
  <2>2. QED BY <1>2, <1>8, <2>1 DEF Closing, DoneSending
<1>19. Counting(Tail(w), i, r, s) /\ Counting(Append(v, g), i, s, r)
  BY <1>1, <1>2, <1>13, <1>14 DEF BothOK, PairOK, Counting
<1>20. QED BY <1>6, <1>15, <1>16, <1>17, <1>18, <1>19 DEF BothOK, PairOK, r, name

\* The end r does not know the stream, and drops the frame.
LEMMA DropKeepsPair ==
    ASSUME NEW w \in Seq(MxFrame), NEW v \in Seq(MxFrame), NEW i \in StreamId, w # <<>>,
           NEW r \in StreamRecord \cup {Nobody}, NEW s \in StreamRecord \cup {Nobody},
           NEW mine \in BOOLEAN, NEW theirs \in BOOLEAN,
           BothOK(i, w, r, v, s, mine, theirs), FramesOrdered(w),
           r = Nobody \/ Head(w).kind = "Open", Head(w).id = i
    PROVE  BothOK(i, Tail(w), r, v, s, mine, theirs)
<1>1. Head(w) \in MxFrame /\ Tail(w) \in Seq(MxFrame) BY WireTail
<1>2. r.state = "none"
  <2>1. CASE r = Nobody BY <2>1 DEF Nobody
  <2>2. CASE Head(w).kind = "Open"
    <3>1. OpenFor(w, i, Head(w).name) BY <2>2, WireTail
    <3>2. QED BY <3>1 DEF BothOK, PairOK, Opening
  <2>3. QED BY <2>1, <2>2
<1>3. \A kind : Has(Tail(w), kind, i) => Has(w, kind, i) BY WireTail
<1>4. \A n : OpenFor(Tail(w), i, n) => OpenFor(w, i, n) BY WireTail
<1>5. Opening(Tail(w), i, r, s, mine, theirs) BY <1>3, <1>4 DEF BothOK, PairOK, Opening
<1>6. ~ Has(Tail(w), "Open", i) BY OrderTail DEF MayFollow
<1>7. Closing(Tail(w), i, r, s)
  BY <1>2, <1>3, <1>6 DEF BothOK, PairOK, Closing, Reached
<1>8. Counting(Tail(w), i, r, s)
  <2>1. /\ Flight(w, i) = Flight(Tail(w), i) + Share(Head(w), i) /\ Share(Head(w), i) \in Nat
        /\ Flight(Tail(w), i) \in Nat
    BY <1>1, WireTail, FrameFields, FlightType
  <2>2. Used(r) \in Int /\ Used(s) \in Int /\ Counted(r) \in Nat BY UsedType
  <2>3. Flight(w, i) + Counted(r) <= Used(r) + Used(s) BY DEF BothOK, PairOK, Counting
  <2>4. Flight(Tail(w), i) + Counted(r) <= Used(r) + Used(s) BY <2>1, <2>2, <2>3
  <2>5. QED BY <1>2, <2>4 DEF Counting
<1>9. QED BY <1>5, <1>7, <1>8 DEF BothOK, PairOK

\* A window update leaves a credit.
LEMMA WindowDeltaType ==
    ASSUME NEW credit \in Nat, NEW d \in Int
    PROVE  WindowDelta(credit, d) \in Nat
<1>1. \A next : (IF next \in 0..MaxCredit THEN next ELSE credit) \in Nat BY MuxAssumption
<1>2. QED BY <1>1 DEF WindowDelta

\* What a frame that is not an Open makes of a stream.
LEMMA AppliedFields ==
    ASSUME NEW r \in StreamRecord, NEW f \in MxFrame, f.kind # "Open", r.credit <= r.granted
    PROVE  LET t == Applied(r, f)
           IN  /\ t \in StreamRecord /\ t.name = r.name
               /\ t.credit <= t.granted /\ t.granted - t.credit = r.granted - r.credit
               /\ t.buffered = (IF f.kind = "Data" /\ Accepts(r, f.len)
                                THEN r.buffered + f.len ELSE r.buffered)
               /\ f.kind \in {"OpenAck", "Data", "WindowUpdate"} => t.state = r.state
               /\ f.kind = "Close" => t.state = (CASE r.state = "Open" -> "HalfClosedRemote"
                                                   [] r.state = "HalfClosedLocal" -> "Closed"
                                                   [] OTHER -> r.state)
               /\ f.kind = "Rst" => t.state = IF r.state = "Closed" THEN "Closed" ELSE "Reset"
<1>1. /\ r.state \in Live /\ r.credit \in Nat /\ r.buffered \in Nat /\ r.name \in StreamName
      /\ r.acked \in BOOLEAN /\ r.granted \in Nat
  BY DEF StreamRecord
<1>2. CASE f.kind = "OpenAck"
  <2>1. Applied(r, f) = IF ~ r.acked /\ r.state = "Open" THEN [r EXCEPT !.acked = TRUE] ELSE r
    BY <1>2 DEF Applied
  <2>2. QED BY <1>1, <1>2, <2>1 DEF StreamRecord
<1>3. CASE f.kind = "Data"
  <2>1. Applied(r, f) = IF Accepts(r, f.len) THEN [r EXCEPT !.buffered = @ + f.len] ELSE r
    BY <1>3 DEF Applied
  <2>2. f.len \in Nat BY <1>3, FrameFields
  <2>3. QED BY <1>1, <1>3, <2>1, <2>2 DEF StreamRecord
<1>4. CASE f.kind = "Close"
  <2>1. Applied(r, f) = IF Transition(r.state, "ReceiveClose") # "rejected"
                        THEN [r EXCEPT !.state = Transition(r.state, "ReceiveClose")] ELSE r
    BY <1>4 DEF Applied
  <2>2. Transition(r.state, "ReceiveClose") =
           (CASE r.state = "Open" -> "HalfClosedRemote"
              [] r.state = "HalfClosedLocal" -> "Closed" [] OTHER -> "rejected")
    BY DEF Transition
  <2>3. QED BY <1>1, <1>4, <2>1, <2>2 DEF StreamRecord, Live
<1>5. CASE f.kind = "Rst"
  <2>1. Applied(r, f) = IF Transition(r.state, "Reset") # "rejected"
                        THEN [r EXCEPT !.state = Transition(r.state, "Reset")] ELSE r
    BY <1>5 DEF Applied
  <2>2. Transition(r.state, "Reset") = IF r.state = "Closed" THEN "rejected" ELSE "Reset"
    BY DEF Transition
  <2>3. QED BY <1>1, <1>5, <2>1, <2>2 DEF StreamRecord, Live
<1>6. CASE f.kind = "WindowUpdate"
  <2>1. PICK next : next = WindowDelta(r.credit, f.delta) OBVIOUS
  <2>2. next \in Nat BY <1>1, <1>6, <2>1, WindowDeltaType, FrameFields
  <2>3. Applied(r, f) = [r EXCEPT !.credit = next, !.granted = @ + next - r.credit]
    BY <1>6, <2>1 DEF Applied
  <2>4. PICK g \in Nat : g = r.granted + next - r.credit BY <1>1, <2>2
  <2>5. next <= g /\ g - next = r.granted - r.credit BY <1>1, <2>2, <2>4
  <2>6. Applied(r, f) = [r EXCEPT !.credit = next, !.granted = g] BY <2>3, <2>4
  <2>7. QED BY <1>1, <1>6, <2>2, <2>4, <2>5, <2>6 DEF StreamRecord
<1>7. QED BY <1>2, <1>3, <1>4, <1>5, <1>6, FrameFields

\* The end r receives a frame for a stream it knows.
LEMMA AppliedKeepsPair ==
    ASSUME NEW w \in Seq(MxFrame), NEW v \in Seq(MxFrame), NEW i \in StreamId, w # <<>>,
           NEW r \in StreamRecord, NEW s \in StreamRecord \cup {Nobody},
           NEW mine \in BOOLEAN, NEW theirs \in BOOLEAN,
           BothOK(i, w, r, v, s, mine, theirs), FramesOrdered(w),
           Head(w).kind # "Open", Head(w).id = i
    PROVE  BothOK(i, Tail(w), Applied(r, Head(w)), v, s, mine, theirs)
<1> DEFINE t == Applied(r, Head(w))
           f == Head(w)
<1>1. f \in MxFrame /\ Tail(w) \in Seq(MxFrame) BY WireTail
<1>16. r.credit <= r.granted BY DEF BothOK, PairOK, Counting, StreamRecord, Live
<1>2. /\ t \in StreamRecord /\ t.name = r.name
      /\ t.credit <= t.granted /\ t.granted - t.credit = r.granted - r.credit
      /\ t.buffered = (IF f.kind = "Data" /\ Accepts(r, f.len) THEN r.buffered + f.len ELSE r.buffered)
  BY <1>1, <1>16, AppliedFields
<1>3. /\ f.kind \in {"OpenAck", "Data", "WindowUpdate"} => t.state = r.state
      /\ f.kind = "Close" => t.state = (CASE r.state = "Open" -> "HalfClosedRemote"
                                          [] r.state = "HalfClosedLocal" -> "Closed"
                                          [] OTHER -> r.state)
      /\ f.kind = "Rst" => t.state = IF r.state = "Closed" THEN "Closed" ELSE "Reset"
  BY <1>1, <1>16, AppliedFields
<1>4. \A kind : Has(w, kind, i) <=> Has(Tail(w), kind, i) \/ kind = f.kind BY WireTail
<1>5. \A n : OpenFor(Tail(w), i, n) => OpenFor(w, i, n) BY WireTail
<1>6. \A kind : Has(Tail(w), kind, i) => MayFollow(f.kind, kind) BY OrderTail
<1>7. f.kind \in {"OpenAck", "Data", "WindowUpdate", "Close", "Rst"} BY <1>1, FrameFields
<1>8. r.state \in Live /\ r.state # "none" /\ t.state \in Live /\ t.state # "none"
  BY <1>2 DEF StreamRecord, Live
<1> HIDE DEF t, f
<1>9. Opening(Tail(w), i, t, s, mine, theirs) /\ Opening(v, i, s, t, theirs, mine)
  BY <1>2, <1>4, <1>5, <1>8 DEF BothOK, PairOK, Opening
<1>10. Closing(Tail(w), i, t, s)
  <2>1. CASE f.kind \in {"OpenAck", "Data", "WindowUpdate"}
    BY <1>3, <1>4, <1>8, <2>1 DEF BothOK, PairOK, Closing, Reached
  <2>2. CASE f.kind = "Close"
    <3>1. s.state \in DoneSending /\ ~ Has(Tail(w), "Data", i) /\ ~ Has(Tail(w), "Close", i)
      BY <1>4, <1>6, <2>2 DEF BothOK, PairOK, Closing, MayFollow
    <3>2. QED BY <1>3, <1>4, <1>8, <2>2, <3>1 DEF BothOK, PairOK, Closing, Reached, Live
  <2>3. CASE f.kind = "Rst"
    <3>1. s.state = "Reset" /\ Has(w, "Rst", i) BY <1>4, <2>3 DEF BothOK, PairOK, Closing
    <3>2. QED BY <1>3, <1>4, <1>8, <2>3, <3>1 DEF BothOK, PairOK, Closing, Reached, DoneSending
  <2>4. QED BY <1>7, <2>1, <2>2, <2>3
<1>11. Closing(v, i, s, t)
  <2>1. CASE f.kind \in {"OpenAck", "Data", "WindowUpdate"}
    BY <1>3, <2>1 DEF BothOK, PairOK, Closing, Reached
  <2>2. CASE f.kind = "Close"
    BY <1>3, <1>8, <2>2 DEF BothOK, PairOK, Closing, Reached, DoneSending, Live
  <2>3. CASE f.kind = "Rst"
    <3>1. s.state = "Reset" /\ Has(w, "Rst", i) BY <1>4, <2>3 DEF BothOK, PairOK, Closing
    <3>2. QED BY <1>3, <1>8, <2>3, <3>1 DEF BothOK, PairOK, Closing, Reached, DoneSending
  <2>4. QED BY <1>7, <2>1, <2>2, <2>3
<1>12. /\ Used(t) = Used(r) /\ Used(r) \in Int /\ Used(s) \in Int
       /\ Counted(r) = r.buffered /\ Counted(t) = t.buffered /\ r.buffered \in Nat
  <2>1. Used(t) = Used(r) /\ Counted(r) = r.buffered /\ Counted(t) = t.buffered
    BY <1>2, <1>8 DEF Used, Counted
  <2>2. QED BY <2>1, UsedType DEF StreamRecord
<1>13. Counting(Tail(w), i, t, s)
  <2>1. Flight(w, i) = Flight(Tail(w), i) + Share(f, i) BY WireTail DEF f
  <2>2. Flight(Tail(w), i) \in Nat /\ Share(f, i) \in Nat BY <1>1, FlightType, FrameFields
  <2>3. t.buffered = r.buffered \/ t.buffered = r.buffered + Share(f, i)
    BY <1>2 DEF Share, f
  <2>4. Flight(w, i) + Counted(r) <= Used(r) + Used(s)
    BY <1>8 DEF BothOK, PairOK, Counting
  <2>5. Flight(Tail(w), i) + Counted(t) <= Used(t) + Used(s)
    BY <1>12, <2>1, <2>2, <2>3, <2>4
  <2>6. QED BY <1>2, <2>5 DEF Counting
<1>14. Counting(v, i, s, t) BY <1>12 DEF BothOK, PairOK, Counting
<1>15. QED BY <1>9, <1>10, <1>11, <1>13, <1>14 DEF BothOK, PairOK, t

(* A wire changes by frames of the stream x only, and stays in order. *)
OnlyFor(x, w, w2) ==
    /\ w2 \in Seq(MxFrame) /\ FramesOrdered(w2)
    /\ \A i, r, s, mine, theirs :
           i # x /\ PairOK(w, i, r, s, mine, theirs) => PairOK(w2, i, r, s, mine, theirs)

\* Sending.
LEMMA OnlyForAppend ==
    ASSUME NEW w \in Seq(MxFrame), FramesOrdered(w), NEW f \in MxFrame,
           \A kind : Has(w, kind, f.id) => MayFollow(kind, f.kind)
    PROVE  OnlyFor(f.id, w, Append(w, f))
<1>1. Append(w, f) \in Seq(MxFrame) /\ FramesOrdered(Append(w, f)) BY OrderAppend
<1>2. QED BY <1>1, PairAppendOther DEF OnlyFor

\* Receiving.
LEMMA OnlyForTail ==
    ASSUME NEW w \in Seq(MxFrame), w # <<>>, FramesOrdered(w)
    PROVE  OnlyFor(Head(w).id, w, Tail(w))
<1>1. Tail(w) \in Seq(MxFrame) /\ FramesOrdered(Tail(w)) BY OrderTail, WireTail
<1>2. QED BY <1>1, PairTailOther DEF OnlyFor

\* Neither.
LEMMA OnlyForSame ==
    ASSUME NEW w \in Seq(MxFrame), FramesOrdered(w), NEW x PROVE OnlyFor(x, w, w)
BY DEF OnlyFor

\* What the invariant says of the stream x, seen from the end a.
LEMMA MxOf ==
    ASSUME MxInv, NEW a \in End, NEW x \in StreamId
    PROVE  /\ Peer(a) \in End /\ Peer(a) # a
           /\ mxWire[a] \in Seq(MxFrame) /\ mxWire[Peer(a)] \in Seq(MxFrame)
           /\ FramesOrdered(mxWire[a]) /\ FramesOrdered(mxWire[Peer(a)])
           /\ mxStream[a][x] \in StreamRecord \cup {Nobody}
           /\ mxStream[Peer(a)][x] \in StreamRecord \cup {Nobody}
           /\ BothOK(x, mxWire[a], mxStream[a][x], mxWire[Peer(a)], mxStream[Peer(a)][x],
                     x \in Opens[a], x \in Opens[Peer(a)])
<1>1. Peer(a) \in End /\ Peer(a) # a /\ Peer(Peer(a)) = a BY PeerFacts
<1>2. QED BY <1>1 DEF MxInv, MxTypeOK, MxOrdered, MxPairs, BothOK

\* A step of the end a on the stream x.
LEMMA MxStreamStep ==
    ASSUME MxInv, NEW a \in End, NEW x \in StreamId, NEW t \in StreamRecord \cup {Nobody},
           NEW wa, NEW wb, mxStream' = [mxStream EXCEPT ![a][x] = t],
           mxWire' = [mxWire EXCEPT ![a] = wa, ![Peer(a)] = wb],
           OnlyFor(x, mxWire[a], wa), OnlyFor(x, mxWire[Peer(a)], wb),
           BothOK(x, wa, t, wb, mxStream[Peer(a)][x], x \in Opens[a], x \in Opens[Peer(a)])
    PROVE  MxInv'
<1> DEFINE b == Peer(a)
<1>1. b \in End /\ b # a /\ Peer(b) = a /\ \A d \in End : d = a \/ d = b BY PeerFacts
<1> HIDE DEF b
<1>2. /\ mxStream \in [End -> [StreamId -> StreamRecord \cup {Nobody}]]
      /\ mxWire \in [End -> Seq(MxFrame)]
  BY DEF MxInv, MxTypeOK
<1>3. wa \in Seq(MxFrame) /\ wb \in Seq(MxFrame) /\ FramesOrdered(wa) /\ FramesOrdered(wb)
  BY DEF OnlyFor
<1>4. mxWire'[a] = wa /\ mxWire'[b] = wb BY <1>1, <1>2 DEF b
<1>5. /\ mxStream'[a][x] = t /\ mxStream'[b] = mxStream[b]
      /\ \A i \in StreamId : i # x => mxStream'[a][i] = mxStream[a][i]
  BY <1>1, <1>2
<1>6. MxTypeOK' BY <1>1, <1>2, <1>3 DEF MxTypeOK, b
<1>7. MxOrdered' BY <1>1, <1>3, <1>4 DEF MxOrdered
<1>8. ASSUME NEW i \in StreamId
      PROVE  /\ PairOK(wa, i, mxStream'[a][i], mxStream'[b][i], i \in Opens[a], i \in Opens[b])
             /\ PairOK(wb, i, mxStream'[b][i], mxStream'[a][i], i \in Opens[b], i \in Opens[a])
  <2>1. CASE i = x BY <1>5, <2>1 DEF BothOK, b
  <2>2. CASE i # x
    <3>1. /\ PairOK(mxWire[a], i, mxStream[a][i], mxStream[b][i], i \in Opens[a], i \in Opens[b])
          /\ PairOK(mxWire[b], i, mxStream[b][i], mxStream[a][i], i \in Opens[b], i \in Opens[a])
      BY <1>1 DEF MxInv, MxPairs, b
    <3>2. mxStream'[a][i] = mxStream[a][i] /\ mxStream'[b][i] = mxStream[b][i] BY <1>5, <2>2
    <3>3. QED BY <2>2, <3>1, <3>2 DEF OnlyFor, b
  <2>3. QED BY <2>1, <2>2
<1>9. MxPairs'
  <2>1. ASSUME NEW e \in End, NEW i \in StreamId
        PROVE  PairOK(mxWire'[e], i, mxStream'[e][i], mxStream'[Peer(e)][i],
                      i \in Opens[e], i \in Opens[Peer(e)])
    <3>1. CASE e = a BY <1>4, <1>8, <3>1 DEF b
    <3>2. CASE e = b BY <1>1, <1>4, <1>8, <3>2
    <3>3. QED BY <1>1, <3>1, <3>2
  <2>2. QED BY <2>1 DEF MxPairs
<1>10. QED BY <1>6, <1>7, <1>9 DEF MxInv

\* open_stream.
LEMMA OpenStreamKeeps ==
    ASSUME MxInv, NEW e \in End, NEW i \in StreamId, NEW name \in StreamName,
           NEW credit \in Credits, OpenStream(e, i, name, credit)
    PROVE  MxInv'
<1> DEFINE b == Peer(e)
           f == [kind |-> "Open", id |-> i, name |-> name]
           wb == Append(mxWire[b], f)
           t == Stream(name, credit)
<1>1. f \in MxFrame BY DEF MxFrame
<1>2. f.id = i /\ f.kind = "Open" OBVIOUS
<1>3. mxStream[e][i] = Nobody /\ i \in Opens[e] /\ mxStream' = [mxStream EXCEPT ![e][i] = t]
  BY DEF OpenStream, CanOpen, Known
<1>4. mxWire' = [mxWire EXCEPT ![b] = wb] BY DEF OpenStream, Send
<1>5. i \notin Opens[b] BY <1>3, MuxAssumption DEF Peer, End
<1>6. /\ mxWire[e] \in Seq(MxFrame) /\ mxWire[b] \in Seq(MxFrame)
      /\ FramesOrdered(mxWire[e]) /\ FramesOrdered(mxWire[b])
      /\ mxStream[b][i] \in StreamRecord \cup {Nobody}
      /\ BothOK(i, mxWire[b], mxStream[b][i], mxWire[e], Nobody, FALSE, TRUE)
  <2>1. (i \in Opens[e]) = TRUE /\ (i \in Opens[b]) = FALSE BY <1>3, <1>5
  <2>2. QED BY <1>3, <2>1, MxOf DEF BothOK
<1>14. credit \in Nat BY MuxAssumption
<1>7. t \in StreamRecord BY <1>14, NewStream
<1> HIDE DEF t, f
<1>8. BothOK(i, wb, mxStream[b][i], mxWire[e], t, FALSE, TRUE) /\ \A kind : ~ Has(mxWire[b], kind, i)
  BY <1>1, <1>6, <1>14, OpenKeepsPair DEF t, f
<1>9. OnlyFor(i, mxWire[b], wb)
  BY <1>1, <1>2, <1>6, <1>8, OnlyForAppend
<1>10. OnlyFor(i, mxWire[e], mxWire[e]) BY <1>6, OnlyForSame
<1>11. mxWire' = [mxWire EXCEPT ![e] = mxWire[e], ![b] = wb]
  <2>1. mxWire \in [End -> Seq(MxFrame)] BY DEF MxInv, MxTypeOK
  <2>2. QED BY <1>4, <2>1
<1>12. BothOK(i, mxWire[e], t, wb, mxStream[b][i], i \in Opens[e], i \in Opens[b])
  <2>1. (i \in Opens[e]) = TRUE /\ (i \in Opens[b]) = FALSE BY <1>3, <1>5
  <2>2. QED BY <1>8, <2>1 DEF BothOK
<1> HIDE DEF wb
<1>13. QED BY <1>3, <1>7, <1>9, <1>10, <1>11, <1>12, MxStreamStep

\* A step of the end a that sends one frame for the stream x.
LEMMA MxSendStep ==
    ASSUME MxInv, NEW a \in End, NEW x \in StreamId, NEW t \in StreamRecord, NEW f \in MxFrame,
           mxStream' = [mxStream EXCEPT ![a][x] = t], Send(a, f), f.id = x,
           \A kind : Has(mxWire[Peer(a)], kind, x) => MayFollow(kind, f.kind),
           BothOK(x, Append(mxWire[Peer(a)], f), mxStream[Peer(a)][x], mxWire[a], t,
                  x \in Opens[Peer(a)], x \in Opens[a])
    PROVE  MxInv'
<1> DEFINE b == Peer(a)
           wb == Append(mxWire[b], f)
<1>1. /\ mxWire[a] \in Seq(MxFrame) /\ mxWire[b] \in Seq(MxFrame)
      /\ FramesOrdered(mxWire[a]) /\ FramesOrdered(mxWire[b])
  BY MxOf
<1>2. OnlyFor(x, mxWire[b], wb) BY <1>1, OnlyForAppend
<1>3. OnlyFor(x, mxWire[a], mxWire[a]) BY <1>1, OnlyForSame
<1>4. mxWire' = [mxWire EXCEPT ![a] = mxWire[a], ![b] = wb]
  <2>1. mxWire \in [End -> Seq(MxFrame)] BY DEF MxInv, MxTypeOK
  <2>2. QED BY <2>1 DEF Send
<1>5. BothOK(x, mxWire[a], t, wb, mxStream[b][x], x \in Opens[a], x \in Opens[b])
  BY DEF BothOK
<1> HIDE DEF wb
<1>6. QED BY <1>2, <1>3, <1>4, <1>5, MxStreamStep

\* The truth value of a membership.
LEMMA TruthOf ==
    ASSUME NEW A, NEW x PROVE \E m \in BOOLEAN : m = (x \in A)
<1>1. CASE x \in A BY <1>1, Zenon
<1>2. CASE x \notin A
  <2>1. FALSE = (x \in A) BY <1>2
  <2>2. QED BY <2>1
<1>3. QED BY <1>1, <1>2

\* send_data.
LEMMA SendDataKeeps ==
    ASSUME MxInv, NEW e \in End, NEW i \in StreamId, NEW n \in Length, SendData(e, i, n)
    PROVE  MxInv'
<1> DEFINE b == Peer(e)
           s == mxStream[e][i]
           f == [kind |-> "Data", id |-> i, len |-> n]
           t == Spent(s, n)
<1>1. n \in Nat BY MuxAssumption
<1>2. f \in MxFrame /\ f.id = i /\ f.kind = "Data" BY <1>1 DEF MxFrame
<1>3. /\ s # Nobody /\ s.state \in {"Open", "HalfClosedRemote"} /\ n <= s.credit
      /\ mxStream' = [mxStream EXCEPT ![e][i] = t] /\ Send(e, f)
  BY DEF SendData, Known
<1>4. /\ mxWire[e] \in Seq(MxFrame) /\ mxWire[b] \in Seq(MxFrame) /\ s \in StreamRecord
      /\ mxStream[b][i] \in StreamRecord \cup {Nobody}
      /\ BothOK(i, mxWire[b], mxStream[b][i], mxWire[e], s, i \in Opens[b], i \in Opens[e])
  BY <1>3, MxOf DEF BothOK
<1>8. f = [kind |-> "Data", id |-> i, len |-> n] /\ t = Spent(s, n) OBVIOUS
<1> HIDE DEF t, f, s
<1>5. /\ BothOK(i, Append(mxWire[b], f), mxStream[b][i], mxWire[e], t, i \in Opens[b], i \in Opens[e])
      /\ t \in StreamRecord /\ ~ Has(mxWire[b], "Close", i)
  <2>1. PICK m \in BOOLEAN, o \in BOOLEAN : m = (i \in Opens[b]) /\ o = (i \in Opens[e]) BY TruthOf
  <2>2. BothOK(i, mxWire[b], mxStream[b][i], mxWire[e], s, m, o) BY <1>4, <2>1
  <2>3. /\ BothOK(i, Append(mxWire[b], f), mxStream[b][i], mxWire[e], t, m, o)
        /\ t \in StreamRecord /\ ~ Has(mxWire[b], "Close", i)
    BY <1>1, <1>2, <1>3, <1>4, <1>8, <2>2, DataKeepsPair
  <2>4. QED BY <2>1, <2>3
<1>6. \A kind : Has(mxWire[b], kind, i) => MayFollow(kind, f.kind) BY <1>2, <1>5 DEF MayFollow
<1>7. QED BY <1>2, <1>3, <1>5, <1>6, MxSendStep

\* close_stream and reset_stream.
LEMMA EndStreamKeeps ==
    ASSUME MxInv, NEW e \in End, NEW i \in StreamId, NEW event \in {"SendClose", "Reset"},
           EndStream(e, i, event)
    PROVE  MxInv'
<1> DEFINE b == Peer(e)
           s == mxStream[e][i]
           next == Transition(s.state, event)
           f == [kind |-> IF event = "Reset" THEN "Rst" ELSE "Close", id |-> i]
           t == [s EXCEPT !.state = next]
<1>1. f \in MxFrame /\ f.id = i BY DEF MxFrame
<1>2. s # Nobody /\ next # "rejected" /\ Send(e, f) BY DEF EndStream, Known
<1>3. /\ mxWire[e] \in Seq(MxFrame) /\ mxWire[b] \in Seq(MxFrame) /\ s \in StreamRecord
      /\ mxStream[b][i] \in StreamRecord \cup {Nobody}
      /\ BothOK(i, mxWire[b], mxStream[b][i], mxWire[e], s, i \in Opens[b], i \in Opens[e])
  BY <1>2, MxOf DEF BothOK
<1>4. mxStream' = [mxStream EXCEPT ![e][i] = t]
  <2>1. mxStream' = [mxStream EXCEPT ![e][i].state = next] BY DEF EndStream
  <2>2. QED BY <2>1
<1>5. next \in Live
  <2>1. s.state \in Live BY <1>3 DEF StreamRecord
  <2>2. QED BY <1>2, <2>1 DEF Transition, Live
<1>6. Moved(s, t) /\ t.state = next /\ t \in StreamRecord
  BY <1>3, <1>5 DEF Moved, StreamRecord
<1>9. f.kind = (IF event = "Reset" THEN "Rst" ELSE "Close") OBVIOUS
<1>10. Ended(s, t, f, event) BY <1>2, <1>6, <1>9 DEF Ended
<1> HIDE DEF t, f, s, next
<1>7. /\ BothOK(i, Append(mxWire[b], f), mxStream[b][i], mxWire[e], t, i \in Opens[b], i \in Opens[e])
      /\ \A kind : Has(mxWire[b], kind, i) => MayFollow(kind, f.kind)
  <2>1. PICK m \in BOOLEAN, o \in BOOLEAN : m = (i \in Opens[b]) /\ o = (i \in Opens[e]) BY TruthOf
  <2>2. BothOK(i, mxWire[b], mxStream[b][i], mxWire[e], s, m, o) BY <1>3, <2>1
  <2>3. PICK w \in Seq(MxFrame), v \in Seq(MxFrame), r \in StreamRecord \cup {Nobody} :
             w = mxWire[b] /\ v = mxWire[e] /\ r = mxStream[b][i]
    BY <1>3
  <2>4. BothOK(i, w, r, v, s, m, o) BY <2>2, <2>3
  <2>5. f.id = i /\ f \in MxFrame /\ s \in StreamRecord /\ t \in StreamRecord BY <1>1, <1>3, <1>6
  <2>6. /\ BothOK(i, Append(w, f), r, v, t, m, o)
        /\ \A kind : Has(w, kind, i) => MayFollow(kind, f.kind)
    BY <1>10, <2>4, <2>5, EndKeepsPair, ZenonT(60)
  <2>7. QED BY <2>1, <2>3, <2>6
<1>8. QED BY <1>1, <1>2, <1>4, <1>6, <1>7, MxSendStep

\* A window update on its way.
LEMMA SendWindowUpdateKeeps ==
    ASSUME MxInv, NEW e \in End, NEW i \in StreamId, NEW d \in Deltas, SendWindowUpdate(e, i, d)
    PROVE  MxInv'
<1> DEFINE b == Peer(e)
           s == mxStream[e][i]
           f == [kind |-> "WindowUpdate", id |-> i, delta |-> d]
<1>1. f \in MxFrame /\ f.id = i /\ f.kind = "WindowUpdate" BY MuxAssumption DEF MxFrame
<1>2. s # Nobody /\ Send(e, f) /\ mxStream' = mxStream BY DEF SendWindowUpdate, Known
<1>3. /\ mxWire[b] \in Seq(MxFrame) /\ s \in StreamRecord
      /\ BothOK(i, mxWire[b], mxStream[b][i], mxWire[e], s, i \in Opens[b], i \in Opens[e])
  BY <1>2, MxOf DEF BothOK
<1>4. mxStream' = [mxStream EXCEPT ![e][i] = s]
  BY <1>2 DEF MxInv, MxTypeOK
<1> HIDE DEF f, s
<1>5. \A kind : Has(Append(mxWire[b], f), kind, i) <=> Has(mxWire[b], kind, i) \/ kind = "WindowUpdate"
  BY <1>1, <1>3, WireAppend
<1>6. \A n : OpenFor(Append(mxWire[b], f), i, n) <=> OpenFor(mxWire[b], i, n)
  BY <1>1, <1>3, WireAppend
<1>7. Flight(Append(mxWire[b], f), i) = Flight(mxWire[b], i)
  <2>1. Share(f, i) = 0 BY <1>1 DEF Share
  <2>2. QED BY <1>1, <1>3, <2>1, WireAppend, FlightType
<1>8. s.state # "none" BY <1>3 DEF StreamRecord, Live
<1>9. BothOK(i, Append(mxWire[b], f), mxStream[b][i], mxWire[e], s, i \in Opens[b], i \in Opens[e])
  <2>1. PICK w, v, r, m, o : /\ w = mxWire[b] /\ v = mxWire[e] /\ r = mxStream[b][i]
                             /\ m = (i \in Opens[b]) /\ o = (i \in Opens[e])
    OBVIOUS
  <2>2. PairOK(w, i, r, s, m, o) /\ PairOK(v, i, s, r, o, m) BY <1>3, <2>1 DEF BothOK
  <2>3. PairOK(Append(w, f), i, r, s, m, o)
    BY <1>5, <1>6, <1>7, <1>8, <2>1, <2>2 DEF PairOK, Opening, Closing, Counting, Reached
  <2>4. QED BY <2>1, <2>2, <2>3 DEF BothOK
<1>10. \A kind : Has(mxWire[b], kind, i) => MayFollow(kind, f.kind) BY <1>1 DEF MayFollow
<1>11. QED BY <1>1, <1>2, <1>3, <1>4, <1>9, <1>10, MxSendStep

\* ingest, of each kind of frame.
LEMMA IngestKeeps ==
    ASSUME MxInv, NEW e \in End, Ingest(e)
    PROVE  MxInv'
<1> DEFINE b == Peer(e)
           w == mxWire[e]
           v == mxWire[b]
           f == Head(w)
           i == f.id
           r == mxStream[e][i]
           s == mxStream[b][i]
<1>1. w # <<>> /\ (IngestOpen(e, f) \/ IngestOther(e, f)) BY DEF Ingest
<1>2. w \in Seq(MxFrame) /\ FramesOrdered(w) /\ b \in End /\ b # e
  BY PeerFacts DEF MxInv, MxTypeOK, MxOrdered
<1>3. f \in MxFrame /\ i \in StreamId BY <1>1, <1>2, WireTail, FrameFields
<1>4. /\ v \in Seq(MxFrame) /\ FramesOrdered(v)
      /\ r \in StreamRecord \cup {Nobody} /\ s \in StreamRecord \cup {Nobody}
      /\ BothOK(i, w, r, v, s, i \in Opens[e], i \in Opens[b])
  BY <1>3, MxOf
<1>5. PICK m \in BOOLEAN, o \in BOOLEAN : m = (i \in Opens[e]) /\ o = (i \in Opens[b]) BY TruthOf
<1>6. BothOK(i, w, r, v, s, m, o) BY <1>4, <1>5
<1>7. OnlyFor(i, w, Tail(w)) /\ OnlyFor(i, v, v) BY <1>1, <1>2, <1>4, OnlyForTail, OnlyForSame
<1>8. /\ mxStream \in [End -> [StreamId -> StreamRecord \cup {Nobody}]]
      /\ mxWire \in [End -> Seq(MxFrame)]
  BY DEF MxInv, MxTypeOK
<1>9. r = Nobody <=> i \notin Known(e) BY <1>3 DEF Known
<1>10. CASE f.kind = "Open" /\ CanOpen(e, i, f.name)
  <2> DEFINE g == [kind |-> "OpenAck", id |-> i]
             t == Stream(f.name, InitialCredit)
  <2>1. g \in MxFrame /\ g.id = i /\ g.kind = "OpenAck" BY <1>3 DEF MxFrame
  <2>2. r = Nobody BY <1>9, <1>10 DEF CanOpen
  <2>3. /\ mxStream' = [mxStream EXCEPT ![e][i] = t]
        /\ mxWire' = [mxWire EXCEPT ![e] = Tail(w), ![b] = Append(v, g)]
    <3>1. IngestOpen(e, f) BY <1>1, <1>10 DEF IngestOther
    <3>2. QED BY <1>2, <1>8, <1>10, <3>1 DEF IngestOpen
  <2>4. t \in StreamRecord
    <3>1. f.name \in StreamName /\ InitialCredit \in Nat BY <1>3, <1>10, FrameFields, MuxAssumption
    <3>2. QED BY <3>1, NewStream
  <2> HIDE DEF g, i, r, s, w, v
  <2>5. /\ BothOK(i, Tail(w), t, Append(v, g), s, m, o)
        /\ \A kind : ~ Has(v, kind, i)
    BY <1>1, <1>2, <1>3, <1>4, <1>6, <1>10, <2>1, <2>2, AcceptKeepsPair DEF g, i
  <2>6. OnlyFor(i, v, Append(v, g)) BY <1>4, <2>1, <2>5, OnlyForAppend
  <2>7. BothOK(i, Tail(w), t, Append(v, g), s, i \in Opens[e], i \in Opens[b]) BY <1>5, <2>5
  <2> HIDE DEF t
  <2>8. PICK wa, wb : wa = Tail(w) /\ wb = Append(v, g) OBVIOUS
  <2>9. QED BY <1>3, <1>7, <2>3, <2>4, <2>6, <2>7, <2>8, MxStreamStep DEF w, v, s
<1>11. ASSUME NEW t \in StreamRecord \cup {Nobody}, mxStream' = [mxStream EXCEPT ![e][i] = t],
              mxWire' = [mxWire EXCEPT ![e] = Tail(w)], BothOK(i, Tail(w), t, v, s, m, o)
       PROVE  MxInv'
  <2>1. mxWire' = [mxWire EXCEPT ![e] = Tail(w), ![b] = v] BY <1>2, <1>8, <1>11
  <2>2. BothOK(i, Tail(w), t, v, s, i \in Opens[e], i \in Opens[b]) BY <1>5, <1>11
  <2> HIDE DEF i, s, w, v
  <2>3. PICK wa : wa = Tail(w) OBVIOUS
  <2>4. QED BY <1>3, <1>7, <1>11, <2>1, <2>2, <2>3, MxStreamStep DEF w, v, s
<1>12. mxStream = [mxStream EXCEPT ![e][i] = r] BY <1>3, <1>8
<1>13. CASE f.kind = "Open" /\ ~ CanOpen(e, i, f.name)
  <2>1. mxStream' = mxStream /\ mxWire' = [mxWire EXCEPT ![e] = Tail(w)]
    BY <1>1, <1>13 DEF IngestOther, IngestOpen
  <2> HIDE DEF w, v, i, r, s
  <2>2. BothOK(i, Tail(w), r, v, s, m, o)
    BY <1>1, <1>2, <1>3, <1>4, <1>6, <1>13, DropKeepsPair DEF i
  <2>3. QED BY <1>4, <1>11, <1>12, <2>1, <2>2
<1>14. CASE f.kind # "Open" /\ r = Nobody
  <2>1. mxStream' = mxStream /\ mxWire' = [mxWire EXCEPT ![e] = Tail(w)]
    BY <1>1, <1>9, <1>14 DEF IngestOther, IngestOpen
  <2> HIDE DEF w, v, i, r, s
  <2>2. BothOK(i, Tail(w), r, v, s, m, o)
    BY <1>1, <1>2, <1>3, <1>4, <1>6, <1>14, DropKeepsPair DEF i
  <2>3. QED BY <1>4, <1>11, <1>12, <2>1, <2>2
<1>15. CASE f.kind # "Open" /\ r # Nobody
  <2> DEFINE t == Applied(r, f)
  <2>1. mxStream' = [mxStream EXCEPT ![e][i] = t] /\ mxWire' = [mxWire EXCEPT ![e] = Tail(w)]
    BY <1>1, <1>9, <1>15 DEF IngestOther, IngestOpen
  <2>2. r \in StreamRecord BY <1>4, <1>15
  <2> HIDE DEF w, v, i, r, s
  <2>6. r.credit <= r.granted
    BY <1>6, <2>2 DEF BothOK, PairOK, Counting, StreamRecord, Live
  <2>3. t \in StreamRecord BY <1>3, <1>15, <2>2, <2>6, AppliedFields DEF i
  <2>4. BothOK(i, Tail(w), t, v, s, m, o)
    BY <1>1, <1>2, <1>3, <1>4, <1>6, <1>15, <2>2, AppliedKeepsPair DEF i
  <2>5. QED BY <1>11, <2>1, <2>3, <2>4
<1>16. QED BY <1>10, <1>13, <1>14, <1>15

\* At first nothing is known or on its way.
LEMMA MxInvInit == MxInit => MxInv
<1> SUFFICES ASSUME MxInit PROVE MxInv OBVIOUS
<1>1. \A e \in End : mxWire[e] = <<>> /\ \A i \in StreamId : mxStream[e][i] = Nobody BY DEF MxInit
<1>2. MxTypeOK BY DEF MxInit, MxTypeOK
<1>3. MxOrdered BY <1>1 DEF MxOrdered, FramesOrdered
<1>4. ASSUME NEW i \in StreamId, NEW mine, NEW theirs
      PROVE  PairOK(<<>>, i, Nobody, Nobody, mine, theirs)
  <2>1. <<>> \in Seq(MxFrame) /\ Len(<<>>) = 0 OBVIOUS
  <2>2. (\A kind : ~ Has(<<>>, kind, i)) /\ (\A n : ~ OpenFor(<<>>, i, n))
    BY <2>1 DEF Has, OpenFor
  <2>3. Flight(<<>>, i) = 0
    <3>1. [k \in 1..Len(<<>>) |-> Share(<<>>[k], i)] = <<>> BY <2>1
    <3>2. QED BY <3>1, SumSeqEmpty DEF Flight
  <2>4. Nobody.state = "none" BY DEF Nobody
  <2>5. Opening(<<>>, i, Nobody, Nobody, mine, theirs) BY <2>2, <2>4 DEF Opening
  <2>6. Closing(<<>>, i, Nobody, Nobody) BY <2>2, <2>4 DEF Closing, Reached
  <2>7. Counting(<<>>, i, Nobody, Nobody) BY <2>3, <2>4 DEF Counting, Used, Counted
  <2>8. QED BY <2>5, <2>6, <2>7 DEF PairOK
<1>5. MxPairs
  <2>1. ASSUME NEW e \in End, NEW i \in StreamId
        PROVE  PairOK(mxWire[e], i, mxStream[e][i], mxStream[Peer(e)][i],
                      i \in Opens[e], i \in Opens[Peer(e)])
    BY <1>1, <1>4, PeerFacts
  <2>2. QED BY <2>1 DEF MxPairs
<1>6. QED BY <1>2, <1>3, <1>5 DEF MxInv

\* Every operation keeps the invariant; the scheduler does not touch it.
LEMMA MxInvStep == MxInv /\ [EndsNext \/ SchedNext]_mxVars => MxInv'
<1> SUFFICES ASSUME MxInv, [EndsNext \/ SchedNext]_mxVars PROVE MxInv' OBVIOUS
<1>1. CASE EndsNext
  <2>1. PICK e \in End :
            \/ Ingest(e)
            \/ \E i \in StreamId :
                 \/ \E name \in StreamName, credit \in Credits : OpenStream(e, i, name, credit)
                 \/ \E d \in Deltas : SendWindowUpdate(e, i, d)
                 \/ \E n \in Length : SendData(e, i, n)
                 \/ \E event \in {"SendClose", "Reset"} : EndStream(e, i, event)
    BY <1>1 DEF EndsNext
  <2>2. CASE Ingest(e) BY <2>2, IngestKeeps
  <2>3. ASSUME NEW i \in StreamId, NEW name \in StreamName, NEW credit \in Credits,
               OpenStream(e, i, name, credit)
        PROVE  MxInv'
    BY <2>3, OpenStreamKeeps
  <2>7. ASSUME NEW i \in StreamId, NEW d \in Deltas, SendWindowUpdate(e, i, d) PROVE MxInv'
    BY <2>7, SendWindowUpdateKeeps
  <2>4. ASSUME NEW i \in StreamId, NEW n \in Length, SendData(e, i, n) PROVE MxInv'
    BY <2>4, SendDataKeeps
  <2>5. ASSUME NEW i \in StreamId, NEW event \in {"SendClose", "Reset"}, EndStream(e, i, event)
        PROVE  MxInv'
    BY <2>5, EndStreamKeeps
  <2>6. QED BY <2>1, <2>2, <2>3, <2>4, <2>5, <2>7
<1>2. CASE UNCHANGED mxEnds
  BY <1>2 DEF mxEnds, MxInv, MxTypeOK, MxOrdered, MxPairs
<1>3. CASE SchedNext
  <2>1. UNCHANGED mxEnds BY <1>3 DEF SchedNext, DequeueNext, Enqueue
  <2>2. QED BY <1>2, <2>1
<1>4. CASE UNCHANGED mxVars
  <2>1. UNCHANGED mxEnds BY <1>4 DEF mxVars, mxEnds
  <2>2. QED BY <1>2, <2>1
<1>5. QED BY <1>1, <1>3, <1>4

\* The invariant holds throughout.
LEMMA MxInvHolds == MuxSpec => []MxInv
BY MxInvInit, MxInvStep, PTL DEF MuxSpec

\* What both ends have used of their credits fits if the credits do.
LEMMA RoomForBoth ==
    ASSUME NEW rest \in Nat, NEW len \in Nat, NEW held \in Nat, NEW c \in Nat, NEW d \in Nat,
           NEW x \in Nat, NEW y \in Nat, NEW room \in Nat, x + y <= room,
           rest + len + held <= (x - c) + (y - d)
    PROVE  held + len <= room
OBVIOUS

\* The head of a wire that carries data finds the stream open and with room.
LEMMA MxInvAccepts == MxInv => MxDataAccepted
<1> SUFFICES ASSUME MxInv, NEW e \in End, mxWire[e] # <<>>,
                    Head(mxWire[e]).kind = "Data", Head(mxWire[e]).id \in Known(e),
                    mxStream[e][Head(mxWire[e]).id].state # "Reset",
                    mxStream[e][Head(mxWire[e]).id].granted
                      + mxStream[Peer(e)][Head(mxWire[e]).id].granted <= MaxBuffered
             PROVE  Accepts(mxStream[e][Head(mxWire[e]).id], Head(mxWire[e]).len)
  BY DEF MxDataAccepted
<1> DEFINE w == mxWire[e]
           f == Head(w)
           i == f.id
           r == mxStream[e][i]
           s == mxStream[Peer(e)][i]
<1>1. w \in Seq(MxFrame) /\ f \in MxFrame /\ i \in StreamId
  BY WireTail, FrameFields DEF MxInv, MxTypeOK
<1>2. /\ r \in StreamRecord \cup {Nobody} /\ s \in StreamRecord \cup {Nobody}
      /\ PairOK(w, i, r, s, i \in Opens[e], i \in Opens[Peer(e)])
  BY <1>1, MxOf DEF BothOK
<1>3. r \in StreamRecord BY <1>2 DEF Known
<1>4. Has(w, "Data", i) BY <1>1, WireTail
<1>5. r.state \in {"Open", "HalfClosedLocal"}
  BY <1>2, <1>3, <1>4 DEF PairOK, Closing, StreamRecord, Live
<1>6. s.state # "none" BY <1>2, <1>4 DEF PairOK, Opening
<1>7. f.len \in Nat /\ Share(f, i) = f.len BY <1>1, FrameFields DEF Share
<1>8. Flight(w, i) = Flight(Tail(w), i) + f.len /\ Flight(Tail(w), i) \in Nat
  <2>1. Tail(w) \in Seq(MxFrame) /\ Flight(w, i) = Flight(Tail(w), i) + Share(f, i)
    <3>1. w # <<>> OBVIOUS
    <3> HIDE DEF w, i
    <3>2. QED BY <1>1, <3>1, WireTail
  <2>2. QED BY <1>7, <2>1, FlightType
<1>9. Flight(w, i) + r.buffered <= (r.granted - r.credit) + (s.granted - s.credit)
  BY <1>2, <1>5, <1>6 DEF PairOK, Counting, Used, Counted
<1>10. /\ r.buffered \in Nat /\ r.credit \in Nat /\ s.credit \in Nat
       /\ r.granted \in Nat /\ s.granted \in Nat
  BY <1>2, <1>3, <1>6, StreamFields
<1>11. MaxBuffered \in Nat /\ r.granted + s.granted <= MaxBuffered BY MuxAssumption
<1> HIDE DEF w, f, i, r, s
<1>12. r.buffered + f.len <= MaxBuffered
  <2>1. Flight(Tail(w), i) + f.len + r.buffered <= (r.granted - r.credit) + (s.granted - s.credit)
    BY <1>8, <1>9
  <2>2. QED BY <1>7, <1>8, <1>10, <1>11, <2>1, RoomForBoth
<1>13. Accepts(r, f.len) BY <1>5, <1>12 DEF Accepts
<1>14. QED BY <1>13 DEF r, i, f, w

\* With nothing on its way the two ends have the same view.
LEMMA MxInvAgree == MxInv => MxEndsAgree
<1> SUFFICES ASSUME MxInv, mxWire = [e \in End |-> <<>>], NEW i \in Known(1) \cap Known(2)
             PROVE  LET a == mxStream[1][i]
                        b == mxStream[2][i]
                    IN  /\ a.name = b.name
                        /\ \/ b.state = Mirror(a.state)
                           \/ {a.state, b.state} \subseteq {"Closed", "Reset"}
  BY DEF MxEndsAgree
<1> DEFINE a == mxStream[1][i]
           b == mxStream[2][i]
<1>1. 1 \in End /\ 2 \in End /\ Peer(1) = 2 /\ Peer(2) = 1 BY DEF End, Peer
<1>2. i \in StreamId /\ a # Nobody /\ b # Nobody BY DEF Known
<1>3. mxWire[1] = <<>> /\ mxWire[2] = <<>> BY <1>1
<1>4. a \in StreamRecord /\ b \in StreamRecord BY <1>1, <1>2 DEF MxInv, MxTypeOK
<1>5. /\ PairOK(<<>>, i, a, b, i \in Opens[1], i \in Opens[2])
      /\ PairOK(<<>>, i, b, a, i \in Opens[2], i \in Opens[1])
  BY <1>1, <1>2, <1>3 DEF MxInv, MxPairs
<1>6. \A kind : ~ Has(<<>>, kind, i) BY DEF Has
<1>7. a.state \in Live /\ b.state \in Live BY <1>4 DEF StreamRecord
<1> HIDE DEF a, b
<1>8. a.state # "none" /\ b.state # "none" BY <1>7 DEF Live
<1>9. a.name = b.name BY <1>5, <1>8 DEF PairOK, Opening
<1>10. /\ a.state \in {"HalfClosedRemote", "Closed"} => b.state \in DoneSending
       /\ b.state \in {"HalfClosedRemote", "Closed"} => a.state \in DoneSending
       /\ b.state \in {"HalfClosedLocal", "Closed"} => a.state \in {"HalfClosedRemote", "Closed", "Reset"}
       /\ a.state \in {"HalfClosedLocal", "Closed"} => b.state \in {"HalfClosedRemote", "Closed", "Reset"}
       /\ b.state = "Reset" => a.state \in {"Closed", "Reset"}
       /\ a.state = "Reset" => b.state \in {"Closed", "Reset"}
  BY <1>5, <1>6, <1>8 DEF PairOK, Closing, Reached
<1>11. b.state = Mirror(a.state) \/ {a.state, b.state} \subseteq {"Closed", "Reset"}
  BY <1>7, <1>10 DEF Live, DoneSending, Mirror
<1>12. QED BY <1>9, <1>11 DEF a, b

\* For any streams, names, payload lengths, wires, credits that streams are
\* opened with and window updates: data that one end was allowed to send finds
\* the stream open for receiving and has room at the other, unless that one
\* reset it or the credit both were given does not fit into the buffer
\* (send_data, apply_inbound_frame).
THEOREM MuxDataAccepted == MuxSpec => []MxDataAccepted
BY MxInvHolds, MxInvAccepts, PTL

\* For any streams and wires: once nothing is on its way, the ends agree on
\* the streams both know, in whichever order Close and Rst frames crossed
\* (apply_stream_transition).
THEOREM MuxEndsAgree == MuxSpec => []MxEndsAgree
BY MxInvHolds, MxInvAgree, PTL
=============================================================================
