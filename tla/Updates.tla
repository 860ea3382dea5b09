------------------------------- MODULE Updates -------------------------------
(***************************************************************************)
(* A/B updates: the boot control of userspace/updates, the service updated *)
(* that keeps it and stores it through statefsd, bundlemgrd that publishes *)
(* the active slot, and init, which counts boot attempts.                  *)
(*                                                                         *)
(* A store can fail, also after the record was written.  A request to      *)
(* bundlemgrd can time out and be served later; its late reply is then     *)
(* taken for the reply of a later request.                                 *)
(***************************************************************************)
EXTENDS Naturals, Sequences, FiniteSets

CONSTANTS
    Tries,          \* values of the tries argument of Switch
    MaxAttempts,    \* sends of init's BootAttempt, one per deadline
    MaxQueue,       \* bound on the requests waiting at bundlemgrd and on its late replies
    LoadFailures    \* may loading the stored state fail at boot?

VARIABLES
    upBoot,      \* BootCtrl in updated's memory
    upStored,    \* the record in statefs; Nothing before the first store
    upBundle,    \* bundlemgrd: its active slot, the requests waiting, the replies not yet read
    upInit,      \* init's boot attempt: is it over, sends left, requests at updated, replies
    upGood,      \* history: the slots whose image was confirmed by a health commit
    upSaved      \* history: was the state acknowledged as stored since it last changed?

ASSUME TriesAreNumbers == Tries \subseteq Nat

upVars == <<upBoot, upStored, upBundle, upInit, upGood, upSaved>>

None    == "none"
Nothing == [active |-> None]
Other(slot) == IF slot = "A" THEN "B" ELSE "A"

-----------------------------------------------------------------------------
(* bootctrl.rs                                                              *)

NewBoot(slot) == [active |-> slot, pending |-> None, staged |-> None, rollback |-> None,
                  tries |-> 0, health |-> FALSE]

Stage(b) == [b EXCEPT !.staged = Other(b.active)]

CanSwitch(b) == b.pending = None /\ b.staged # None
Switch(b, tries) ==
    [active |-> b.staged, pending |-> b.staged, staged |-> None, rollback |-> b.active,
     tries |-> tries, health |-> FALSE]

CommitHealth(b) ==
    [b EXCEPT !.pending = None, !.rollback = None, !.tries = 0, !.health = TRUE]

Rollback_Fault(b) == NewBoot(b.active)
Rollback(b) == NewBoot(b.rollback)

TickBootAttempt_Fault(b) ==
    IF b.pending = None \/ b.tries = 0 THEN b
    ELSE IF b.tries = 1 THEN Rollback(b) ELSE [b EXCEPT !.tries = @ - 1]

(* One try fewer; at zero the previous slot is active again. *)
TickBootAttempt(b) ==
    LET t == IF b.tries > 0 THEN b.tries - 1 ELSE 0
    IN IF b.pending = None THEN b
       ELSE IF t = 0 THEN Rollback(b) ELSE [b EXCEPT !.tries = t]

-----------------------------------------------------------------------------
(* updated/os_lite.rs: the stored form, without the rollback slot           *)

EncodeBootctrl(b) == [active |-> b.active, pending |-> b.pending, staged |-> b.staged,
                      tries |-> b.tries, health |-> b.health]

BootctrlFromState_Fault(s) ==
    IF s.pending # None THEN Switch(Stage(NewBoot(Other(s.active))), 2)
    ELSE IF s.health THEN CommitHealth(Switch(Stage(NewBoot(Other(s.active))), 0))
    ELSE IF s.staged # None THEN Stage(NewBoot(s.active)) ELSE NewBoot(s.active)
BootctrlFromState(s) ==
    IF s.pending # None THEN Switch(Stage(NewBoot(Other(s.active))), s.tries)
    ELSE IF s.health THEN CommitHealth(Switch(Stage(NewBoot(Other(s.active))), 0))
    ELSE IF s.staged # None THEN Stage(NewBoot(s.active)) ELSE NewBoot(s.active)

Restored(stored) == IF stored = Nothing THEN NewBoot("A") ELSE BootctrlFromState(stored)

(* persist_bootctrl_state: put, then sync; TRUE if both were acknowledged.  *)
(* The client reads the inbox bundlemgrd's replies come to as well, and     *)
(* drops what it does not expect.                                           *)
Persist(b, bundle, ok) ==
    /\ upStored' \in IF ok THEN {EncodeBootctrl(b)} ELSE {EncodeBootctrl(b), upStored}
    /\ upSaved' = ok
    /\ \E late \in IF ok THEN {0} ELSE {0, bundle.late} :
          upBundle' = [bundle EXCEPT !.late = late]

(* bundlemgrd_set_active_slot, called by updated: the request is sent or    *)
(* not, bundlemgrd serves k of the waiting ones in time, and any reply in   *)
(* the inbox is taken for the answer.                                       *)
SetActiveSlot(bundle, slot) ==
    {[to |-> bundle, ok |-> FALSE]}
    \cup {LET q  == Append(bundle.queue, slot)
              n  == bundle.late + k
          IN [to |-> [slot  |-> IF k = 0 THEN bundle.slot ELSE q[k],
                      queue |-> SubSeq(q, k + 1, Len(q)),
                      late  |-> IF n = 0 THEN 0 ELSE n - 1],
              ok |-> n > 0] :
            k \in IF Len(bundle.queue) < MaxQueue THEN 0..(Len(bundle.queue) + 1) ELSE {}}

UpInit ==
    /\ upBoot = NewBoot("A") /\ upStored = Nothing
    /\ upBundle = [slot |-> "A", queue |-> <<>>, late |-> 0]
    /\ upInit = [done |-> FALSE, left |-> MaxAttempts, asked |-> 0, replies |-> <<>>]
    /\ upGood = {"A"} /\ upSaved = FALSE

(* A verified image is staged; the state is stored, and stays staged in     *)
(* memory if that fails.                                                    *)
HandleStage ==
    /\ upBoot' = Stage(upBoot)
    /\ \E ok \in BOOLEAN : Persist(upBoot', upBundle, ok)
    /\ UNCHANGED <<upInit, upGood>>

(* bundlemgrd publishes the new slot, then the state is stored; a failure   *)
(* of either takes the switch back.                                         *)
HandleSwitch(tries) ==
    /\ CanSwitch(upBoot)
    /\ LET new == Switch(upBoot, tries)
       IN \E r \in SetActiveSlot(upBundle, new.active) :
            \/ /\ ~r.ok
               /\ upBoot' = Rollback(new) /\ upBundle' = r.to /\ upSaved' = FALSE
               /\ UNCHANGED <<upStored, upGood>>
            \/ /\ r.ok /\ Persist(new, r.to, TRUE)
               /\ upBoot' = new
               /\ upGood' = upGood \ {new.active}
            \/ /\ r.ok
               /\ upBoot' = Rollback(new)
               /\ upStored' \in {EncodeBootctrl(new), upStored} /\ upSaved' = FALSE
               /\ \E back \in SetActiveSlot(r.to, upBoot'.active) : upBundle' = back.to
               /\ UNCHANGED upGood
    /\ UNCHANGED upInit

(* init relays the health report; updated commits in memory first. *)
HandleHealthOk ==
    /\ upBoot.pending # None
    /\ upBoot' = CommitHealth(upBoot)
    /\ upGood' = upGood \cup {upBoot.active}
    /\ \E ok \in BOOLEAN : Persist(upBoot', upBundle, ok)
    /\ UNCHANGED upInit

(* init sends BootAttempt, and again at each deadline without a reply. *)
SendBootAttempt ==
    /\ ~upInit.done /\ upInit.left > 0 /\ upInit.replies = <<>>
    /\ upInit' = [upInit EXCEPT !.left = @ - 1, !.asked = @ + 1]
    /\ UNCHANGED <<upBoot, upStored, upBundle, upGood, upSaved>>

(* The reply names the slot if this attempt rolled back. *)
HandleBootAttempt ==
    /\ upInit.asked > 0
    /\ upBoot' = TickBootAttempt(upBoot)
    /\ \E ok \in BOOLEAN :
         /\ Persist(upBoot', upBundle, ok)
         /\ upInit' = [upInit EXCEPT !.asked = @ - 1,
               !.replies = Append(@, IF ok /\ upBoot'.active # upBoot.active
                                     THEN upBoot'.active ELSE None)]
    /\ UNCHANGED upGood

(* init takes one reply and is done; if it names a slot, bundlemgrd is      *)
(* asked to publish it, with a deadline of its own.                         *)
InitDone ==
    /\ ~upInit.done /\ upInit.replies # <<>>
    /\ upInit' = [upInit EXCEPT !.done = TRUE, !.replies = Tail(@)]
    /\ LET slot == Head(upInit.replies)
       IN upBundle' \in {upBundle} \cup
            (IF slot = None THEN {} ELSE {[upBundle EXCEPT !.slot = slot]})
    /\ UNCHANGED <<upBoot, upStored, upGood, upSaved>>

(* bundlemgrd serves a request whose sender gave up. *)
ServeLate ==
    /\ upBundle.queue # <<>>
    /\ upBundle.late < MaxQueue
    /\ upBundle' = [slot |-> Head(upBundle.queue), queue |-> Tail(upBundle.queue),
                    late |-> upBundle.late + 1]
    /\ UNCHANGED <<upBoot, upStored, upInit, upGood, upSaved>>

(* Every service restarts; updated loads the stored state, and falls back   *)
(* to a fresh one on slot A if that fails.                                  *)
Reboot ==
    /\ upBoot' \in {Restored(upStored)} \cup (IF LoadFailures THEN {NewBoot("A")} ELSE {})
    /\ upBundle' = [slot |-> "A", queue |-> <<>>, late |-> 0]
    /\ upInit' = [done |-> FALSE, left |-> MaxAttempts, asked |-> 0, replies |-> <<>>]
    /\ UNCHANGED <<upStored, upGood, upSaved>>

UpNext ==
    \/ HandleStage \/ HandleHealthOk \/ SendBootAttempt \/ HandleBootAttempt \/ InitDone
    \/ ServeLate \/ Reboot
    \/ \E t \in Tries : HandleSwitch(t)

UpdatesSpec == UpInit /\ [][UpNext]_upVars

(* Machines are restarted, and now and then a boot attempt gets through and *)
(* its result is stored.                                                    *)
AttemptCounted == HandleBootAttempt /\ upSaved'

-----------------------------------------------------------------------------
Safe(b) == IF b.pending = None THEN b.active \in upGood
           ELSE b.pending = b.active /\ b.rollback = Other(b.active) /\ b.rollback \in upGood

(* Now, and after a restart at this instant, the system runs an image that  *)
(* was confirmed, or one on trial that falls back to a confirmed image:     *)
(* whatever stores failed, were half done, or were counted twice            *)
(* (handle_switch, handle_health_ok, handle_boot_attempt).                  *)
UpFallbackGood == Safe(upBoot) /\ Safe(Restored(upStored))

(* The stored record, which leaves out the rollback slot, loses nothing: if *)
(* the last change was acknowledged, a restart rebuilds the boot control    *)
(* that is in memory, but for an image that is only staged                  *)
(* (encode_bootctrl_state, bootctrl_from_state).                            *)
UpRestoreExact ==
    upSaved => [Restored(upStored) EXCEPT !.staged = None] = [upBoot EXCEPT !.staged = None]

(* A trial does not last forever: without a health commit the attempts run  *)
(* out over the restarts and the previous slot comes back (tick_boot_attempt*)
(* over the stored count).                                                  *)
UpTrialEnds == []<>(upBoot.pending = None)
=============================================================================
