------------------------------ MODULE DeviceIrq ------------------------------
(***************************************************************************)
(* Device interrupts from the line to the driver: the claim and complete   *)
(* protocol of the PLIC, the kernel's routing to endpoints (core/irq.rs),  *)
(* and the two drivers that sleep on it: hidrawd's drain loop and gpud's   *)
(* wait for a free command slot.                                           *)
(*                                                                         *)
(* A device holds work and a latch that drives its level-triggered line.   *)
(* The deadline of gpud's wait is left out: the properties show that the   *)
(* wait ends without it.                                                   *)
(***************************************************************************)
EXTENDS Naturals, FiniteSets, FiniteSetsExt

CONSTANTS
    InputDev,     \* the sources of the input devices
    GpuDev,       \* the source of the graphics device
    BoxDepth,     \* depth of an endpoint's queue
    RingSlots,    \* command slots of gpud
    RouteFails,   \* whether inputd may become unreachable
    MaxWork       \* bound on the events waiting in a device

VARIABLES
    iqLine,    \* source -> enabled, bound, claimed
    iqDev,     \* source -> work, latch
    iqBox,     \* endpoint -> notifications queued
    iqPc,      \* driver -> where it is
    iqFlight   \* commands the graphics device works on

ASSUME IqConstants ==
    /\ IsFiniteSet(InputDev) /\ GpuDev \notin InputDev
    /\ BoxDepth \in Nat \ {0}

iqVars == <<iqLine, iqDev, iqBox, iqPc, iqFlight>>

Source == InputDev \cup {GpuDev}
Driver == {"hid", "gpu"}
DriverOf(s) == IF s = GpuDev THEN "gpu" ELSE "hid"

IqInit ==
    /\ iqLine = [s \in Source |-> [enabled |-> FALSE, bound |-> FALSE, claimed |-> FALSE]]
    /\ iqDev = [s \in Source |-> [work |-> 0, latch |-> FALSE]]
    /\ iqBox = [d \in Driver |-> 0]
    /\ iqPc = [d \in Driver |-> "bind"]
    /\ iqFlight = 0

Goto(d, pc) == iqPc' = [iqPc EXCEPT ![d] = pc]

-----------------------------------------------------------------------------
(* The devices *)

InputEvent(s) ==
    /\ iqDev[s].work < MaxWork
    /\ iqDev' = [iqDev EXCEPT ![s] = [work |-> @.work + 1, latch |-> TRUE]]
    /\ UNCHANGED <<iqLine, iqBox, iqPc, iqFlight>>

GpuCompletes ==
    /\ iqFlight > 0
    /\ iqFlight' = iqFlight - 1
    /\ iqDev' = [iqDev EXCEPT ![GpuDev] = [work |-> @.work + 1, latch |-> TRUE]]
    /\ UNCHANGED <<iqLine, iqBox, iqPc>>

-----------------------------------------------------------------------------
(* irq.rs and plic.rs                                                       *)

Pending(s) == iqLine[s].enabled /\ ~iqLine[s].claimed /\ iqDev[s].latch

(* dispatch_external claims every pending source.  A bound one is announced *)
(* and stays claimed until irq_complete, also if the endpoint is full; an   *)
(* unbound one is masked.                                                   *)
DispatchExternal ==
    /\ \E s \in Source : Pending(s)
    /\ iqLine' = [s \in Source |->
          IF ~Pending(s) THEN iqLine[s]
          ELSE IF iqLine[s].bound THEN [iqLine[s] EXCEPT !.claimed = TRUE]
          ELSE [iqLine[s] EXCEPT !.enabled = FALSE]]
    /\ iqBox' = [d \in Driver |->
          LET n == iqBox[d] + Cardinality({s \in Source : Pending(s) /\ iqLine[s].bound
                                                            /\ DriverOf(s) = d})
          IN IF n > BoxDepth THEN BoxDepth ELSE n]
    /\ UNCHANGED <<iqDev, iqPc, iqFlight>>

(* The interrupt found the kernel: claimed and completed at once, so a      *)
(* bound source is pending again; an unbound one is masked.                 *)
DrainUndelivered ==
    /\ \E s \in Source : Pending(s)
    /\ iqLine' = [s \in Source |->
          IF Pending(s) /\ ~iqLine[s].bound THEN [iqLine[s] EXCEPT !.enabled = FALSE]
          ELSE iqLine[s]]
    /\ UNCHANGED <<iqDev, iqBox, iqPc, iqFlight>>

(* sys_irq_bind for all devices of the driver. *)
Bound(d) == [s \in Source |->
    IF DriverOf(s) = d THEN [iqLine[s] EXCEPT !.bound = TRUE, !.enabled = TRUE] ELSE iqLine[s]]

(* sys_irq_complete; of a source that is not claimed it does nothing. *)
IrqComplete(d) == [s \in Source |->
    IF DriverOf(s) = d THEN [iqLine[s] EXCEPT !.claimed = FALSE] ELSE iqLine[s]]

(* ipc_recv on the notification endpoint, blocking. *)
Receive(d) == iqBox[d] > 0 /\ iqBox' = [iqBox EXCEPT ![d] = @ - 1]

-----------------------------------------------------------------------------
(* hidrawd: acknowledge all latches, poll all rings, again until a pass     *)
(* finds nothing, then unmask and sleep.                                    *)

HidBind ==
    /\ iqPc["hid"] = "bind" /\ Goto("hid", "ack") /\ iqLine' = Bound("hid")
    /\ UNCHANGED <<iqDev, iqBox, iqFlight>>

AckedInputs == [s \in Source |-> IF s = GpuDev THEN iqDev[s] ELSE [iqDev[s] EXCEPT !.latch = FALSE]]
HidAck ==
    /\ iqPc["hid"] = "ack" /\ Goto("hid", "poll") /\ iqDev' = AckedInputs
    /\ UNCHANGED <<iqLine, iqBox, iqFlight>>

(* The devices one pass polls: all, or, if inputd cannot be reached any     *)
(* more, those up to the one whose events could not be sent.                *)
Pass == {InputDev} \cup
    IF RouteFails THEN {{s \in InputDev : s <= last} : last \in {t \in InputDev : iqDev[t].work > 0}}
    ELSE {}

HidPoll_Fault ==
    /\ iqPc["hid"] = "poll"
    /\ Goto("hid", IF \E s \in InputDev : iqDev[s].work > 0 THEN "ack" ELSE "complete")
    /\ iqDev' = [iqDev EXCEPT ![Min(InputDev)].work = 0]
    /\ UNCHANGED <<iqLine, iqBox, iqFlight>>
HidPoll ==
    /\ iqPc["hid"] = "poll"
    /\ \E pass \in Pass :
         /\ Goto("hid", IF pass = InputDev /\ \E s \in InputDev : iqDev[s].work > 0
                        THEN "ack" ELSE "complete")
         /\ iqDev' = [s \in Source |-> IF s \in pass THEN [iqDev[s] EXCEPT !.work = 0] ELSE iqDev[s]]
    /\ UNCHANGED <<iqLine, iqBox, iqFlight>>

HidComplete ==
    /\ iqPc["hid"] = "complete" /\ Goto("hid", "recv") /\ iqLine' = IrqComplete("hid")
    /\ UNCHANGED <<iqDev, iqBox, iqFlight>>

HidRecv ==
    /\ iqPc["hid"] = "recv" /\ Receive("hid") /\ Goto("hid", "ack")
    /\ UNCHANGED <<iqLine, iqDev, iqFlight>>

-----------------------------------------------------------------------------
(* gpud: a command needs a free slot.  Completions are harvested first; if  *)
(* that frees none, drop the notifications, clear the latch, unmask, look   *)
(* again, and only then sleep.                                              *)

GpuBind ==
    /\ iqPc["gpu"] = "bind" /\ Goto("gpu", "run") /\ iqLine' = Bound("gpu")
    /\ UNCHANGED <<iqDev, iqBox, iqFlight>>

Harvested == [iqDev EXCEPT ![GpuDev].work = 0]

(* find_free_slot, then publish; or wait if no slot came free. *)
FindSlot(at, otherwise) ==
    /\ iqPc["gpu"] = at
    /\ iqDev' = Harvested
    /\ IF iqFlight < RingSlots
       THEN iqFlight' = iqFlight + 1 /\ Goto("gpu", IF at = "woken" THEN "ackrun" ELSE "run")
       ELSE UNCHANGED iqFlight /\ Goto("gpu", otherwise)
    /\ UNCHANGED <<iqLine, iqBox>>

GpuSubmit  == FindSlot("run", "drain")
GpuRecheck_Fault ==
    /\ iqPc["gpu"] = "recheck" /\ Goto("gpu", "recv")
    /\ UNCHANGED <<iqLine, iqDev, iqBox, iqFlight>>
GpuRecheck == FindSlot("recheck", "recv")
GpuWoken   == FindSlot("woken", "drain")

GpuDrain ==
    /\ iqPc["gpu"] \in {"drain", "ackrun"}
    /\ Goto("gpu", IF iqPc["gpu"] = "drain" THEN "clear" ELSE "clearrun")
    /\ iqBox' = [iqBox EXCEPT !["gpu"] = 0]
    /\ UNCHANGED <<iqLine, iqDev, iqFlight>>

GpuClear ==
    /\ iqPc["gpu"] \in {"clear", "clearrun"}
    /\ Goto("gpu", IF iqPc["gpu"] = "clear" THEN "complete" ELSE "completerun")
    /\ iqDev' = [iqDev EXCEPT ![GpuDev].latch = FALSE]
    /\ UNCHANGED <<iqLine, iqBox, iqFlight>>

GpuComplete ==
    /\ iqPc["gpu"] \in {"complete", "completerun"}
    /\ Goto("gpu", IF iqPc["gpu"] = "complete" THEN "recheck" ELSE "run")
    /\ iqLine' = IrqComplete("gpu")
    /\ UNCHANGED <<iqDev, iqBox, iqFlight>>

GpuRecv ==
    /\ iqPc["gpu"] = "recv" /\ Receive("gpu") /\ Goto("gpu", "woken")
    /\ UNCHANGED <<iqLine, iqDev, iqFlight>>

DriverStep ==
    \/ HidBind \/ HidAck \/ HidPoll \/ HidComplete \/ HidRecv
    \/ GpuBind \/ GpuRecheck \/ GpuWoken \/ GpuDrain \/ GpuClear \/ GpuComplete \/ GpuRecv

IqNext ==
    \/ DriverStep \/ GpuSubmit \/ GpuCompletes \/ DispatchExternal \/ DrainUndelivered
    \/ \E s \in InputDev : InputEvent(s)

IrqSpec == IqInit /\ [][IqNext]_iqVars

-----------------------------------------------------------------------------
(* No interrupt is lost on the way: a driver that sleeps with an empty      *)
(* queue has nothing unseen in its devices but what raises the line, and    *)
(* the line is unmasked, so the next claim wakes it.  This is so although a *)
(* full endpoint drops notifications and leaves the source masked           *)
(* (hidrawd's ack-before-drain, gpud's re-arm before it parks).             *)
IqSleepsSafely ==
    \A d \in Driver : iqPc[d] = "recv" /\ iqBox[d] = 0 =>
        \A s \in Source : DriverOf(s) = d /\ iqDev[s].work > 0 => Pending(s)

(* Every event a device signals is polled, and a wait for a command slot    *)
(* ends when the device completes a command, without the 500 ms deadline.   *)
IqServed ==
    /\ \A s \in InputDev : (iqDev[s].work > 0) ~> (iqDev[s].work = 0)
    /\ (iqPc["gpu"] = "recv") ~> (iqPc["gpu"] = "run")
=============================================================================
