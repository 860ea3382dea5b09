--------------------------- MODULE MCKernelObjects ---------------------------
(***************************************************************************)
(* The kernel's services beside scheduling and IPC, checked side by side:  *)
(* one behaviour exercises one of them (part), the others stay in their    *)
(* initial state.                                                          *)
(***************************************************************************)
EXTENDS KernelTimers, DeviceIrq, Smp, Vmo

VARIABLE part

vars == <<part, tmVars, iqVars, smVars, vmVars>>

Init ==
    /\ part \in {"timers", "irq", "smp", "vmo"}
    /\ TmInit /\ IqInit /\ SmInit /\ VmInit

TmOnly == part = "timers" /\ UNCHANGED <<part, iqVars, smVars, vmVars>>
IqOnly == part = "irq" /\ UNCHANGED <<part, tmVars, smVars, vmVars>>
SmOnly == part = "smp" /\ UNCHANGED <<part, tmVars, iqVars, vmVars>>
VmOnly == part = "vmo" /\ UNCHANGED <<part, tmVars, iqVars, smVars>>

Next == \/ TmOnly /\ TmNext
        \/ IqOnly /\ IqNext
        \/ SmOnly /\ SmNext
        \/ VmOnly /\ VmNext

(* Time passes, and a hart whose timer is due gets the lock, though others  *)
(* keep taking it.                                                          *)
TmFairness ==
    /\ WF_vars(TmOnly /\ TimeGoesOn)
    /\ \A h \in TmHart : SF_vars(TmOnly /\ UserTimerIrq(h))
    /\ SF_vars(TmOnly /\ IdlePass)

(* The drivers run, the devices finish what they were given and the kernel  *)
(* takes interrupts.                                                        *)
IqFairness ==
    /\ WF_vars(IqOnly /\ HidBind) /\ WF_vars(IqOnly /\ HidAck)
    /\ WF_vars(IqOnly /\ HidPoll) /\ WF_vars(IqOnly /\ HidComplete)
    /\ WF_vars(IqOnly /\ HidRecv)
    /\ WF_vars(IqOnly /\ (GpuBind \/ GpuRecheck \/ GpuWoken \/ GpuDrain
                          \/ GpuClear \/ GpuComplete \/ GpuRecv))
    /\ WF_vars(IqOnly /\ GpuCompletes) /\ WF_vars(IqOnly /\ DispatchExternal)

Spec == Init /\ [][Next]_vars /\ TmFairness /\ IqFairness

(* The harts alone: each runs on, and one that keeps asking for the kernel  *)
(* lock while it is free gets it.                                           *)
SmSpec ==
    /\ Init /\ part = "smp" /\ [][SmOnly /\ SmNext]_vars
    /\ \A h \in SmHart : WF_vars(SmOnly /\ HandlerStep(h)) /\ SF_vars(SmOnly /\ LockStep(h))

(* The memory pool alone. *)
VmSpec == Init /\ part = "vmo" /\ [][VmOnly /\ VmNext]_vars
=============================================================================
