------------------------------ MODULE MCServices ------------------------------
(***************************************************************************)
(* The services and the libraries they are built on, checked side by side: *)
(* one behaviour exercises one of them (part), the others stay in their    *)
(* initial state.                                                          *)
(***************************************************************************)
EXTENDS Nxfs, Statefs, Updates, Mux, Journal, Launch

VARIABLE part

RecordSizes == [v \in SfValue |-> IF v = "small" THEN 1 ELSE 2]
OpensOwn == <<{1}, {2}>>

Init ==
    /\ NxInit /\ SfInit /\ UpInit /\ MxInit /\ JnInit /\ LnInit
    /\ part \in {"nxfs", "statefs", "updates", "streams", "classes", "journal", "launch"}
    /\ part # "launch" => lnSession = "Greeter"

vars == <<part, nxVars, sfVars, upVars, mxVars, jnVars, lnVars>>

NxOnly == part = "nxfs" /\ UNCHANGED <<part, sfVars, upVars, mxVars, jnVars, lnVars>>
SfOnly == part = "statefs" /\ UNCHANGED <<part, nxVars, upVars, mxVars, jnVars, lnVars>>
UpOnly == part = "updates" /\ UNCHANGED <<part, nxVars, sfVars, mxVars, jnVars, lnVars>>
EndsOnly == part = "streams" /\ UNCHANGED <<part, nxVars, sfVars, upVars, jnVars, lnVars>>
SchedOnly == part = "classes" /\ UNCHANGED <<part, nxVars, sfVars, upVars, jnVars, lnVars>>
JnOnly == part = "journal" /\ UNCHANGED <<part, nxVars, sfVars, upVars, mxVars, lnVars>>
LnOnly == part = "launch" /\ UNCHANGED <<part, nxVars, sfVars, upVars, mxVars, jnVars>>

Next ==
    \/ NxOnly /\ NxNext
    \/ SfOnly /\ SfNext
    \/ UpOnly /\ UpNext
    \/ EndsOnly /\ EndsNext
    \/ SchedOnly /\ SchedNext
    \/ JnOnly /\ JnNext
    \/ LnOnly /\ LnNext

Spec ==
    /\ Init /\ [][Next]_vars
    /\ WF_vars(UpOnly /\ Reboot)
    /\ SF_vars(UpOnly /\ SendBootAttempt)
    /\ SF_vars(UpOnly /\ AttemptCounted)
    /\ WF_vars(SchedOnly /\ DequeueNext)
    /\ WF_vars(LnOnly /\ BrokerStep)
    /\ WF_vars(LnOnly /\ ExecStep)
    /\ WF_vars(LnOnly /\ ClientTakes)
=============================================================================
