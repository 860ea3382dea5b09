------------------------------- MODULE MCSync -------------------------------
(* p1 owns two endpoints, a waitset of both and a fence; p2 sends to the     *)
(* endpoints and signals the fence; p3 waits for the fence.                  *)
EXTENDS KernelSync

CONSTANTS p1, p2, p3

Obj(kind, i, rights) == [kind |-> kind, ep |-> i, rights |-> rights]

Own(i)     == Obj("Endpoint", i, {"SEND", "RECV", "MANAGE"})
SendTo(i)  == Obj("Endpoint", i, {"SEND"})
RecvFrom(i) == Obj("Endpoint", i, {"RECV"})
Ws(i)      == Obj("Waitset", i, {"MANAGE"})
Fn(i)      == Obj("Fence", i, {"MANAGE"})

MCCap == UNION {{Own(i), SendTo(i), RecvFrom(i), Ws(i), Fn(i)} : i \in 1..2}
MCMessage == [len : {0}, cap : MCCap \cup {NoCap}]

MCOwners == <<p1, p1>>
MCWaitsets == <<Waitset(p1, <<1>>)>>
MCFences == <<p1>>
Tbl(f) == [s \in Slot |-> IF s \in DOMAIN f THEN f[s] ELSE NoCap]
MCCaps == p1 :> Tbl(<<Own(1), Own(2), Ws(1), Fn(1)>>)
            @@ p2 :> Tbl(<<SendTo(1), SendTo(2), Fn(1)>>)
            @@ p3 :> Tbl(<<Fn(1)>>)

IpcCall(op, slot, nonblock) ==
    [op |-> op, slot |-> slot, len |-> 0, move |-> None,
     nonblock |-> nonblock, deadline |-> 0]
WaitCall(deadline) == [op |-> "waitset", slot |-> 3, deadline |-> deadline]
FenceCall(slot, target, deadline) ==
    [op |-> "fence", slot |-> slot, target |-> target, deadline |-> deadline]

WaitsetCalls ==
    p1 :> {WaitCall(0), WaitCall(2), IpcCall("recv", 1, TRUE), IpcCall("recv", 2, TRUE)}
      @@ p2 :> {IpcCall("send", 1, FALSE), IpcCall("send", 2, TRUE)} @@ p3 :> {}
FenceCalls == p1 :> {FenceCall(4, 1, 2), FenceCall(4, 2, 0)} @@ p2 :> {}
                @@ p3 :> {FenceCall(1, 1, 0), FenceCall(1, 2, 0), FenceCall(1, 2, 2)}

\* The instance is one of those that SyncNoLostWake is about.
ASSUME MCSyncAssumption ==
    ObjectsNamed /\ \E rcv \in [DOMAIN MCOwners -> {p1, p2, p3}] : OneReceiver(rcv)

(* Both at once, one of them per behaviour (part): the steps of a part make  *)
(* its own calls and create and change its own objects only.                 *)
VARIABLE part

syncPartVars == <<part, allVars>>

BothCalls == [p \in {p1, p2, p3} |-> WaitsetCalls[p] \cup FenceCalls[p]]

PartOps == IF part = "waitset" THEN {"waitset", "send", "recv"} ELSE {"fence"}

OfPart ==
    /\ \A p \in Pid : call'[p] # None => call'[p].op \in PartOps
    /\ part = "waitset" =>
         /\ Len(fences') = Len(fences)
         /\ \A f \in DOMAIN fences : fences'[f].value = fences[f].value
         /\ Len(waitsets') > Len(waitsets) => caps'[p1] # caps[p1]
    /\ part = "fence" =>
         /\ Len(waitsets') = Len(waitsets)
         /\ \A w \in DOMAIN waitsets : waitsets'[w].members = waitsets[w].members
         /\ Len(fences') > Len(fences) => caps'[p1] = caps[p1]
    /\ UNCHANGED part

PartInit == SyncInit /\ part \in {"waitset", "fence"}

PartSpec ==
    /\ PartInit
    /\ [][SyncNext /\ OfPart]_syncPartVars
    /\ \A p \in {p1, p3} :
         WF_syncPartVars(call[p] # None /\ SyncStep(p) /\ UNCHANGED part)
=============================================================================
