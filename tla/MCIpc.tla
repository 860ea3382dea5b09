------------------------------- MODULE MCIpc -------------------------------
(* Tasks, endpoints, capabilities and calls for KernelIpc. *)
EXTENDS KernelIpc

CONSTANTS p1, p2, p3

EpCap(i, rights) == [kind |-> "Endpoint", ep |-> i, rights |-> rights]

Own1   == EpCap(1, {"SEND", "RECV", "MANAGE"})
Own2   == EpCap(2, {"SEND", "RECV", "MANAGE"})
Send1  == EpCap(1, {"SEND"})
Recv1  == EpCap(1, {"RECV"})
Send2  == EpCap(2, {"SEND"})
Both1  == EpCap(1, {"SEND", "RECV"})
Vmo    == [kind |-> "Vmo", ep |-> 0, rights |-> {"MAP"}]

MCCap == {c \in {Own1, Own2, Send1, Recv1, Send2, Both1, Vmo} :
            c.ep \in DOMAIN Owners \cup {0}}
MCMessage == [len : 0..1, cap : MCCap \cup {NoCap}]

Tbl(f) == [s \in Slot |-> IF s \in DOMAIN f THEN f[s] ELSE NoCap]

SendCall(len, move, nonblock, deadline) ==
    [op |-> "send", slot |-> 1, len |-> len, move |-> move,
     nonblock |-> nonblock, deadline |-> deadline]
RecvCall(nonblock, deadline) ==
    [op |-> "recv", slot |-> 1, len |-> 0, move |-> None,
     nonblock |-> nonblock, deadline |-> deadline]

(* Moving capabilities: p1 owns endpoint 1 and has a free slot, p2 moves what
   it holds in slot 2 to it, p3 owns endpoint 2, which that capability names,
   and receives from endpoint 1 with a full table. *)
MoveOwners == <<p1, p3>>
MoveCaps == p1 :> Tbl(<<Own1>>) @@ p2 :> Tbl(<<Send1, Send2>>)
              @@ p3 :> Tbl(<<Recv1, Own2>>)
MoveCalls ==
    p1 :> {RecvCall(FALSE, 0), SendCall(1, 2, TRUE, 0), SendCall(1, None, FALSE, 0)}
      @@ p2 :> {SendCall(1, 2, FALSE, 0), SendCall(1, 2, FALSE, 2), SendCall(2, None, FALSE, 0)}
      @@ p3 :> {RecvCall(FALSE, 0), RecvCall(FALSE, 2), RecvCall(TRUE, 0)}

(* One endpoint that everybody sends to and receives from, and a capability
   that goes round: who receives it has a slot free for it. *)
SharedOwners == <<p1>>
SharedCaps == p1 :> Tbl(<<Own1>>) @@ p2 :> Tbl(<<Both1, Vmo>>) @@ p3 :> Tbl(<<Both1>>)
SharedCalls ==
    LET all == {RecvCall(FALSE, 0), RecvCall(FALSE, 2), RecvCall(TRUE, 0),
                SendCall(0, None, FALSE, 0), SendCall(0, None, FALSE, 2),
                SendCall(0, None, TRUE, 0), SendCall(0, 2, FALSE, 0)}
    IN  [p \in Pid |-> all]

(* Two receivers, one of them with a full table, and one sender of a
   capability. *)
FullCaps == p1 :> Tbl(<<Own1>>) @@ p2 :> Tbl(<<Send1, Vmo>>)
              @@ p3 :> Tbl(<<Recv1, Recv1>>)
FullCalls == p1 :> {RecvCall(FALSE, 0)} @@ p2 :> {SendCall(1, 2, FALSE, 0)}
               @@ p3 :> {RecvCall(FALSE, 0)}

(* Two senders, one of which moves a capability for endpoint 2, and one
   receiver, which owns both endpoints. *)
StaleOwners == <<p1, p1>>
StaleCaps == p1 :> Tbl(<<Own1, Own2>>) @@ p2 :> Tbl(<<Send1, Send2>>)
               @@ p3 :> Tbl(<<Send1>>)
StaleCalls == p1 :> {RecvCall(FALSE, 0)} @@ p2 :> {SendCall(0, 2, FALSE, 0)}
                @@ p3 :> {SendCall(0, None, FALSE, 0)}
=============================================================================
