------------------------------- MODULE Router -------------------------------
(***************************************************************************)
(* The IPC router of the NEURON kernel (source/kernel/neuron/src/ipc): all *)
(* kernel endpoints, their bounded message queues, the waiters parked on   *)
(* them, and the byte budgets that keep queued payloads bounded.           *)
(*                                                                         *)
(* A router value r is a record                                            *)
(*   eps    the endpoint vector; an endpoint id is an index of it, and an  *)
(*          id is never reused: a closed endpoint stays as a dead entry    *)
(*          (ids start at 1 here, at 0 in the code);                       *)
(*   total  queued_bytes_total;                                            *)
(*   owned  owner_queued_bytes, with 0 for an owner that has no entry.     *)
(* The operations are operators from router values to router values, so    *)
(* that the system calls, which do several of them under the big kernel    *)
(* lock, can be composed from them.  Where an operation can fail, its name *)
(* followed by Err is the error it returns ("Ok" when it succeeds).        *)
(***************************************************************************)
EXTENDS Naturals, FiniteSets, SequencesExt, SeqOps

CONSTANTS
    Pid,                        \* task identifiers; also WaiterId
    None,                       \* Option::None
    Message,                    \* messages: records with a payload length len
    MAX_FRAME_BYTES,            \* 8 KiB: bound on one payload
    MAX_DEPTH,                  \* 256: bound on an endpoint's queue depth
    MAX_ENDPOINTS,              \* 384: endpoints ever created
    MAX_ENDPOINTS_PER_OWNER,    \* 96: alive endpoints of one owner
    MaxQueuedBytesTotal,        \* 1 MiB: global byte budget
    MaxQueuedBytesPerOwner,     \* 256 KiB: byte budget of one owner
    BootEndpoints,              \* Router::new(count)
    BOOT_DEPTH                  \* 8: depth of the endpoints made at boot

ASSUME RouterAssumption ==
    /\ None \notin Pid
    /\ MAX_FRAME_BYTES \in Nat /\ MAX_DEPTH \in Nat \ {0}
    /\ MAX_ENDPOINTS \in Nat /\ MAX_ENDPOINTS_PER_OWNER \in Nat
    /\ MaxQueuedBytesTotal \in Nat /\ MaxQueuedBytesPerOwner \in Nat
    /\ BootEndpoints \in 0..MAX_ENDPOINTS /\ BOOT_DEPTH \in 1..MAX_DEPTH
    /\ \A m \in Message : m.len \in 0..MAX_FRAME_BYTES

-----------------------------------------------------------------------------
(* Endpoint *)

WithDepth(depth, owner) ==
    [queue |-> <<>>, depth |-> depth, queued_bytes |-> 0,
     max_queued_bytes |-> depth * MAX_FRAME_BYTES,
     owner |-> owner, alive |-> TRUE,
     recv_waiters |-> <<>>, send_waiters |-> <<>>]

SaturatingSub(a, b) == IF a >= b THEN a - b ELSE 0

\* Seeded fault: one message more than the depth allows.
PushErr_OffByOne(ep, m) ==
    CASE ~ep.alive -> "NoSuchEndpoint"
      [] ep.alive /\ Len(ep.queue) > ep.depth -> "QueueFull"
      [] OTHER -> "Ok"

\* The checks push and push_front share.
PushErr(ep, m) ==
    CASE ~ep.alive -> "NoSuchEndpoint"
      [] ep.alive /\ Len(ep.queue) >= ep.depth -> "QueueFull"
      [] ep.alive /\ Len(ep.queue) < ep.depth
         /\ ep.queued_bytes + m.len > ep.max_queued_bytes -> "NoSpace"
      [] OTHER -> "Ok"

Push(ep, m) ==
    [ep EXCEPT !.queue = Append(@, m), !.queued_bytes = @ + m.len]

PushFront(ep, m) ==
    [ep EXCEPT !.queue = <<m>> \o @, !.queued_bytes = @ + m.len]

Pop(ep) ==
    [ep EXCEPT !.queue = Tail(@),
               !.queued_bytes = SaturatingSub(@, Head(ep.queue).len)]

\* Seeded fault: no check for a waiter that is already parked.
AddWaiter_Duplicates(ws, p) == Append(ws, p)

AddWaiter(ws, p) == IF Contains(ws, p) THEN ws ELSE Append(ws, p)

RemoveWaiter(ws, p) == Without(ws, p)

\* The part of closing an endpoint that changes it.
Closed(ep) ==
    [ep EXCEPT !.alive = FALSE, !.queue = <<>>, !.queued_bytes = 0,
               !.recv_waiters = <<>>, !.send_waiters = <<>>]

Waiters(ep) == ToSet(ep.recv_waiters) \cup ToSet(ep.send_waiters)

-----------------------------------------------------------------------------
(* Router *)

NewRouter ==
    [eps |-> [i \in 1..BootEndpoints |-> WithDepth(BOOT_DEPTH, None)],
     total |-> 0,
     owned |-> [p \in Pid |-> 0]]

SetEndpoint(r, id, ep) == [r EXCEPT !.eps = [@ EXCEPT ![id] = ep]]

EndpointAlive(r, id) == id \in DOMAIN r.eps /\ r.eps[id].alive

Pending(r, id) == EndpointAlive(r, id) /\ r.eps[id].queue # <<>>

OwnerOf(r, id) == IF id \in DOMAIN r.eps THEN r.eps[id].owner ELSE None

QueuedBytesTotal(eps) ==
    SumSeq([i \in DOMAIN eps |-> eps[i].queued_bytes])

OwnerQueuedBytes(eps, p) ==
    SumSeq([i \in DOMAIN eps |->
              IF eps[i].alive /\ eps[i].owner = p THEN eps[i].queued_bytes
                                                  ELSE 0])

\* r with endpoints eps and both totals recomputed from them.
RecomputeAccounting(r, eps) ==
    [eps |-> eps,
     total |-> QueuedBytesTotal(eps),
     owned |-> [p \in Pid |-> OwnerQueuedBytes(eps, p)]]

\* The order of the checks decides which error a caller sees: the budgets
\* come before the look-up of the endpoint.
SendErr(r, id, m) ==
    CASE \/ r.total + m.len > MaxQueuedBytesTotal
         \/ /\ OwnerOf(r, id) # None
            /\ r.owned[OwnerOf(r, id)] + m.len > MaxQueuedBytesPerOwner
           -> "NoSpace"
      [] OTHER -> IF id \in DOMAIN r.eps THEN PushErr(r.eps[id], m)
                                         ELSE "NoSuchEndpoint"

\* Both budgets are charged with a message that went into ep's queue.
Charge(r, id, m, ep) ==
    [eps   |-> [r.eps EXCEPT ![id] = ep],
     total |-> r.total + m.len,
     owned |-> [p \in Pid |-> IF p = r.eps[id].owner THEN r.owned[p] + m.len
                                                     ELSE r.owned[p]]]

Send(r, id, m) ==
    IF SendErr(r, id, m) = "Ok" THEN Charge(r, id, m, Push(r.eps[id], m)) ELSE r

RecvErr(r, id) ==
    CASE ~EndpointAlive(r, id) -> "NoSuchEndpoint"
      [] EndpointAlive(r, id) /\ r.eps[id].queue = <<>> -> "QueueEmpty"
      [] OTHER -> "Ok"

Received(r, id) == Head(r.eps[id].queue)

\* Seeded fault: the owner's budget is not credited back.
Recv_OwnerNotCredited(r, id) ==
    IF RecvErr(r, id) = "Ok"
    THEN [r EXCEPT !.eps[id] = Pop(@),
                   !.total = SaturatingSub(@, Received(r, id).len)]
    ELSE r

Recv(r, id) ==
    IF RecvErr(r, id) = "Ok"
    THEN LET len == Received(r, id).len
         IN [eps   |-> [r.eps EXCEPT ![id] = Pop(@)],
             total |-> SaturatingSub(r.total, len),
             owned |-> [p \in Pid |-> IF p = r.eps[id].owner
                                      THEN SaturatingSub(r.owned[p], len)
                                      ELSE r.owned[p]]]
    ELSE r

\* Seeded fault: the message goes to the back of the queue.
RequeueFront_AtBack(r, id, m) == Send(r, id, m)

\* requeue_front makes the same checks as send; its only caller hands back
\* the message it just received.
RequeueFront(r, id, m) ==
    IF SendErr(r, id, m) = "Ok" THEN Charge(r, id, m, PushFront(r.eps[id], m)) ELSE r

RegisterRecvWaiter(r, id, p) ==
    IF EndpointAlive(r, id)
    THEN SetEndpoint(r, id, [r.eps[id] EXCEPT !.recv_waiters = AddWaiter(@, p)])
    ELSE r

RegisterSendWaiter(r, id, p) ==
    IF EndpointAlive(r, id)
    THEN SetEndpoint(r, id, [r.eps[id] EXCEPT !.send_waiters = AddWaiter(@, p)])
    ELSE r

\* The waiter that a pop returns, None when there is none.
FirstRecvWaiter(r, id) ==
    IF EndpointAlive(r, id) /\ r.eps[id].recv_waiters # <<>>
    THEN Head(r.eps[id].recv_waiters) ELSE None

FirstSendWaiter(r, id) ==
    IF EndpointAlive(r, id) /\ r.eps[id].send_waiters # <<>>
    THEN Head(r.eps[id].send_waiters) ELSE None

PopRecvWaiter(r, id) ==
    IF FirstRecvWaiter(r, id) = None THEN r
    ELSE SetEndpoint(r, id, [r.eps[id] EXCEPT !.recv_waiters = Tail(@)])

PopSendWaiter(r, id) ==
    IF FirstSendWaiter(r, id) = None THEN r
    ELSE SetEndpoint(r, id, [r.eps[id] EXCEPT !.send_waiters = Tail(@)])

RemoveRecvWaiter(r, id, p) ==
    IF EndpointAlive(r, id)
    THEN SetEndpoint(r, id, [r.eps[id] EXCEPT !.recv_waiters = RemoveWaiter(@, p)])
    ELSE r

RemoveSendWaiter(r, id, p) ==
    IF EndpointAlive(r, id)
    THEN SetEndpoint(r, id, [r.eps[id] EXCEPT !.send_waiters = RemoveWaiter(@, p)])
    ELSE r

RemoveWaiterFromAll(r, p) ==
    [r EXCEPT !.eps = [i \in DOMAIN r.eps |->
        [r.eps[i] EXCEPT !.recv_waiters = RemoveWaiter(@, p),
                         !.send_waiters = RemoveWaiter(@, p)]]]

AliveOwnedBy(r, p) == {i \in DOMAIN r.eps : r.eps[i].alive /\ r.eps[i].owner = p}

CreateErr(r, owner) ==
    IF \/ Len(r.eps) >= MAX_ENDPOINTS
       \/ owner # None /\ Cardinality(AliveOwnedBy(r, owner)) >= MAX_ENDPOINTS_PER_OWNER
    THEN "NoSpace" ELSE "Ok"

\* Seeded fault: no clamp.
ClampDepth_Identity(depth) == depth

ClampDepth(depth) ==
    IF depth < 1 THEN 1 ELSE IF depth > MAX_DEPTH THEN MAX_DEPTH ELSE depth

\* Seeded fault: a dead slot is recycled for the new endpoint.
CreateEndpoint_ReusesId(r, depth, owner) ==
    IF CreateErr(r, owner) # "Ok" THEN r
    ELSE IF \E i \in DOMAIN r.eps : ~r.eps[i].alive
    THEN [r EXCEPT !.eps[CHOOSE i \in DOMAIN r.eps : ~r.eps[i].alive] =
                     WithDepth(ClampDepth(depth), owner)]
    ELSE [r EXCEPT !.eps = Append(@, WithDepth(ClampDepth(depth), owner))]

CreateEndpoint(r, depth, owner) ==
    IF CreateErr(r, owner) = "Ok"
    THEN [r EXCEPT !.eps = Append(@, WithDepth(ClampDepth(depth), owner))]
    ELSE r

CloseEndpoint(r, id) ==
    IF EndpointAlive(r, id)
    THEN RecomputeAccounting(r, [r.eps EXCEPT ![id] = Closed(@)])
    ELSE r

CloseEndpointsForOwner(r, p) ==
    RecomputeAccounting(r,
        [i \in DOMAIN r.eps |-> IF i \in AliveOwnedBy(r, p) THEN Closed(r.eps[i])
                                                            ELSE r.eps[i]])

\* The waiters the two close operations drain and return.
DrainedByClose(r, id) == IF EndpointAlive(r, id) THEN Waiters(r.eps[id]) ELSE {}

DrainedByOwner(r, p) == UNION {Waiters(r.eps[i]) : i \in AliveOwnedBy(r, p)}

-----------------------------------------------------------------------------
(* What a router value should satisfy *)

Endpoint ==
    [queue : Seq(Message), depth : 1..MAX_DEPTH, queued_bytes : Nat,
     max_queued_bytes : Nat, owner : Pid \cup {None}, alive : BOOLEAN,
     recv_waiters : Seq(Pid), send_waiters : Seq(Pid)]

RouterState == [eps : Seq(Endpoint), total : Nat, owned : [Pid -> Nat]]

Lengths(q) == [k \in DOMAIN q |-> q[k].len]

AccountingOf(r) ==
    /\ \A i \in DOMAIN r.eps : r.eps[i].queued_bytes = SumSeq(Lengths(r.eps[i].queue))
    /\ r.total = QueuedBytesTotal(r.eps)
    /\ \A p \in Pid : r.owned[p] = OwnerQueuedBytes(r.eps, p)

BudgetsOf(r) ==
    /\ \A i \in DOMAIN r.eps :
         /\ Len(r.eps[i].queue) <= r.eps[i].depth
         /\ r.eps[i].queued_bytes <= r.eps[i].max_queued_bytes
    /\ r.total <= MaxQueuedBytesTotal
    /\ \A p \in Pid : r.owned[p] <= MaxQueuedBytesPerOwner
    /\ Len(r.eps) <= MAX_ENDPOINTS
    /\ \A p \in Pid : Cardinality(AliveOwnedBy(r, p)) <= MAX_ENDPOINTS_PER_OWNER

WaitersOf(r) ==
    \A i \in DOMAIN r.eps :
      /\ IsDistinct(r.eps[i].recv_waiters)
      /\ IsDistinct(r.eps[i].send_waiters)
      /\ ~r.eps[i].alive => /\ r.eps[i].queue = <<>>
                            /\ Waiters(r.eps[i]) = {}
=============================================================================
